---------------------------- MODULE RedisClient ----------------------------
(***************************************************************************)
(* The Redis client of internal/redis: the connection pool of redis.go     *)
(* (get, put, newConn), one exchange on a connection (sendCommand), Ping   *)
(* and Del, and the script runner of script.go (Run), used by many request *)
(* goroutines at once.  Redis itself, its script cache and the network are *)
(* the environment: they may stop, drop a connection, forget the scripts,  *)
(* refuse a command or answer after the deadline, MaxFaults times in all.  *)
(*                                                                         *)
(* A request takes effect at the server when it is sent, so an answer that *)
(* is lost or late is one to a request that was carried out.  A dial is    *)
(* one step.  scriptSha is a Go string that goroutines read and write      *)
(* without a lock: while the first value is being stored, a read may see   *)
(* its length without its pointer.                                         *)
(***************************************************************************)
EXTENDS Naturals, Sequences, FiniteSets

CONSTANTS Caller,     \* the goroutines that use the client
          MaxActive,  \* MAX_ACTIVE
          Ops,        \* what callers do: a subset of {"run", "ping", "del"}
          Spread,     \* does the build pass the variadic slice on element by element?
          Faults,     \* a subset of FaultKinds
          MaxFaults   \* bound on the faults

FaultKinds == {"stop", "drop", "flush", "refuse", "late"}

ASSUME ClientAssumption ==
    /\ IsFiniteSet(Caller) /\ Caller # {}
    /\ MaxActive \in Nat \ {0}
    /\ Ops \subseteq {"run", "ping", "del"}
    /\ Spread \in BOOLEAN
    /\ Faults \subseteq FaultKinds
    /\ MaxFaults \in Nat

\* Sockets that can exist at once: pooled ones, and one per caller.
Conn == 1 .. (MaxActive + Cardinality(Caller))
None == 0

VARIABLES pool,       \* conns: the channel, oldest first
          sock,       \* sock[x]: "free" (no such socket), "open" or "closed"
          alive,      \* the sockets whose other end is still there
          inbox,      \* inbox[x]: replies sent on x and not yet read
          scriptSha,  \* ScriptImpl.scriptSha: "", "torn" (half stored) or "sha"
          up,         \* does Redis accept connections?
          loaded,     \* is the script in the script cache of Redis?
          pc,         \* pc[c]: where caller c is
          held,       \* held[c]: the socket c took from the pool or dialled
          req,        \* req[c]: the command c is about to send or has sent
          sha,        \* sha[c]: the value of scriptSha in c's command
          outcome,    \* outcome[c]: what c's call returns, or last returned
          faults,     \* faults that may still happen
          calm        \* history: has Redis been up and undisturbed so far?

client == <<pool, sock, scriptSha>>
server == <<up, loaded, faults, calm>>
caller == <<pc, held, req, sha, outcome>>
vars == <<client, alive, inbox, server, caller>>

-----------------------------------------------------------------------------
(* The pool. *)

Free == {x \in Conn : sock[x] = "free"}
LeastOf(S) == CHOOSE x \in S : \A y \in S : x <= y

FirstStep(op) == IF op = "run" THEN "params" ELSE "send"

\* get: the select of a pooled connection, whatever state it is in.
GetPooled(c, op) ==
    /\ pc[c] = "idle"
    /\ pool # <<>>
    /\ held' = [held EXCEPT ![c] = Head(pool)]
    /\ pool' = Tail(pool)
    /\ req' = [req EXCEPT ![c] = op]
    /\ pc' = [pc EXCEPT ![c] = FirstStep(op)]
    /\ UNCHANGED <<sock, scriptSha, alive, inbox, server, sha, outcome>>

\* get: the default branch of the select; the dial is still to come.
GetMiss(c, op) ==
    /\ pc[c] = "idle"
    /\ pool = <<>>
    /\ req' = [req EXCEPT ![c] = op]
    /\ pc' = [pc EXCEPT ![c] = "dial"]
    /\ UNCHANGED <<client, alive, inbox, server, held, sha, outcome>>

\* newConn: connect, AUTH and SELECT.
DialOK(c) ==
    /\ pc[c] = "dial"
    /\ up
    /\ LET x == LeastOf(Free)
       IN  /\ sock' = [sock EXCEPT ![x] = "open"]
           /\ alive' = alive \cup {x}
           /\ inbox' = [inbox EXCEPT ![x] = <<>>]
           /\ held' = [held EXCEPT ![c] = x]
    /\ pc' = [pc EXCEPT ![c] = FirstStep(req[c])]
    /\ UNCHANGED <<pool, scriptSha, server, req, sha, outcome>>

\* newConn fails: the caller returns before it has deferred put.
DialFails(c) ==
    /\ pc[c] = "dial"
    /\ ~up
    /\ outcome' = [outcome EXCEPT ![c] = "error"]
    /\ pc' = [pc EXCEPT ![c] = "idle"]
    /\ UNCHANGED <<client, alive, inbox, server, held, req, sha>>

\* A pool that grows with every burst of callers.
PutUnbounded(c) ==
    /\ pc[c] = "put"
    /\ pool' = Append(pool, held[c])
    /\ held' = [held EXCEPT ![c] = None]
    /\ sha' = [sha EXCEPT ![c] = ""]
    /\ pc' = [pc EXCEPT ![c] = "idle"]
    /\ UNCHANGED <<sock, scriptSha, alive, inbox, server, req, outcome>>

\* A put that forgets a connection it has no room for.
PutLeaks(c) ==
    /\ pc[c] = "put"
    /\ pool' = IF Len(pool) >= MaxActive THEN pool ELSE Append(pool, held[c])
    /\ held' = [held EXCEPT ![c] = None]
    /\ sha' = [sha EXCEPT ![c] = ""]
    /\ pc' = [pc EXCEPT ![c] = "idle"]
    /\ UNCHANGED <<sock, scriptSha, alive, inbox, server, req, outcome>>

\* A put without the length check: the send on a full channel blocks.
PutBlocks(c) ==
    /\ pc[c] = "put"
    /\ Len(pool) < MaxActive
    /\ pool' = Append(pool, held[c])
    /\ held' = [held EXCEPT ![c] = None]
    /\ sha' = [sha EXCEPT ![c] = ""]
    /\ pc' = [pc EXCEPT ![c] = "idle"]
    /\ UNCHANGED <<sock, scriptSha, alive, inbox, server, req, outcome>>

\* The deferred put, under the mutex: its argument was evaluated when the call
\* was deferred, so it is the connection even where the code has set conn = nil.
Put(c) ==
    /\ pc[c] = "put"
    /\ IF Len(pool) >= MaxActive
       THEN /\ sock' = [sock EXCEPT ![held[c]] = "free"]
            /\ alive' = alive \ {held[c]}
            /\ inbox' = [inbox EXCEPT ![held[c]] = <<>>]
            /\ UNCHANGED pool
       ELSE /\ pool' = Append(pool, held[c])
            /\ UNCHANGED <<sock, alive, inbox>>
    /\ held' = [held EXCEPT ![c] = None]
    /\ sha' = [sha EXCEPT ![c] = ""]
    /\ pc' = [pc EXCEPT ![c] = "idle"]
    /\ UNCHANGED <<scriptSha, server, req, outcome>>

-----------------------------------------------------------------------------
(* One exchange: sendCommand. *)

\* The reply of Redis to the command of caller c, by its RESP type.
Answer(c) ==
    CASE req[c] = "eval" -> IF sha[c] = "sha" /\ loaded /\ Spread THEN "array" ELSE "error"
      [] req[c] = "load" -> "bulk"
      [] req[c] = "ping" -> "status"
      [] req[c] = "del"  -> "integer"

\* A Run that expects its script to return one value.
VerdictSingle(c, reply) ==
    IF req[c] = "eval" THEN IF reply \in {"bulk", "integer"} THEN "ok" ELSE "error"
    ELSE IF reply = "status" THEN "ok" ELSE "error"

\* What the caller makes of a reply.  Run: RESP_SUCCESS_WITH_RESULT or
\* _RESULTS; Ping and Del: RESP_SUCCESS, or "OK".
Verdict(c, reply) ==
    IF req[c] = "eval" THEN IF reply \in {"array", "bulk", "integer"} THEN "ok" ELSE "error"
    ELSE IF reply = "status" THEN "ok" ELSE "error"

\* An error path that does not close the connection.
FailNoClose(c) ==
    /\ outcome' = [outcome EXCEPT ![c] = "error"]
    /\ pc' = [pc EXCEPT ![c] = "put"]
    /\ UNCHANGED <<sock, alive, inbox>>

\* The error path of the callers of sendCommand: conn.Close(); conn = nil;
\* return the error.  put is still deferred.
Fail(c) ==
    /\ sock' = [sock EXCEPT ![held[c]] = "closed"]
    /\ alive' = alive \ {held[c]}
    /\ inbox' = [inbox EXCEPT ![held[c]] = <<>>]
    /\ outcome' = [outcome EXCEPT ![c] = "error"]
    /\ pc' = [pc EXCEPT ![c] = "put"]

\* SetDeadline and Write succeed, and a live Redis carries the command out.
Send(c) ==
    /\ pc[c] = "send"
    /\ sha[c] # "torn"
    /\ sock[held[c]] = "open"
    /\ inbox' = IF held[c] \in alive
                THEN [inbox EXCEPT ![held[c]] = Append(@, [to |-> c, kind |-> Answer(c)])]
                ELSE inbox
    /\ loaded' = (loaded \/ (req[c] = "load" /\ held[c] \in alive))
    /\ pc' = [pc EXCEPT ![c] = "await"]
    /\ UNCHANGED <<client, alive, up, faults, calm, held, req, sha, outcome>>

\* SetDeadline or Write fails: the socket is closed, or its other end is gone.
SendFails(c) ==
    /\ pc[c] = "send"
    /\ sha[c] # "torn"
    /\ sock[held[c]] = "closed" \/ held[c] \notin alive
    /\ Fail(c)
    /\ UNCHANGED <<pool, scriptSha, server, held, req, sha>>

\* Formatting the command dereferences a string that has no pointer.  The panic
\* runs the deferred put; the HTTP server recovers it.
SendPanics(c) ==
    /\ pc[c] = "send"
    /\ sha[c] = "torn"
    /\ outcome' = [outcome EXCEPT ![c] = "panic"]
    /\ pc' = [pc EXCEPT ![c] = "put"]
    /\ UNCHANGED <<client, alive, inbox, server, held, req, sha>>

\* readElement returns the next reply on the connection.  Run stores the sha
\* that SCRIPT LOAD answers; after an error (any text but of 40 characters) it
\* returns one, and the sha stays unknown.
Read(c) ==
    /\ pc[c] = "await"
    /\ inbox[held[c]] # <<>>
    /\ inbox' = [inbox EXCEPT ![held[c]] = Tail(@)]
    /\ LET reply == Head(inbox[held[c]]).kind
       IN  IF req[c] = "load" /\ reply = "bulk"
           THEN /\ pc' = [pc EXCEPT ![c] = "store"]
                /\ UNCHANGED outcome
           ELSE /\ pc' = [pc EXCEPT ![c] = "put"]
                /\ outcome' = [outcome EXCEPT ![c] = Verdict(c, reply)]
    /\ UNCHANGED <<client, alive, server, held, req, sha>>

\* The read ends in an error: the other end is gone.
ReadFails(c) ==
    /\ pc[c] = "await"
    /\ held[c] \notin alive
    /\ Fail(c)
    /\ UNCHANGED <<pool, scriptSha, server, held, req, sha>>

\* The read deadline passes before the reply arrives.
ReadTimesOut(c) ==
    /\ "late" \in Faults /\ faults > 0
    /\ pc[c] = "await"
    /\ faults' = faults - 1
    /\ calm' = FALSE
    /\ Fail(c)
    /\ UNCHANGED <<pool, scriptSha, up, loaded, held, req, sha>>

-----------------------------------------------------------------------------
(* ScriptImpl.Run. *)

\* What a read of scriptSha may return.
ShaSeen == IF scriptSha = "torn" THEN {"", "torn", "sha"} ELSE {scriptSha}

\* params := {"EVALSHA", rs.scriptSha}.
ReadParams(c) ==
    /\ pc[c] = "params"
    /\ \E s \in ShaSeen : sha' = [sha EXCEPT ![c] = s]
    /\ pc' = [pc EXCEPT ![c] = "branch"]
    /\ UNCHANGED <<client, alive, inbox, server, held, req, outcome>>

\* A Run that trusts somebody else to have loaded the script.
BranchNoLoad(c) ==
    /\ pc[c] = "branch"
    /\ req' = [req EXCEPT ![c] = "eval"]
    /\ pc' = [pc EXCEPT ![c] = "send"]
    /\ UNCHANGED <<client, alive, inbox, server, held, sha, outcome>>

\* if rs.scriptSha != "": a second read, that decides which command is sent.
\* SCRIPT LOAD carries the script and no sha.
Branch(c) ==
    /\ pc[c] = "branch"
    /\ \E s \in ShaSeen :
          IF s = "" THEN /\ req' = [req EXCEPT ![c] = "load"]
                         /\ sha' = [sha EXCEPT ![c] = ""]
                    ELSE /\ req' = [req EXCEPT ![c] = "eval"]
                         /\ UNCHANGED sha
    /\ pc' = [pc EXCEPT ![c] = "send"]
    /\ UNCHANGED <<client, alive, inbox, server, held, outcome>>

\* rs.scriptSha = res.Result: the length goes in before the pointer.  Storing
\* over an equal string changes nothing that a reader can see.
StoreBegin(c) ==
    /\ pc[c] = "store"
    /\ scriptSha' = IF scriptSha = "" THEN "torn" ELSE scriptSha
    /\ pc' = [pc EXCEPT ![c] = "stored"]
    /\ UNCHANGED <<pool, sock, alive, inbox, server, held, req, sha, outcome>>

\* The store ends, and params is built again from the field.
StoreEnd(c) ==
    /\ pc[c] = "stored"
    /\ scriptSha' = "sha"
    /\ req' = [req EXCEPT ![c] = "eval"]
    /\ sha' = [sha EXCEPT ![c] = "sha"]
    /\ pc' = [pc EXCEPT ![c] = "send"]
    /\ UNCHANGED <<pool, sock, alive, inbox, server, held, outcome>>

-----------------------------------------------------------------------------
(* Redis and the network. *)

Fault(kind) ==
    /\ kind \in Faults
    /\ faults > 0
    /\ faults' = faults - 1
    /\ calm' = FALSE

\* Redis stops: its connections break and its script cache is lost.
Stop ==
    /\ Fault("stop")
    /\ up
    /\ up' = FALSE
    /\ loaded' = FALSE
    /\ alive' = {}
    /\ inbox' = [x \in Conn |-> <<>>]
    /\ UNCHANGED <<client, caller>>

Start ==
    /\ ~up
    /\ up' = TRUE
    /\ UNCHANGED <<client, alive, inbox, loaded, faults, calm, caller>>

\* One connection breaks: an idle timeout of the server, a firewall.
Drop(x) ==
    /\ Fault("drop")
    /\ x \in alive
    /\ alive' = alive \ {x}
    /\ inbox' = [inbox EXCEPT ![x] = <<>>]
    /\ UNCHANGED <<client, up, loaded, caller>>

\* SCRIPT FLUSH, or a failover to a replica.
Flush ==
    /\ Fault("flush")
    /\ loaded
    /\ loaded' = FALSE
    /\ UNCHANGED <<client, alive, inbox, up, caller>>

\* Redis answers the command of caller c with an error and does not carry it
\* out: LOADING, NOPERM, OOM.
Refuse(c) ==
    /\ Fault("refuse")
    /\ pc[c] = "send"
    /\ sha[c] # "torn"
    /\ sock[held[c]] = "open" /\ held[c] \in alive
    /\ inbox' = [inbox EXCEPT ![held[c]] = Append(@, [to |-> c, kind |-> "error"])]
    /\ pc' = [pc EXCEPT ![c] = "await"]
    /\ UNCHANGED <<client, alive, up, loaded, held, req, sha, outcome>>

-----------------------------------------------------------------------------
\* NewClient prepopulates the pool; dials that fail are skipped.
Init ==
    \E n \in 0 .. MaxActive :
        /\ up \in IF n = 0 THEN BOOLEAN ELSE {TRUE}
        /\ calm = up
        /\ pool = [i \in 1 .. n |-> i]
        /\ sock = [x \in Conn |-> IF x <= n THEN "open" ELSE "free"]
        /\ alive = 1 .. n
        /\ inbox = [x \in Conn |-> <<>>]
        /\ scriptSha = ""
        /\ loaded = FALSE
        /\ faults = MaxFaults
        /\ pc = [c \in Caller |-> "idle"]
        /\ held = [c \in Caller |-> None]
        /\ req = [c \in Caller |-> "ping"]
        /\ sha = [c \in Caller |-> ""]
        /\ outcome = [c \in Caller |-> "none"]

Get(c) == \E op \in Ops : GetPooled(c, op) \/ GetMiss(c, op)
Dial(c) == DialOK(c) \/ DialFails(c)
Exchange(c) == Send(c) \/ SendFails(c) \/ SendPanics(c) \/ Read(c) \/ ReadFails(c)
Script(c) == ReadParams(c) \/ Branch(c) \/ StoreBegin(c) \/ StoreEnd(c)

Step(c) == Get(c) \/ Dial(c) \/ Exchange(c) \/ Script(c) \/ Put(c)

Next == \/ \E c \in Caller : Step(c) \/ Refuse(c) \/ ReadTimesOut(c)
        \/ Stop \/ Start \/ Flush \/ \E x \in Conn : Drop(x)

Spec == Init /\ [][Next]_vars

\* Requests keep coming, goroutines are scheduled, a dial or an exchange ends
\* (both have deadlines), and a Redis that stopped is started again.
FairSpec == Spec /\ WF_vars(Start) /\ \A c \in Caller : WF_vars(Step(c))

-----------------------------------------------------------------------------
(* Properties. *)

Reply == [to : Caller, kind : {"array", "bulk", "status", "integer", "error"}]
Place == {"idle", "dial", "params", "branch", "send", "await", "store", "stored", "put"}

TypeOK ==
    /\ pool \in Seq(Conn) /\ Len(pool) <= MaxActive
    /\ sock \in [Conn -> {"free", "open", "closed"}]
    /\ alive \subseteq Conn
    /\ inbox \in [Conn -> Seq(Reply)]
    /\ scriptSha \in {"", "torn", "sha"}
    /\ up \in BOOLEAN /\ loaded \in BOOLEAN /\ calm \in BOOLEAN
    /\ faults \in 0 .. MaxFaults
    /\ pc \in [Caller -> Place]
    /\ held \in [Caller -> Conn \cup {None}]
    /\ req \in [Caller -> {"run", "ping", "del", "eval", "load"}]
    /\ sha \in [Caller -> {"", "torn", "sha"}]
    /\ outcome \in [Caller -> {"none", "ok", "error", "panic"}]

\* No socket is shared and none is lost: each is in the pool once or in the
\* hands of one caller, whatever failed on the way.
OneOwner ==
    \A x \in Conn :
        LET places == {i \in 1 .. Len(pool) : pool[i] = x}
            owners == {c \in Caller : held[c] = x}
        IN  Cardinality(places) + Cardinality(owners) = IF sock[x] = "free" THEN 0 ELSE 1

\* A caller that waits for a reply can only read the reply to its own command:
\* an abandoned exchange leaves nothing behind for the next user of the socket.
RepliesMatch ==
    \A c \in Caller :
        pc[c] = "await" =>
            /\ Len(inbox[held[c]]) <= 1
            /\ \A i \in 1 .. Len(inbox[held[c]]) : inbox[held[c]][i].to = c

\* Run, "the script was not present, let's load it and runs it": while Redis is
\* up and undisturbed no call returns an error, the first ones included.
HealthyNeverErrors == calm => \A c \in Caller : outcome[c] # "error"

\* Once the script is known, racing callers do not fail either.
WarmNeverErrors ==
    calm => \A c \in Caller : pc[c] = "put" /\ sha[c] = "sha" => outcome[c] = "ok"

\* No caller is stuck in the client: no read, dial or put blocks for ever.
EveryCallReturns == \A c \in Caller : pc[c] # "idle" ~> pc[c] = "idle"

\* While Redis is up, calls succeed again and again.
Served(c) == pc[c] = "put" /\ outcome[c] = "ok"
KeepsServing == <>[]up => []<>(\E c \in Caller : Served(c))
=============================================================================
