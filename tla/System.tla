------------------------------- MODULE System -------------------------------
(***************************************************************************)
(* A gateway through an outage: ServeHTTP calls the limiter, whose script  *)
(* runs in Redis behind the breaker, while other gateways charge the same  *)
(* keys.  AllowScript is the script and Redis' clock, Breaker the breaker  *)
(* of this gateway; this module is what flows between them.                *)
(*                                                                         *)
(* The Redis client is one step here: the script is carried out or not,    *)
(* and its reply comes back or not.  What RedisClient shows to go wrong    *)
(* for good while Redis is up is a flag here: closed connections go back   *)
(* to the pool, and a script that Redis has forgotten is not loaded again. *)
(*                                                                         *)
(* Redis keeps its data when it cannot be reached (AllowScript has the     *)
(* loss of a key).  A request that does not wait for Redis takes no time   *)
(* of the gateway's clock, which counts seconds.  The clock of Redis is    *)
(* another machine's and runs on its own.                                  *)
(***************************************************************************)
EXTENDS Integers, FiniteSets

CONSTANTS Key, Rate, Period, Burst, Cost, Res, MaxTime,    \* of AllowScript
          Caller, Threshold, Reattempt,                    \* of Breaker
          MaxLosses      \* bound on the calls that break on a sound connection

VARIABLES now, store, reply, admitted, grants,                  \* of AllowScript
          errorCount, wait, pc, reg, due, up, streak, sinceRound, \* of Breaker
          sound,      \* does every pooled connection work, and Redis have the script?
          source,     \* source[c]: the key of c's request
          result,     \* result[c]: the end of c's script call, before it returns
          answer,     \* answer[c]: how c's last request ended
          passed,     \* passed[k], history: requests forwarded because they were admitted
          lost,       \* lost[k], history: admissions whose reply was lost
          others,     \* others[k], history: admissions of other gateways
          losses,     \* calls that broke on a sound connection
          trouble,    \* history: seconds since a call last failed
          failureMode \* the plugin's, for good

script == <<now, store, reply, admitted, grants>>
breaker == <<errorCount, wait, pc, reg, due, streak, sinceRound>>
ledger == <<passed, lost, others>>
vars == <<script, breaker, up, sound, source, result, answer, ledger, losses, trouble, failureMode>>

S == INSTANCE AllowScript
B == INSTANCE Breaker WITH healthy <- up

ASSUME SystemAssumption ==
    /\ S!LimitAssumption /\ B!BreakerAssumption
    /\ Cost = {1}         \* limiter.Allow is AllowN for one event
    /\ IsFiniteSet(Caller)
    /\ MaxLosses \in Nat

Calm == Reattempt + 1    \* trouble saturates here

-----------------------------------------------------------------------------
(* ServeHTTP after the limiter. *)

\* How a request of caller c ends.
EndsAs(c, how) ==
    answer' = [answer EXCEPT ![c] =
        CASE how = "allowed" -> "forwarded"
          [] how = "refused" -> "429"
          [] how = "error"   -> IF failureMode = "open" THEN "free" ELSE "503"]

\* The breaker has returned: the request is answered.
Answered(c) ==
    IF pc'[c] = "idle"
    THEN /\ EndsAs(c, result[c])
         /\ result' = [result EXCEPT ![c] = "none"]
         /\ passed' = IF result[c] = "allowed" THEN [passed EXCEPT ![source[c]] = @ + 1]
                      ELSE passed
    ELSE UNCHANGED <<result, answer, passed>>

Elsewhere == <<script, up, sound, lost, others, losses, trouble, failureMode>>

\* limiter.Allow for a request of source k: the first operand of the breaker's
\* condition.
Begin(c, k) ==
    /\ B!ReadCount(c)
    /\ source' = [source EXCEPT ![c] = k]
    /\ UNCHANGED <<Elsewhere, result, answer, passed>>

\* The second operand; "breaker opened" is an error like any other.
Gate(c) ==
    /\ B!ReadTime(c)
    /\ IF pc'[c] = "idle" THEN EndsAs(c, "error") ELSE UNCHANGED answer
    /\ UNCHANGED <<Elsewhere, source, result, passed>>

\* A client that sends the script again while its reply is on the way.
ExecuteTwice(c) ==
    /\ pc[c] = "script" /\ result[c] \in {"none", "allowed"}
    /\ up
    /\ S!AllowN(source[c], 1)
    /\ result' = [result EXCEPT ![c] = IF reply'.allowed > 0 THEN "allowed" ELSE "refused"]
    /\ UNCHANGED <<breaker, up, sound, source, answer, ledger, losses, trouble, failureMode>>

\* Redis carries the script out; an unsound client may still find a way to it.
Execute(c) ==
    /\ pc[c] = "script" /\ result[c] = "none"
    /\ up
    /\ S!AllowN(source[c], 1)
    /\ result' = [result EXCEPT ![c] = IF reply'.allowed > 0 THEN "allowed" ELSE "refused"]
    /\ UNCHANGED <<breaker, up, sound, source, answer, ledger, losses, trouble, failureMode>>

\* A client that takes an unreachable Redis for a "yes".
UnservedAllows(c) ==
    /\ pc[c] = "script" /\ result[c] = "none"
    /\ ~(up /\ sound)
    /\ result' = [result EXCEPT ![c] = "allowed"]
    /\ trouble' = 0
    /\ UNCHANGED <<script, breaker, up, sound, source, answer, ledger, losses, failureMode>>

\* Redis cannot be reached, or the connection taken from the pool is closed, or
\* Redis answers NOSCRIPT.
Unserved(c) ==
    /\ pc[c] = "script" /\ result[c] = "none"
    /\ ~(up /\ sound)
    /\ result' = [result EXCEPT ![c] = "error"]
    /\ trouble' = 0
    /\ UNCHANGED <<script, breaker, up, sound, source, answer, ledger, losses, failureMode>>

\* The call fails before the script has run, or the reply is lost after it.
Lose(c) ==
    /\ pc[c] = "script" /\ result[c] \in {"none", "allowed", "refused"}
    /\ losses < MaxLosses
    /\ losses' = losses + 1
    /\ lost' = IF result[c] = "allowed" THEN [lost EXCEPT ![source[c]] = @ + 1] ELSE lost
    /\ result' = [result EXCEPT ![c] = "error"]
    /\ trouble' = 0
    /\ UNCHANGED <<script, breaker, up, sound, source, answer, passed, others, failureMode>>

\* The script call returns to the breaker.
Return(c) ==
    /\ result[c] # "none"
    /\ B!ScriptReturns(c, result[c] # "error")
    /\ UNCHANGED <<Elsewhere, source, result, answer, passed>>

\* The breaker counts, and the request is answered.
Count(c) ==
    /\ \/ B!ResetCount(c) \/ B!BumpRead(c) \/ B!BumpWrite(c) \/ B!Check(c)
       \/ B!ReadClock(c) \/ B!Arm(c)
    /\ Answered(c)
    /\ UNCHANGED <<Elsewhere, source>>

\* Another gateway of the cluster asks Redis.
Other(k) ==
    /\ S!AllowN(k, 1)
    /\ others' = [others EXCEPT ![k] = @ + reply'.allowed]
    /\ UNCHANGED <<breaker, up, sound, source, result, answer, passed, lost, losses, trouble, failureMode>>

-----------------------------------------------------------------------------
Local == {c \in Caller : pc[c] \notin {"idle", "script"} \/ result[c] = "error"}

\* A second passes on the gateway, for calls that wait for Redis.
Tick ==
    /\ Local = {}
    /\ B!Tick
    /\ trouble' = IF trouble < Calm THEN trouble + 1 ELSE Calm
    /\ UNCHANGED <<script, source, result, answer, ledger, losses, up, sound, failureMode>>

\* The clock of Redis goes on.
RedisTick ==
    /\ S!Tick
    /\ UNCHANGED <<breaker, up, sound, source, result, answer, ledger, losses, trouble, failureMode>>

\* Redis, or the way to it, goes away or comes back.
Turn ==
    /\ B!Turn
    /\ UNCHANGED <<script, sound, source, result, answer, ledger, losses, trouble, failureMode>>

\* The deferred put takes back a connection that a failed call has closed, an
\* outage breaks those in the pool, or Redis loses the script.
Wear ==
    /\ sound
    /\ sound' = FALSE
    /\ UNCHANGED <<script, breaker, up, source, result, answer, ledger, losses, trouble, failureMode>>

\* A full pool drops the last closed connection, or another gateway loads the
\* script: nothing that this gateway makes sure of.
Mend ==
    /\ ~sound
    /\ sound' = TRUE
    /\ UNCHANGED <<script, breaker, up, source, result, answer, ledger, losses, trouble, failureMode>>

Init == /\ S!Init /\ B!Init
        /\ sound = TRUE
        /\ source \in [Caller -> Key]
        /\ result = [c \in Caller |-> "none"]
        /\ answer = [c \in Caller |-> "none"]
        /\ passed = [k \in Key |-> 0]
        /\ lost = [k \in Key |-> 0]
        /\ others = [k \in Key |-> 0]
        /\ losses = 0
        /\ trouble = Calm
        /\ failureMode \in {"open", "closed"}

Step(c) == \/ \E k \in Key : Begin(c, k)
           \/ Gate(c) \/ Execute(c) \/ Unserved(c) \/ Return(c) \/ Count(c)

Next == \/ \E c \in Caller : Step(c) \/ Lose(c)
        \/ \E k \in Key : Other(k)
        \/ Tick \/ RedisTick \/ Turn \/ Wear \/ Mend

Spec == Init /\ [][Next]_vars

\* Requests keep coming, calls to Redis end, and time passes between the steps
\* that take none.
FairSpec == Spec /\ SF_vars(Tick) /\ \A c \in Caller : WF_vars(Step(c))

-----------------------------------------------------------------------------
(* Properties. *)

TypeOK ==
    /\ S!TypeOK /\ B!TypeOK
    /\ sound \in BOOLEAN
    /\ result \in [Caller -> {"none", "allowed", "refused", "error"}]
    /\ answer \in [Caller -> {"none", "forwarded", "429", "503", "free"}]
    /\ source \in [Caller -> Key]
    /\ passed \in [Key -> Nat] /\ lost \in [Key -> Nat] /\ others \in [Key -> Nat]
    /\ losses \in 0 .. MaxLosses
    /\ trouble \in 0 .. Calm
    /\ failureMode \in {"open", "closed"}

\* Requests of source k that Redis has admitted and that are on their way back.
Pending(k) == {c \in Caller : result[c] = "allowed" /\ source[c] = k}

\* Every event charged to a source in Redis is one request of that source
\* forwarded, here or elsewhere, one on its way, or one whose reply was lost: no
\* call is charged twice, and none is let through on its verdict without a
\* charge, however the breaker and the outages fall.
Conserved ==
    \A k \in Key :
        admitted[k] = passed[k] + lost[k] + others[k] + Cardinality(Pending(k))

\* FailureMode "closed": "The limit holds as a guarantee; a Redis outage is an
\* outage".  All gateways together forward no more requests of a source than one
\* bucket admits, through outages, lost replies and probes of the breaker.
LimitHolds ==
    failureMode = "closed" =>
        /\ \A c \in Caller : answer[c] # "free"
        /\ \A k \in Key :
              S!EmissionInterval * (passed[k] + others[k]) <= now + S!BurstOffset

\* A request that finds the breaker open.
Unseen(c) == pc[c] = "time" /\ pc'[c] = "idle"

\* A 503's retry-after "advertises when the breaker will next probe": nobody is
\* turned away unseen later than that after a call last failed, so an outage
\* outlives itself by no more than one period.
RetryAfterEnough == [][\A c \in Caller : Unseen(c) => trouble <= Reattempt]_vars

\* Once Redis stays up, every pooled connection works and Redis has the script,
\* requests are decided by it again and again, and no longer by the failure mode:
\* what the breaker counted in the outage is forgotten.  That Redis stays up is not
\* enough, since the client does not mend itself (KeepsServing of RedisClient).
Decided == \E c \in Caller : result[c] \in {"allowed", "refused"}
Decides ==
    <>[](up /\ sound) =>
        /\ []<>Decided
        /\ <>[](\A c \in Caller : answer[c] \notin {"503", "free"})

\* The breaker's own promises, in this composition.
StopsAfterThreshold == B!StopsAfterThreshold
NeverOpensEarly == B!NeverOpensEarly
=============================================================================
