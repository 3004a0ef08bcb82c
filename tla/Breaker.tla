------------------------------ MODULE Breaker ------------------------------
(***************************************************************************)
(* The circuit breaker of internal/redis/script_breaker.go: Run, called by *)
(* many request goroutines at once.  errorCount and nextAttempt are plain  *)
(* fields: no lock, no atomics.  Every read and every write of them is a   *)
(* step of its own, so errorCount++ is a read and a later write, and       *)
(* nextAttempt is computed from the clock before it is stored.             *)
(*                                                                         *)
(* nextAttempt is kept as its distance from now, in seconds, and only the  *)
(* sign matters once it is past.  (A torn time.Time is one of the two      *)
(* values: After compares the monotonic word alone.)  errorCount is only   *)
(* compared with GateLimit and Threshold, so it saturates above both.      *)
(***************************************************************************)
EXTENDS Integers

CONSTANTS Caller,     \* the goroutines that call Run
          Threshold,  \* breakerThreshold
          Reattempt   \* reattemptPeriod, in seconds

ASSUME BreakerAssumption ==
    /\ Threshold \in Nat \ {0}    \* New raises both to a default below 1
    /\ Reattempt \in Nat \ {0}

VARIABLES errorCount,   \* the field of that name, saturated at Cap
          wait,         \* nextAttempt - now, and Past once it is past
          pc,           \* pc[c]: where caller c is in Run
          reg,          \* reg[c]: errorCount as caller c read it, to add 1
          due,          \* due[c]: as wait, of the nextAttempt c has yet to store
          healthy,      \* would the wrapped script succeed?
          streak,       \* history: failed calls since the last successful one
          sinceRound    \* history: seconds since the last round of failures began

vars == <<errorCount, wait, pc, reg, due, healthy, streak, sinceRound>>

\* The number written in the condition of Run.
GateLimit == 3

Cap == (IF Threshold > GateLimit THEN Threshold ELSE GateLimit) + 1
Inc(count) == IF count < Cap THEN count + 1 ELSE Cap

Past == -1
Beyond == Reattempt + 1    \* sinceRound saturates here

\* Callers that have raised errorCount and not yet acted on it.  A round of
\* failures lasts as long as there are any: those that overlap are one round.
Deciding == {c \in Caller : pc[c] \in {"check", "arm", "store"}}

-----------------------------------------------------------------------------
\* swb.errorCount < 3, the first operand of the condition.
ReadCount(c) ==
    /\ pc[c] = "idle"
    /\ pc' = [pc EXCEPT ![c] = IF errorCount < GateLimit THEN "script" ELSE "time"]
    /\ UNCHANGED <<errorCount, wait, reg, due, healthy, streak, sinceRound>>

\* A probe that never comes: an open breaker stays open.
ReadTimeNoProbe(c) ==
    /\ pc[c] = "time"
    /\ pc' = [pc EXCEPT ![c] = "idle"]
    /\ UNCHANGED <<errorCount, wait, reg, due, healthy, streak, sinceRound>>

\* time.Now().After(swb.nextAttempt), the second operand; FALSE answers
\* "breaker opened".  The clock and the field are read in one step: a store
\* between the two shuts the breaker for the older clock as for the newer one,
\* unless what it stores is itself past.
ReadTime(c) ==
    /\ pc[c] = "time"
    /\ pc' = [pc EXCEPT ![c] = IF wait < 0 THEN "script" ELSE "idle"]
    /\ UNCHANGED <<errorCount, wait, reg, due, healthy, streak, sinceRound>>

\* swb.script.Run returns, with or without an error.
ScriptReturns(c, ok) ==
    /\ pc[c] = "script"
    /\ pc' = [pc EXCEPT ![c] = IF ok THEN "reset" ELSE "read"]
    /\ UNCHANGED <<errorCount, wait, reg, due, healthy, streak, sinceRound>>

\* A breaker that counts failures of its whole life.
ResetMissing(c) ==
    /\ pc[c] = "reset"
    /\ streak' = 0
    /\ pc' = [pc EXCEPT ![c] = "idle"]
    /\ UNCHANGED <<errorCount, wait, reg, due, healthy, sinceRound>>

\* swb.errorCount = 0.
ResetCount(c) ==
    /\ pc[c] = "reset"
    /\ errorCount' = 0
    /\ streak' = 0
    /\ pc' = [pc EXCEPT ![c] = "idle"]
    /\ UNCHANGED <<wait, reg, due, healthy, sinceRound>>

\* swb.errorCount++: the read.
BumpRead(c) ==
    /\ pc[c] = "read"
    /\ reg' = [reg EXCEPT ![c] = errorCount]
    /\ pc' = [pc EXCEPT ![c] = "write"]
    /\ UNCHANGED <<errorCount, wait, due, healthy, streak, sinceRound>>

\* swb.errorCount++: the write.
BumpWrite(c) ==
    /\ pc[c] = "write"
    /\ errorCount' = Inc(reg[c])
    /\ sinceRound' = IF Deciding = {} THEN 0 ELSE sinceRound
    /\ streak' = Inc(streak)
    /\ reg' = [reg EXCEPT ![c] = 0]
    /\ pc' = [pc EXCEPT ![c] = "check"]
    /\ UNCHANGED <<wait, due, healthy>>

\* The condition before the fix its comment tells of: it holds once.
TripsOnce(count) == count = Threshold

\* An off-by-one in the condition.
TripsLate(count) == count > Threshold

Trips(count) == count >= Threshold

\* if swb.errorCount >= swb.breakerThreshold: errorCount is read again.
Check(c) ==
    /\ pc[c] = "check"
    /\ pc' = [pc EXCEPT ![c] = IF Trips(errorCount) THEN "arm" ELSE "idle"]
    /\ UNCHANGED <<errorCount, wait, reg, due, healthy, streak, sinceRound>>

\* An off-by-one in the period.
ReadClockLate(c) ==
    /\ pc[c] = "arm"
    /\ due' = [due EXCEPT ![c] = Reattempt + 1]
    /\ pc' = [pc EXCEPT ![c] = "store"]
    /\ UNCHANGED <<errorCount, wait, reg, healthy, streak, sinceRound>>

\* time.Now().Add(reattemptPeriod).
ReadClock(c) ==
    /\ pc[c] = "arm"
    /\ due' = [due EXCEPT ![c] = Reattempt]
    /\ pc' = [pc EXCEPT ![c] = "store"]
    /\ UNCHANGED <<errorCount, wait, reg, healthy, streak, sinceRound>>

\* The store to swb.nextAttempt, which by now may be of an older clock than the
\* one it overwrites.
Arm(c) ==
    /\ pc[c] = "store"
    /\ wait' = due[c]
    /\ due' = [due EXCEPT ![c] = Past]
    /\ pc' = [pc EXCEPT ![c] = "idle"]
    /\ UNCHANGED <<errorCount, reg, healthy, streak, sinceRound>>

Step(c) == \/ ReadCount(c) \/ ReadTime(c) \/ ScriptReturns(c, healthy)
           \/ ResetCount(c) \/ BumpRead(c) \/ BumpWrite(c)
           \/ Check(c) \/ ReadClock(c) \/ Arm(c)

\* A distance from now, a second later.
Nearer(t) == IF t > Past THEN t - 1 ELSE Past

\* A second passes.
Tick ==
    /\ wait' = Nearer(wait)
    /\ due' = [c \in Caller |-> Nearer(due[c])]
    /\ sinceRound' = IF sinceRound < Beyond THEN sinceRound + 1 ELSE Beyond
    /\ UNCHANGED <<errorCount, pc, reg, healthy, streak>>

\* Redis goes away, or comes back.
Turn ==
    /\ healthy' = ~healthy
    /\ UNCHANGED <<errorCount, wait, pc, reg, due, streak, sinceRound>>

\* NewScriptWithBreaker.  Its nextAttempt is the instant of construction,
\* which is past when a request arrives.
Init == /\ errorCount = 0
        /\ wait = Past
        /\ pc = [c \in Caller |-> "idle"]
        /\ reg = [c \in Caller |-> 0]
        /\ due = [c \in Caller |-> Past]
        /\ healthy = TRUE
        /\ streak = 0
        /\ sinceRound = Beyond

Next == Tick \/ Turn \/ \E c \in Caller : Step(c)

Spec == Init /\ [][Next]_vars

\* Requests keep coming, goroutines are scheduled, calls to Redis return (they
\* have deadlines) and time passes.
FairSpec == Spec /\ WF_vars(Tick) /\ \A c \in Caller : WF_vars(Step(c))

-----------------------------------------------------------------------------
(* Properties. *)

Place == {"idle", "time", "script", "reset", "read", "write", "check", "arm", "store"}

TypeOK ==
    /\ errorCount \in 0 .. Cap
    /\ wait \in Past .. Reattempt
    /\ pc \in [Caller -> Place]
    /\ reg \in [Caller -> 0 .. Cap]
    /\ due \in [Caller -> Past .. Reattempt]
    /\ healthy \in BOOLEAN
    /\ streak \in 0 .. Cap
    /\ sinceRound \in 0 .. Beyond

\* The regression of the comment on ">=", for racing callers: once the count has
\* reached the threshold and every caller that raised it has moved on, the next
\* attempt is a whole reattempt period after the round of failures began.  (Not
\* after its last failure: a caller that computed its nextAttempt early in the
\* round may store it last, over a later one.)
ReArmed ==
    errorCount >= Threshold /\ Deciding = {} => wait + sinceRound >= Reattempt

\* A caller gets past the condition of Run.
Enters(c) == pc[c] # "script" /\ pc'[c] = "script"

\* "BreakerThreshold is how many consecutive time a redis connection is failing
\* before we stop talking to it": after that many failed calls, and once the
\* callers that made them are done, nobody talks to Redis until a reattempt
\* period has passed.
StopsAfterThreshold ==
    [][\A c \in Caller : Enters(c) /\ Deciding = {} /\ streak >= Threshold
                           => sinceRound > Reattempt]_vars

\* TestBreakerResetsOnSuccess: a call is refused only after that many failures
\* in a row.
NeverOpensEarly ==
    [][\A c \in Caller : pc[c] = "time" /\ pc'[c] = "idle" => streak >= Threshold]_vars

\* No goroutine is kept from the store of nextAttempt until it is past.
Prompt == \A c \in Caller : pc[c] = "store" => due[c] >= 0

\* In an outage that lasts, the breaker opens again and again, although racing
\* increments get lost and stale stores overwrite later ones: it is never inert,
\* unless goroutines are held up for a whole period again and again.
Shut == errorCount >= GateLimit /\ wait >= 0
KeepsProtecting == <>[](~healthy /\ Prompt) => []<>Shut

\* Once Redis stays up, the breaker closes for good, although failures of the
\* outage may still be written over the first success.
Recovers == <>[]healthy => <>[](errorCount = 0)
=============================================================================
