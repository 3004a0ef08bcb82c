---------------------------- MODULE TokenBucket ----------------------------
(***************************************************************************)
(* What the limiter promises (README: "this plugin implement the token     *)
(* bucket algorithm"): every key owns a bucket that holds at most Depth    *)
(* tokens, refills continuously and pays for every admitted event.  A      *)
(* token is Unit parts and a bucket gains one part per clock tick, so the  *)
(* refill is continuous at the resolution of the clock.  Nothing here      *)
(* knows of theoretical arrival times, of key expiry or of Redis.          *)
(***************************************************************************)
EXTENDS Integers

CONSTANTS Key,    \* the rate-limit keys
          Cost,   \* the numbers of events a call may ask for
          Unit,   \* parts of a token = ticks needed to refill one token
          Depth   \* tokens in a full bucket

VARIABLES level,  \* level[k]: parts in the bucket of key k
          grant   \* the last answer: which key, how many events, tokens left

vars == <<level, grant>>

Full == Unit * Depth

\* The answer before the first call and after a bucket has been reset.
NoGrant == [key |-> "none", events |-> 0, left |-> 0]

Answer(k, events, left) == [key |-> k, events |-> events, left |-> left]

Least(a, b) == IF a <= b THEN a ELSE b

Init == /\ level = [k \in Key |-> Full]
        /\ grant = NoGrant

\* One tick of refill for every bucket at once.
Refill == /\ level' = [k \in Key |-> Least(Full, level[k] + 1)]
          /\ UNCHANGED grant

\* All or nothing: n events are admitted and paid for in full.
Take(k, n) ==
    /\ level[k] >= Unit * n
    /\ level' = [level EXCEPT ![k] = @ - Unit * n]
    /\ grant' = Answer(k, n, (level[k] - Unit * n) \div Unit)

\* As many of n events as the bucket holds, at least one.  When it holds
\* fewer than n whole tokens the bucket is emptied.
TakeUpTo(k, n) ==
    /\ level[k] >= Unit
    /\ \/ /\ level[k] >= Unit * n
          /\ level' = [level EXCEPT ![k] = @ - Unit * n]
          /\ grant' = Answer(k, n, (level[k] - Unit * n) \div Unit)
       \/ /\ level[k] < Unit * n
          /\ level' = [level EXCEPT ![k] = 0]
          /\ grant' = Answer(k, level[k] \div Unit, 0)

\* A refusal is free of charge, and happens only when the tokens asked for
\* (one, for a call that would take any number) are not there.
Refuse(k, n) ==
    /\ level[k] < Unit * n
    /\ UNCHANGED level
    /\ grant' = Answer(k, 0, 0)

\* The key's past is forgotten: a full bucket.
Forget(k) == /\ level' = [level EXCEPT ![k] = Full]
             /\ grant' = NoGrant

Next == \/ Refill
        \/ \E k \in Key : \/ \E n \in Cost : Take(k, n) \/ TakeUpTo(k, n) \/ Refuse(k, n)
                          \/ Refuse(k, 1)
                          \/ Forget(k)

Spec == Init /\ [][Next]_vars
=============================================================================
