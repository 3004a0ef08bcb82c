---------------------------- MODULE AllowScript ----------------------------
(***************************************************************************)
(* The limiter's decision: the two Lua scripts of lua.go, which Redis runs *)
(* atomically against its own clock and key space, and the Limiter of      *)
(* rate.go that calls them (AllowN, AllowAtMost, Reset).                   *)
(*                                                                         *)
(* Time.  The scripts compute in seconds, with emission_interval =         *)
(* period / rate.  The model counts in ticks of 1 / (Rate * Res) second,   *)
(* so that every quantity of the scripts is an integer: a second is        *)
(* Rate * Res ticks and the emission interval is Period * Res ticks.  Res  *)
(* sets how much finer than the emission interval the clock is.  The       *)
(* rounding of Lua's doubles is not modelled.                              *)
(***************************************************************************)
EXTENDS Integers

CONSTANTS Key,      \* redisPrefix + source, as one value
          Rate,     \* Limit.Rate: the plugin's average
          Period,   \* Limit.Period in seconds
          Burst,    \* Limit.Burst
          Cost,     \* the values of n that callers pass (the plugin passes 1)
          Res,      \* clock resolution
          MaxTime   \* bound on the clock

ASSUME LimitAssumption ==
    /\ Rate \in Nat \ {0}      \* ServeHTTP never calls the limiter with average = 0
    /\ Period \in Nat \ {0}    \* New raises a period below 1 to 1
    /\ Burst \in Nat \ {0}     \* New refuses a burst below 1
    /\ Res \in Nat \ {0}
    /\ Cost \subseteq Nat
    /\ MaxTime \in Nat

VARIABLES now,       \* the clock of Redis (TIME)
          store,     \* store[k]: the value and the expiry of key k in Redis
          reply,     \* the last reply of a script
          admitted,  \* history: events admitted for k since its last reset
          grants     \* history: when they were admitted

vars == <<now, store, reply, admitted, grants>>

Second == Rate * Res
EmissionInterval == Period * Res
BurstOffset == EmissionInterval * Burst

\* A key that was never SET, or was deleted: its expiry is in the past.
NoEntry == [tat |-> 0, exp |-> -1]
NoReply == [key |-> "none", cost |-> 0, at |-> -1, allowed |-> 0,
            remaining |-> 0, retry_after |-> 0, reset_after |-> 0]

Later(a, b) == IF a >= b THEN a ELSE b

-----------------------------------------------------------------------------
(* The part the two scripts share. *)

\* A script that forgets math.max(tat, now): the time nobody called is saved
\* up as credit.
TatNoMax(k, t) == IF t <= store[k].exp THEN store[k].tat ELSE t

\* local tat = GET or now; tat = math.max(tat, now), at time t.
TatAt(k, t) == IF t <= store[k].exp THEN Later(store[k].tat, t) ELSE t

\* math.floor in place of math.ceil: the key expires before its tat.
FloorSeconds(x) == x \div Second

\* math.ceil of a time, in seconds: the EX argument.
CeilSeconds(x) == (x + Second - 1) \div Second

\* if reset_after > 0 then SET key new_tat EX ceil(reset_after).
StoreTat(k, new_tat) ==
    store' = IF new_tat - now > 0
             THEN [store EXCEPT ![k] =
                     [tat |-> new_tat,
                      exp |-> now + Second * CeilSeconds(new_tat - now)]]
             ELSE store

\* now - allow_at, for n events at time t.  The script compares
\* remaining = diff / emission_interval with 0, which is the sign of diff.
Diff(k, n, t) == t - (TatAt(k, t) + EmissionInterval * n - BurstOffset)

\* The reply of a script, with the call it answers.  Redis truncates the two
\* leading Lua numbers to integers; the times travel as strings.
Reply(k, n, allowed, remaining, retry_after, reset_after) ==
    [key |-> k, cost |-> n, at |-> now, allowed |-> allowed, remaining |-> remaining,
     retry_after |-> retry_after, reset_after |-> reset_after]

\* History of the admissions of key k (a call for 0 events admits none).
Record(k, events) ==
    /\ admitted' = [admitted EXCEPT ![k] = @ + events]
    /\ grants' = IF events = 0 THEN grants
                 ELSE [grants EXCEPT ![k] = @ \cup
                        {[at |-> now, before |-> admitted[k], after |-> admitted[k] + events]}]

-----------------------------------------------------------------------------
(* Limiter.AllowN: allowNLua. *)

\* A script that advertises the wait until the bucket is full.
RetryAfterFull(k, n) == TatAt(k, now) - now

RetryAfterN(k, n) == -Diff(k, n, now)

AllowNRefused(k, n) ==
    /\ Diff(k, n, now) < 0
    /\ reply' = Reply(k, n, 0, 0, RetryAfterN(k, n), TatAt(k, now) - now)
    /\ UNCHANGED <<now, store, admitted, grants>>

\* A script that reports what was left before the call.
RemainingBefore(k, n) == Diff(k, 0, now) \div EmissionInterval

RemainingN(k, n) == Diff(k, n, now) \div EmissionInterval

\* A script that reports how long ago the bucket would have been full.
ResetAfterOld(k, new_tat) == TatAt(k, now) - now

ResetAfter(k, new_tat) == new_tat - now

AllowNGranted(k, n) ==
    LET new_tat == TatAt(k, now) + EmissionInterval * n
    IN  /\ Diff(k, n, now) >= 0
        /\ StoreTat(k, new_tat)
        /\ reply' = Reply(k, n, n, RemainingN(k, n), -1, ResetAfter(k, new_tat))
        /\ Record(k, n)
        /\ UNCHANGED now

AllowN(k, n) == AllowNRefused(k, n) \/ AllowNGranted(k, n)

-----------------------------------------------------------------------------
(* Limiter.AllowAtMost: allowAtMostLua.  Here diff is the credit before    *)
(* the call, and remaining < 1 refuses.                                    *)

AtMostRefused(k, n) ==
    /\ Diff(k, 0, now) < EmissionInterval
    /\ reply' = Reply(k, 1, 0, 0, EmissionInterval - Diff(k, 0, now), TatAt(k, now) - now)
    /\ UNCHANGED <<now, store, admitted, grants>>

\* A script that charges whole events only for part of what it admits.
ChargeOneLess(k, n) == EmissionInterval * (n - 1)

\* emission_interval * cost, where a cost above remaining is cut to
\* remaining: a fraction, so the whole credit is charged.
Charge(k, n) ==
    IF Diff(k, 0, now) < EmissionInterval * n THEN Diff(k, 0, now) ELSE EmissionInterval * n

\* What the reply says of the two numbers, after Redis has truncated them.
AtMostAllowed(k, n) ==
    IF Diff(k, 0, now) < EmissionInterval * n THEN Diff(k, 0, now) \div EmissionInterval ELSE n

AtMostRemaining(k, n) ==
    IF Diff(k, 0, now) < EmissionInterval * n THEN 0
    ELSE (Diff(k, 0, now) - EmissionInterval * n) \div EmissionInterval

AtMostGranted(k, n) ==
    LET new_tat == TatAt(k, now) + Charge(k, n)
    IN  /\ Diff(k, 0, now) >= EmissionInterval
        /\ StoreTat(k, new_tat)
        /\ reply' = Reply(k, n, AtMostAllowed(k, n), AtMostRemaining(k, n), -1,
                          ResetAfter(k, new_tat))
        /\ Record(k, AtMostAllowed(k, n))
        /\ UNCHANGED now

AllowAtMost(k, n) == AtMostRefused(k, n) \/ AtMostGranted(k, n)

-----------------------------------------------------------------------------
\* Limiter.Reset: DEL of the key.  Eviction, and a Redis that restarts
\* without its data, have the same effect on the key.
Reset(k) ==
    /\ store' = [store EXCEPT ![k] = NoEntry]
    /\ reply' = NoReply
    /\ admitted' = [admitted EXCEPT ![k] = 0]
    /\ grants' = [grants EXCEPT ![k] = {}]
    /\ UNCHANGED now

\* The clock of Redis moves on; keys expire by comparison with it.
Tick == /\ now < MaxTime
        /\ now' = now + 1
        /\ UNCHANGED <<store, reply, admitted, grants>>

Init == /\ now = 0
        /\ store = [k \in Key |-> NoEntry]
        /\ reply = NoReply
        /\ admitted = [k \in Key |-> 0]
        /\ grants = [k \in Key |-> {}]

Next == \/ Tick
        \/ \E k \in Key : Reset(k) \/ \E n \in Cost : AllowN(k, n) \/ AllowAtMost(k, n)

Spec == Init /\ [][Next]_vars

-----------------------------------------------------------------------------
(* What ServeHTTP makes of a refusal. *)

\* The header without its "+ 1": a client that obeys it can come too early.
HeaderFloor(retry_after) == retry_after \div Second

\* int64(res.RetryAfter / time.Second) + 1: whole seconds.
RetryAfterHeader(retry_after) == (retry_after \div Second) + 1

-----------------------------------------------------------------------------
(* Properties. *)

Entry == [tat : Nat, exp : Int]

TypeOK ==
    /\ now \in Nat
    /\ store \in [Key -> Entry]
    /\ reply \in [key : Key \cup {"none"}, cost : Nat, at : Int, allowed : Nat,
                  remaining : Nat, retry_after : Int, reset_after : Nat]
    /\ admitted \in [Key -> Nat]
    /\ grants \in [Key -> SUBSET [at : Nat, before : Nat, after : Nat]]

\* The events admitted for a key between any two admissions are at most Burst
\* plus one per emission interval elapsed between them, whatever the mix of
\* AllowN and AllowAtMost, and although keys expire in between: the limit the
\* plugin is deployed for, seen from outside.
RateBound ==
    \A k \in Key : \A g, h \in grants[k] :
        g.before <= h.before =>
            EmissionInterval * (h.after - g.before) <= (h.at - g.at) + BurstOffset

\* What makes RateBound inductive.  A key outlives its tat; the tat is at most
\* a burst ahead of the clock; and it has moved one emission interval past any
\* admission for each event admitted since.
StoreInv ==
    \A k \in Key : /\ store[k] = NoEntry \/ store[k].exp >= store[k].tat
                   /\ store[k].tat <= now + BurstOffset

HistoryInv ==
    \A k \in Key : \A g \in grants[k] :
        /\ g.at <= now
        /\ g.before < g.after
        /\ g.after <= admitted[k]
        /\ EmissionInterval * (admitted[k] - g.before) <= store[k].tat - g.at

IInv == TypeOK /\ StoreInv /\ HistoryInv /\ RateBound

\* Would a call for n events be admitted at time t if nobody called before?
WouldAllow(k, n, t) == Diff(k, n, t) >= 0

\* How far the properties about replies look ahead.
Horizon == now .. (MaxTime + BurstOffset + 2 * Second)

Refused == reply.at >= 0 /\ reply.retry_after # -1

\* Result.RetryAfter "is the time until the next request will be permitted":
\* neither an earlier nor a later moment, also when the key expires while the
\* client waits.  (A cost above Burst is never permitted.)
RetryAfterExact ==
    Refused /\ reply.cost <= Burst =>
        \A t \in Horizon :
            WouldAllow(reply.key, reply.cost, t) <=> t >= reply.at + reply.retry_after

\* The 429 answer's retry-after is enough: a client that waits that many whole
\* seconds is admitted unless others have used the key, and it waits at most
\* a second longer than it had to.
RetryAfterHeaderEnough ==
    Refused /\ reply.cost <= Burst =>
        LET back == reply.at + Second * RetryAfterHeader(reply.retry_after)
        IN  /\ back >= now => WouldAllow(reply.key, reply.cost, back)
            /\ back - Second <= reply.at + reply.retry_after

\* Result.Remaining is "the maximum number of requests that could be permitted
\* instantaneously": that many are permitted at once, and one more is not.
RemainingExact ==
    reply.at = now /\ ~Refused =>
        /\ WouldAllow(reply.key, reply.remaining, now)
        /\ ~WouldAllow(reply.key, reply.remaining + 1, now)

\* Result.ResetAfter is "the time until the RateLimiter returns to its initial
\* state": a full burst is available from then on and not before.
ResetAfterExact ==
    reply.at >= 0 =>
        \A t \in Horizon :
            WouldAllow(reply.key, Burst, t) <=> t >= reply.at + reply.reset_after

\* The scripts implement the token bucket: the stored arrival time stands for
\* a level, and no expiry, refusal or fractional charge shows through.
Level(k) == BurstOffset - (TatAt(k, now) - now)

Bucket == INSTANCE TokenBucket
            WITH Unit <- EmissionInterval, Depth <- Burst,
                 level <- [k \in Key |-> Level(k)],
                 grant <- [key |-> reply.key, events |-> reply.allowed,
                           left |-> reply.remaining]

ImplementsTokenBucket == Bucket!Spec
=============================================================================
