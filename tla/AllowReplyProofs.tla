-------------------------- MODULE AllowReplyProofs --------------------------
(***************************************************************************)
(* Proofs about the replies of AllowScript: what a reply says of the key   *)
(* is exact, when it is given and for as long as nobody else uses the key. *)
(***************************************************************************)
EXTENDS AllowScriptProofs

\* What relates the last reply to the store: a reply tells the arrival time of its
\* key, a refusal the wait for its cost, and an admission the whole events left.
ReplyInv ==
    reply.at >= 0 =>
        /\ reply.key \in Key
        /\ reply.at <= now
        /\ Later(store[reply.key].tat, reply.at) = reply.at + reply.reset_after
        /\ \/ /\ reply.retry_after = reply.reset_after + EmissionInterval * reply.cost - BurstOffset
              /\ reply.retry_after > 0
           \/ /\ reply.retry_after = -1
              /\ EmissionInterval * reply.remaining <= BurstOffset - reply.reset_after
              /\ BurstOffset - reply.reset_after < EmissionInterval * (reply.remaining + 1)

-----------------------------------------------------------------------------
(* The numbers of a call. *)

\* What a call for n events finds: the arrival time in use and its distance from
\* the clock.
LEMMA Found ==
    ASSUME IInv, NEW k \in Key, NEW n \in Nat
    PROVE  /\ now \in Nat /\ store[k].tat \in Nat
           /\ EmissionInterval * n \in Nat
           /\ TatAt(k, now) = Later(store[k].tat, now)
           /\ TatAt(k, now) \in Nat /\ TatAt(k, now) >= now
           /\ Diff(k, n, now) = now - TatAt(k, now) - EmissionInterval * n + BurstOffset
<1>1. now \in Nat /\ store[k].tat \in Nat
  BY DEF IInv, TypeOK, Entry
<1>2. TatAt(k, now) = Later(store[k].tat, now)
  BY <1>1, ExpiryInvisible DEF IInv
<1> QED
  BY <1>1, <1>2, TatType, DiffType DEF IInv

\* Truncation to whole units, as two bounds.
LEMMA Truncated ==
    ASSUME NEW unit \in Nat, unit > 0, NEW x \in Nat
    PROVE  /\ x \div unit \in Nat /\ unit * (x \div unit) \in Nat
           /\ unit * (x \div unit) <= x
           /\ unit * (x \div unit + 1) = unit * (x \div unit) + unit
           /\ x < unit * (x \div unit + 1)
<1> DEFINE q == x \div unit
           r == x % unit
           whole == unit * q
<1>1. q \in Nat
  OBVIOUS
<1>2. x = unit * q + r /\ r \in 0 .. (unit - 1)
  OBVIOUS
<1> HIDE DEF q, r
<1>3. whole \in Nat /\ unit * (q + 1) = whole + unit
  BY <1>1
<1>4. x = whole + r
  BY <1>2
<1> HIDE DEF whole
<1>5. whole <= x /\ x < whole + unit
  BY <1>2, <1>3, <1>4
<1>6. whole = unit * q
  BY DEF whole
<1>7. /\ unit * q \in Nat /\ unit * q <= x
      /\ unit * (q + 1) = unit * q + unit /\ x < unit * (q + 1)
  BY <1>3, <1>5, <1>6
<1> QED
  BY <1>1, <1>7 DEF q

\* SET leaves the new arrival time in the key, or the key owes nothing.
LEMMA Stored ==
    ASSUME IInv, NEW k \in Key, NEW new_tat \in Nat, new_tat >= TatAt(k, now),
           StoreTat(k, new_tat)
    PROVE  Later(store'[k].tat, now) = new_tat
<1>1. /\ now \in Nat /\ store[k].tat \in Nat
      /\ TatAt(k, now) = Later(store[k].tat, now)
  BY Found
<1>2. CASE new_tat - now > 0
  <2>1. store'[k].tat = new_tat
    BY <1>2 DEF StoreTat, IInv, TypeOK
  <2> QED
    BY <1>1, <1>2, <2>1 DEF Later
<1>3. CASE ~(new_tat - now > 0)
  <2>1. store'[k].tat = store[k].tat
    BY <1>3 DEF StoreTat
  <2> QED
    BY <1>1, <1>3, <2>1 DEF Later
<1> QED
  BY <1>2, <1>3

\* A refusal by either script.
LEMMA RefusalReply ==
    ASSUME IInv, NEW k \in Key, NEW n \in Nat, Diff(k, n, now) < 0,
           reply' = Reply(k, n, 0, 0, -Diff(k, n, now), TatAt(k, now) - now),
           UNCHANGED <<now, store>>
    PROVE  ReplyInv'
<1>1. /\ now \in Nat /\ store[k].tat \in Nat /\ EmissionInterval * n \in Nat
      /\ TatAt(k, now) = Later(store[k].tat, now) /\ TatAt(k, now) \in Nat
      /\ Diff(k, n, now) = now - TatAt(k, now) - EmissionInterval * n + BurstOffset
      /\ BurstOffset \in Nat
  BY Found, Positive
<1>2. /\ reply'.key = k /\ reply'.at = now /\ reply'.cost = n
      /\ reply'.retry_after = -Diff(k, n, now) /\ reply'.reset_after = TatAt(k, now) - now
  BY DEF Reply
<1>3. Later(store'[k].tat, reply'.at) = reply'.at + reply'.reset_after
  BY <1>1, <1>2
<1>4. /\ reply'.retry_after = reply'.reset_after + EmissionInterval * n - BurstOffset
      /\ reply'.retry_after > 0
  BY <1>1, <1>2
<1> QED
  BY <1>1, <1>2, <1>3, <1>4 DEF ReplyInv, EmissionInterval, BurstOffset

\* An admission by either script, which leaves the credit.
LEMMA AdmissionReply ==
    ASSUME IInv, NEW k \in Key, NEW n \in Nat, NEW events \in Nat,
           NEW new_tat \in Nat, new_tat >= TatAt(k, now), StoreTat(k, new_tat),
           NEW credit \in Nat, credit = BurstOffset - (new_tat - now),
           NEW left \in Nat, left = credit \div EmissionInterval,
           reply' = Reply(k, n, events, left, -1, new_tat - now),
           UNCHANGED now
    PROVE  ReplyInv'
<1>1. now \in Nat /\ BurstOffset \in Nat
  BY Found, Positive
<1>2. /\ reply'.key = k /\ reply'.at = now /\ reply'.remaining = left
      /\ reply'.retry_after = -1 /\ reply'.reset_after = new_tat - now
  BY DEF Reply
<1>3. Later(store'[k].tat, reply'.at) = reply'.at + reply'.reset_after
  BY <1>1, <1>2, Stored
<1>4. /\ EmissionInterval * left <= BurstOffset - (new_tat - now)
      /\ BurstOffset - (new_tat - now) < EmissionInterval * (left + 1)
  BY Truncated, Positive
<1> QED
  BY <1>1, <1>2, <1>3, <1>4 DEF ReplyInv, EmissionInterval, BurstOffset

-----------------------------------------------------------------------------
(* The invariant. *)

\* A call to AllowN gives a reply that is true of the key.
LEMMA AllowNReply ==
    ASSUME IInv, NEW k \in Key, NEW n \in Nat, AllowN(k, n)
    PROVE  ReplyInv'
<1>1. /\ now \in Nat /\ EmissionInterval * n \in Nat /\ BurstOffset \in Nat
      /\ TatAt(k, now) \in Nat /\ TatAt(k, now) >= now
      /\ Diff(k, n, now) = now - TatAt(k, now) - EmissionInterval * n + BurstOffset
  BY Found, Positive
<1>2. CASE AllowNRefused(k, n)
  BY <1>2, RefusalReply DEF AllowNRefused, RetryAfterN
<1>3. CASE AllowNGranted(k, n)
  <2> DEFINE new_tat == TatAt(k, now) + EmissionInterval * n
             credit == Diff(k, n, now)
             left == RemainingN(k, n)
  <2>1. /\ StoreTat(k, new_tat) /\ UNCHANGED now
        /\ reply' = Reply(k, n, n, left, -1, new_tat - now)
        /\ credit >= 0
    BY <1>3 DEF AllowNGranted, ResetAfter
  <2>2. /\ new_tat \in Nat /\ new_tat >= TatAt(k, now)
        /\ credit \in Nat /\ credit = BurstOffset - (new_tat - now)
    BY <1>1, <2>1
  <2>3. left = credit \div EmissionInterval
    BY DEF RemainingN
  <2> HIDE DEF new_tat, credit, left
  <2>4. left \in Nat
    BY <2>2, <2>3, Truncated, Positive
  <2> QED
    BY <2>1, <2>2, <2>3, <2>4, AdmissionReply
<1> QED
  BY <1>2, <1>3 DEF AllowN

\* A call to AllowAtMost: cut to the credit, it leaves none.
LEMMA AllowAtMostReply ==
    ASSUME IInv, NEW k \in Key, NEW n \in Nat, AllowAtMost(k, n)
    PROVE  ReplyInv'
<1>1. /\ now \in Nat /\ EmissionInterval * n \in Nat /\ BurstOffset \in Nat
      /\ EmissionInterval \in Nat /\ EmissionInterval > 0
      /\ TatAt(k, now) \in Nat /\ TatAt(k, now) >= now
  BY Found, Positive
<1>2. EmissionInterval * 0 = 0 /\ EmissionInterval * 1 = EmissionInterval
  BY <1>1
<1>3. /\ Diff(k, 0, now) = now - TatAt(k, now) + BurstOffset
      /\ Diff(k, 1, now) = Diff(k, 0, now) - EmissionInterval
  BY <1>1, <1>2, Found
<1>4. CASE AtMostRefused(k, n)
  <2>1. Diff(k, 1, now) < 0 /\ -Diff(k, 1, now) = EmissionInterval - Diff(k, 0, now)
    BY <1>1, <1>3, <1>4 DEF AtMostRefused
  <2> QED
    BY <1>4, <2>1, RefusalReply DEF AtMostRefused
<1>5. CASE AtMostGranted(k, n)
  <2> DEFINE new_tat == TatAt(k, now) + Charge(k, n)
             credit == Diff(k, 0, now) - Charge(k, n)
             left == AtMostRemaining(k, n)
             events == AtMostAllowed(k, n)
  <2>1. /\ StoreTat(k, new_tat) /\ UNCHANGED now
        /\ reply' = Reply(k, n, events, left, -1, new_tat - now)
        /\ Diff(k, 0, now) >= EmissionInterval
    BY <1>5 DEF AtMostGranted, ResetAfter
  <2>2. Charge(k, n) \in Nat /\ credit \in Nat
    BY <1>1, <1>3, <2>1 DEF Charge
  <2>3. /\ new_tat \in Nat /\ new_tat >= TatAt(k, now)
        /\ credit = BurstOffset - (new_tat - now)
    BY <1>1, <1>3, <2>2
  <2>4. 0 \div EmissionInterval = 0
    BY <1>1
  <2>5. left = credit \div EmissionInterval
    BY <1>1, <1>3, <2>4 DEF AtMostRemaining, Charge
  <2>6. events \in Nat
    BY <1>1, <1>3, <2>1, Truncated DEF AtMostAllowed
  <2> HIDE DEF new_tat, credit, left, events
  <2>7. left \in Nat
    BY <2>2, <2>5, Truncated, Positive DEF credit
  <2> QED
    BY <2>1, <2>2, <2>3, <2>5, <2>6, <2>7, AdmissionReply
<1> QED
  BY <1>4, <1>5 DEF AllowAtMost

\* Every reply stays true of its key until the next call.
THEOREM RepliesAreTrue == Spec => []ReplyInv
<1>1. Init => ReplyInv
  BY DEF Init, ReplyInv, NoReply
<1>2. IInv /\ ReplyInv /\ [Next]_vars => ReplyInv'
  <2> SUFFICES ASSUME IInv, ReplyInv, [Next]_vars PROVE ReplyInv'
    OBVIOUS
  <2>1. CASE Tick
    <3>1. now \in Nat /\ reply.at \in Int
      BY DEF IInv, TypeOK
    <3>2. now' = now + 1 /\ UNCHANGED <<store, reply>>
      BY <2>1 DEF Tick
    <3> QED
      BY <3>1, <3>2 DEF ReplyInv, EmissionInterval, BurstOffset
  <2>2. ASSUME NEW k \in Key, Reset(k) PROVE ReplyInv'
    BY <2>2 DEF Reset, ReplyInv, NoReply
  <2>3. ASSUME NEW k \in Key, NEW n \in Cost, AllowN(k, n) \/ AllowAtMost(k, n)
        PROVE  ReplyInv'
    BY <2>3, LimitAssumption, AllowNReply, AllowAtMostReply
  <2>4. CASE UNCHANGED vars
    BY <2>4 DEF vars, ReplyInv, EmissionInterval, BurstOffset
  <2> QED
    BY <2>1, <2>2, <2>3, <2>4 DEF Next
<1> QED
  BY <1>1, <1>2, InductiveInvariant, PTL DEF Spec

-----------------------------------------------------------------------------
(* What the replies promise. *)

\* Whether a call would be admitted at a moment from now on, in terms of the reply:
\* the stored arrival time is the one that the reply tells, or it was past by then.
LEMMA Forecast ==
    ASSUME IInv, ReplyInv, reply.at >= 0, NEW m \in Nat, NEW t \in Nat, t >= reply.at
    PROVE  LET tat == store[reply.key].tat
           IN  /\ reply.at \in Nat /\ reply.reset_after \in Nat /\ tat \in Nat
               /\ EmissionInterval * m \in Nat /\ BurstOffset \in Nat
               /\ Later(tat, reply.at) = reply.at + reply.reset_after
               /\ WouldAllow(reply.key, m, t)
                      <=> t - Later(tat, t) - EmissionInterval * m + BurstOffset >= 0
<1> DEFINE tat == store[reply.key].tat
<1>1. reply.key \in Key /\ Later(tat, reply.at) = reply.at + reply.reset_after
  BY DEF ReplyInv
<1>2. reply.at \in Nat /\ reply.reset_after \in Nat /\ tat \in Nat
  BY <1>1 DEF IInv, TypeOK, Entry
<1>3. EmissionInterval * m \in Nat /\ BurstOffset \in Nat
  BY Found, Positive, <1>1
<1>4. TatAt(reply.key, t) = Later(tat, t) /\ Later(tat, t) \in Nat
  BY <1>1, <1>2, ExpiryInvisible DEF IInv, Later
<1>5. WouldAllow(reply.key, m, t)
        <=> t - Later(tat, t) - EmissionInterval * m + BurstOffset >= 0
  BY <1>3, <1>4 DEF WouldAllow, Diff
<1> QED
  BY <1>1, <1>2, <1>3, <1>5

\* A refusal of a cost within the burst: admitted from the advertised wait on, and
\* not before, whether the key expires meanwhile or not.
LEMMA WaitIsExact ==
    ASSUME IInv, ReplyInv, Refused, reply.cost <= Burst, NEW t \in Nat, t >= reply.at
    PROVE  /\ reply.at \in Nat /\ reply.retry_after \in Nat
           /\ WouldAllow(reply.key, reply.cost, t) <=> t >= reply.at + reply.retry_after
<1> DEFINE tat == store[reply.key].tat
           price == EmissionInterval * reply.cost
<1>1. reply.at >= 0 /\ reply.cost \in Nat
  BY DEF Refused, IInv, TypeOK
<1>2. /\ reply.at \in Nat /\ reply.reset_after \in Nat /\ tat \in Nat
      /\ price \in Nat /\ BurstOffset \in Nat
      /\ Later(tat, reply.at) = reply.at + reply.reset_after
      /\ WouldAllow(reply.key, reply.cost, t)
             <=> t - Later(tat, t) - price + BurstOffset >= 0
  BY <1>1, Forecast
<1>3. /\ reply.retry_after = reply.reset_after + price - BurstOffset
      /\ reply.retry_after > 0
  BY <1>1 DEF ReplyInv, Refused
<1>4. price <= BurstOffset
  <2>1. \A a, b, c \in Nat : b <= c => a * b <= a * c
    OBVIOUS
  <2> QED
    BY <1>1, <2>1, Positive, LimitAssumption DEF BurstOffset
<1> HIDE DEF tat, price
<1>5. reply.reset_after > 0 /\ tat = reply.at + reply.reset_after
  BY <1>2, <1>3, <1>4 DEF Later
<1>6. reply.retry_after \in Nat
  BY <1>2, <1>3
<1>7. t - Later(tat, t) - price + BurstOffset >= 0 <=> t >= reply.at + reply.retry_after
  BY <1>2, <1>3, <1>4, <1>5 DEF Later
<1> QED
  BY <1>2, <1>6, <1>7

\* The moments the properties look at are at or after the reply.
LEMMA HorizonAhead ==
    ASSUME IInv, ReplyInv, reply.at >= 0, NEW t \in Horizon
    PROVE  t \in Nat /\ t >= reply.at
<1>1. now \in Nat /\ reply.at \in Int /\ reply.at <= now
  BY DEF IInv, TypeOK, ReplyInv
<1>2. MaxTime + BurstOffset + 2 * Second \in Nat
  BY Positive, LimitAssumption
<1> QED
  BY <1>1, <1>2 DEF Horizon

\* Result.RetryAfter is the time until the call would be permitted, to the tick.
THEOREM RetryAfterExactHolds == Spec => []RetryAfterExact
<1>1. IInv /\ ReplyInv => RetryAfterExact
  BY HorizonAhead, WaitIsExact DEF RetryAfterExact, Refused
<1> QED
  BY <1>1, InductiveInvariant, RepliesAreTrue, PTL

\* The retry-after of a 429, in whole seconds, is enough and never a second too much.
THEOREM RetryAfterHeaderEnoughHolds == Spec => []RetryAfterHeaderEnough
<1>1. ASSUME IInv, ReplyInv PROVE RetryAfterHeaderEnough
  <2> DEFINE q == reply.retry_after \div Second
             whole == Second * q
             back == reply.at + Second * RetryAfterHeader(reply.retry_after)
  <2> SUFFICES ASSUME Refused, reply.cost <= Burst
               PROVE  /\ back >= now => WouldAllow(reply.key, reply.cost, back)
                      /\ back - Second <= reply.at + reply.retry_after
    BY DEF RetryAfterHeaderEnough
  <2>1. now \in Nat /\ reply.at <= now /\ Second \in Nat /\ Second > 0
    BY <1>1, Positive DEF IInv, TypeOK, ReplyInv, Refused
  <2>2. reply.at \in Nat /\ reply.retry_after \in Nat
    BY <1>1, <2>1, WaitIsExact
  <2>3. /\ whole \in Nat /\ whole <= reply.retry_after
        /\ Second * (q + 1) = whole + Second /\ reply.retry_after < whole + Second
    BY <2>1, <2>2, Truncated
  <2>4. back = reply.at + Second * (q + 1)
    BY DEF RetryAfterHeader
  <2> HIDE DEF whole, back, q
  <2>5. /\ back \in Nat /\ back >= reply.at + reply.retry_after /\ back >= reply.at
        /\ back - Second <= reply.at + reply.retry_after
    BY <2>1, <2>2, <2>3, <2>4
  <2> QED
    BY <1>1, <2>2, <2>5, WaitIsExact
<1> QED
  BY <1>1, InductiveInvariant, RepliesAreTrue, PTL

\* Result.Remaining events are permitted at once, and one more is not.
THEOREM RemainingExactHolds == Spec => []RemainingExact
<1>1. ASSUME IInv, ReplyInv PROVE RemainingExact
  <2> SUFFICES ASSUME reply.at = now, ~Refused
               PROVE  /\ WouldAllow(reply.key, reply.remaining, now)
                      /\ ~WouldAllow(reply.key, reply.remaining + 1, now)
    BY DEF RemainingExact
  <2>1. now \in Nat /\ reply.remaining \in Nat
    BY <1>1 DEF IInv, TypeOK
  <2>2. ASSUME NEW m \in Nat
        PROVE  /\ EmissionInterval * m \in Nat
               /\ WouldAllow(reply.key, m, now)
                      <=> EmissionInterval * m <= BurstOffset - reply.reset_after
    BY <1>1, <2>1, <2>2, Forecast
  <2>3. BurstOffset \in Nat /\ reply.reset_after \in Nat
    BY <1>1, Positive DEF IInv, TypeOK
  <2>4. /\ EmissionInterval * reply.remaining <= BurstOffset - reply.reset_after
        /\ BurstOffset - reply.reset_after < EmissionInterval * (reply.remaining + 1)
    BY <1>1, <2>1 DEF ReplyInv, Refused
  <2>5. EmissionInterval * (reply.remaining + 1) \in Nat
    BY <2>1, <2>2
  <2> QED
    BY <2>1, <2>2, <2>3, <2>4, <2>5
<1> QED
  BY <1>1, InductiveInvariant, RepliesAreTrue, PTL

\* Result.ResetAfter is the time until the whole burst is available again.
THEOREM ResetAfterExactHolds == Spec => []ResetAfterExact
<1>1. ASSUME IInv, ReplyInv PROVE ResetAfterExact
  <2> DEFINE tat == store[reply.key].tat
  <2> SUFFICES ASSUME reply.at >= 0, NEW t \in Horizon
               PROVE  WouldAllow(reply.key, Burst, t) <=> t >= reply.at + reply.reset_after
    BY DEF ResetAfterExact
  <2>1. t \in Nat /\ t >= reply.at
    BY <1>1, HorizonAhead
  <2>2. /\ reply.at \in Nat /\ reply.reset_after \in Nat /\ tat \in Nat
        /\ BurstOffset \in Nat
        /\ Later(tat, reply.at) = reply.at + reply.reset_after
        /\ WouldAllow(reply.key, Burst, t) <=> t - Later(tat, t) - BurstOffset + BurstOffset >= 0
    BY <1>1, <2>1, Forecast, LimitAssumption DEF BurstOffset
  <2> HIDE DEF tat
  <2> QED
    BY <2>1, <2>2 DEF Later
<1> QED
  BY <1>1, InductiveInvariant, RepliesAreTrue, PTL
=============================================================================
