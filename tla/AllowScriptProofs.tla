------------------------- MODULE AllowScriptProofs -------------------------
(***************************************************************************)
(* Proofs about AllowScript, for every rate, period, burst, resolution,    *)
(* set of keys and set of costs.                                           *)
(***************************************************************************)
EXTENDS AllowScript, TLAPS

-----------------------------------------------------------------------------
(* Arithmetic. *)

\* The derived quantities of a limit are positive.
LEMMA Positive ==
    /\ Second \in Nat /\ Second > 0
    /\ EmissionInterval \in Nat /\ EmissionInterval > 0
    /\ BurstOffset \in Nat /\ BurstOffset > 0
<1>1. \A a, b \in Nat \ {0} : a * b \in Nat /\ a * b > 0
  OBVIOUS
<1>2. EmissionInterval \in Nat /\ EmissionInterval > 0
  BY <1>1, LimitAssumption DEF EmissionInterval
<1> QED
  BY <1>1, <1>2, LimitAssumption DEF Second, BurstOffset

\* Rounding up to whole seconds never loses time: the EX argument of SET.
LEMMA CeilCovers ==
    ASSUME NEW x \in Nat, x > 0
    PROVE  /\ CeilSeconds(x) \in Nat
           /\ Second * CeilSeconds(x) \in Nat
           /\ Second * CeilSeconds(x) >= x
<1> DEFINE y == x + Second - 1
           q == y \div Second
<1>1. y \in Nat /\ Second \in Nat /\ Second > 0
  BY Positive
<1> HIDE DEF y
<1>2. q \in Nat
  BY <1>1
<1>3. y = Second * q + (y % Second) /\ y % Second \in 0 .. (Second - 1)
  BY <1>1
<1>4. Second * q \in Nat
  BY <1>1, <1>2
<1>5. Second * q >= x
  BY <1>1, <1>3, <1>4 DEF y
<1> QED
  BY <1>2, <1>4, <1>5 DEF CeilSeconds, y
-----------------------------------------------------------------------------
(* Types. *)

\* The arrival time a script works with is an instant not before now.
LEMMA TatType ==
    ASSUME TypeOK, NEW k \in Key, NEW t \in Nat
    PROVE  TatAt(k, t) \in Nat /\ TatAt(k, t) >= t
BY DEF TatAt, Later, TypeOK, Entry

LEMMA DiffType ==
    ASSUME TypeOK, NEW k \in Key, NEW n \in Nat
    PROVE  /\ EmissionInterval * n \in Nat
           /\ Diff(k, n, now) \in Int
           /\ Diff(k, n, now) = now - TatAt(k, now) - EmissionInterval * n + BurstOffset
<1>1. now \in Nat
  BY DEF TypeOK
<1>2. EmissionInterval * n \in Nat
  BY Positive
<1> QED
  BY <1>1, <1>2, Positive, TatType DEF Diff

\* What is left after a call is a whole number of events.
LEMMA WholeEvents ==
    ASSUME NEW d \in Int, d >= 0
    PROVE  /\ d \div EmissionInterval \in Nat
           /\ EmissionInterval * (d \div EmissionInterval) <= d
           /\ d < EmissionInterval * ((d \div EmissionInterval) + 1)
<1> DEFINE E == EmissionInterval
           q == d \div E
<1>1. E \in Nat /\ E > 0
  BY Positive
<1> HIDE DEF E
<1>2. q \in Nat
  BY <1>1
<1>3. d = E * q + (d % E) /\ d % E \in 0 .. (E - 1)
  BY <1>1
<1>4. E * q \in Nat /\ E * (q + 1) = E * q + E
  BY <1>1, <1>2
<1>5. E * q <= d /\ d < E * (q + 1)
  BY <1>1, <1>3, <1>4
<1> QED
  BY <1>2, <1>5 DEF E

\* SET stores an entry, whatever the new arrival time.
LEMMA StoreType ==
    ASSUME TypeOK, NEW k \in Key, NEW new_tat \in Nat, StoreTat(k, new_tat)
    PROVE  store' \in [Key -> Entry]
<1>1. now \in Nat /\ store \in [Key -> Entry]
  BY DEF TypeOK
<1>2. CASE new_tat - now > 0
  <2>1. Second * CeilSeconds(new_tat - now) \in Nat
    BY <1>1, <1>2, CeilCovers
  <2>2. [tat |-> new_tat, exp |-> now + Second * CeilSeconds(new_tat - now)] \in Entry
    BY <1>1, <2>1 DEF Entry
  <2> QED
    BY <1>1, <1>2, <2>2 DEF StoreTat
<1>3. CASE ~(new_tat - now > 0)
  BY <1>1, <1>3 DEF StoreTat
<1> QED
  BY <1>2, <1>3

LEMMA RecordType ==
    ASSUME TypeOK, NEW k \in Key, NEW events \in Nat, Record(k, events)
    PROVE  /\ admitted' \in [Key -> Nat]
           /\ grants' \in [Key -> SUBSET [at : Nat, before : Nat, after : Nat]]
<1>1. now \in Nat /\ admitted \in [Key -> Nat] /\ admitted[k] \in Nat
  BY DEF TypeOK
<1>2. [at |-> now, before |-> admitted[k], after |-> admitted[k] + events]
        \in [at : Nat, before : Nat, after : Nat]
  BY <1>1
<1> QED
  BY <1>1, <1>2 DEF Record, TypeOK

\* What AllowAtMost charges and reports when it admits: the report is paid for.
LEMMA AtMostType ==
    ASSUME TypeOK, NEW k \in Key, NEW n \in Nat, Diff(k, 0, now) >= EmissionInterval
    PROVE  /\ Charge(k, n) \in Nat
           /\ AtMostAllowed(k, n) \in Nat
           /\ AtMostRemaining(k, n) \in Nat
           /\ EmissionInterval * AtMostAllowed(k, n) <= Charge(k, n)
           /\ Charge(k, n) <= Diff(k, 0, now)
           /\ Charge(k, n) = 0 => AtMostAllowed(k, n) = 0
<1> DEFINE d == Diff(k, 0, now)
<1>1. d \in Int /\ d >= EmissionInterval /\ EmissionInterval \in Nat /\ EmissionInterval > 0
  BY DiffType, Positive
<1>2. EmissionInterval * n \in Nat
  BY <1>1
<1>3. CASE d < EmissionInterval * n
  <2>1. /\ Charge(k, n) = d
        /\ AtMostAllowed(k, n) = d \div EmissionInterval
        /\ AtMostRemaining(k, n) = 0
    BY <1>3 DEF Charge, AtMostAllowed, AtMostRemaining
  <2>2. d >= 0 /\ d # 0
    BY <1>1
  <2>3. d \div EmissionInterval \in Nat /\ EmissionInterval * (d \div EmissionInterval) <= d
    BY <1>1, <2>2, WholeEvents
  <2> QED
    BY <1>1, <2>1, <2>2, <2>3
<1>4. CASE ~(d < EmissionInterval * n)
  <2>1. /\ Charge(k, n) = EmissionInterval * n
        /\ AtMostAllowed(k, n) = n
        /\ AtMostRemaining(k, n) = (d - EmissionInterval * n) \div EmissionInterval
    BY <1>4 DEF Charge, AtMostAllowed, AtMostRemaining
  <2>2. d - EmissionInterval * n \in Int /\ d - EmissionInterval * n >= 0
    BY <1>1, <1>2, <1>4
  <2>3. EmissionInterval * n = 0 => n = 0
    BY <1>1
  <2> QED
    BY <1>1, <1>2, <1>4, <2>1, <2>2, <2>3, WholeEvents
<1> QED
  BY <1>3, <1>4

\* Every step of a script call keeps the types.
LEMMA CallType ==
    ASSUME TypeOK, NEW k \in Key, NEW n \in Cost, AllowN(k, n) \/ AllowAtMost(k, n)
    PROVE  TypeOK'
<1> DEFINE T == TatAt(k, now)
<1>1. n \in Nat /\ now \in Nat /\ k \in Key \cup {"none"}
  BY LimitAssumption DEF TypeOK
<1>2. T \in Nat /\ T >= now
  BY <1>1, TatType
<1>3. /\ Diff(k, n, now) \in Int
      /\ Diff(k, 0, now) \in Int
      /\ EmissionInterval * n \in Nat
  BY <1>1, DiffType
<1> HIDE DEF T
<1>4. CASE AllowNRefused(k, n)
  <2>1. RetryAfterN(k, n) \in Int /\ T - now \in Nat
    BY <1>1, <1>2, <1>3 DEF RetryAfterN
  <2> QED
    BY <1>1, <1>4, <2>1 DEF AllowNRefused, Reply, TypeOK, T
<1>5. CASE AllowNGranted(k, n)
  <2>1. T + EmissionInterval * n \in Nat
    BY <1>2, <1>3
  <2>2. StoreTat(k, T + EmissionInterval * n) /\ Record(k, n) /\ now' = now
    BY <1>5 DEF AllowNGranted, T
  <2>3. store' \in [Key -> Entry]
    BY <2>1, <2>2, StoreType
  <2>4. RemainingN(k, n) \in Nat
    BY <1>3, <1>5, WholeEvents DEF RemainingN, AllowNGranted
  <2>5. ResetAfter(k, T + EmissionInterval * n) \in Nat
    BY <1>1, <1>2, <1>3, <2>1 DEF ResetAfter
  <2>6. reply' = Reply(k, n, n, RemainingN(k, n), -1, ResetAfter(k, T + EmissionInterval * n))
    BY <1>5 DEF AllowNGranted, T
  <2>7. reply' \in [key : Key \cup {"none"}, cost : Nat, at : Int, allowed : Nat,
                     remaining : Nat, retry_after : Int, reset_after : Nat]
    BY <1>1, <2>4, <2>5, <2>6 DEF Reply
  <2> QED
    BY <1>1, <2>2, <2>3, <2>7, RecordType DEF TypeOK
<1>6. CASE AtMostRefused(k, n)
  <2>1. EmissionInterval - Diff(k, 0, now) \in Int /\ T - now \in Nat
    BY <1>1, <1>2, <1>3, Positive
  <2> QED
    BY <1>1, <1>6, <2>1 DEF AtMostRefused, Reply, TypeOK, T
<1>7. CASE AtMostGranted(k, n)
  <2>1. /\ Charge(k, n) \in Nat
        /\ AtMostAllowed(k, n) \in Nat
        /\ AtMostRemaining(k, n) \in Nat
    BY <1>1, <1>7, AtMostType DEF AtMostGranted
  <2>2. /\ StoreTat(k, T + Charge(k, n))
        /\ Record(k, AtMostAllowed(k, n))
        /\ now' = now
        /\ reply' = Reply(k, n, AtMostAllowed(k, n), AtMostRemaining(k, n), -1,
                          ResetAfter(k, T + Charge(k, n)))
    BY <1>7 DEF AtMostGranted, T
  <2>3. T + Charge(k, n) \in Nat /\ ResetAfter(k, T + Charge(k, n)) \in Nat
    BY <1>1, <1>2, <2>1 DEF ResetAfter
  <2>4. store' \in [Key -> Entry]
    BY <2>2, <2>3, StoreType
  <2>5. reply' \in [key : Key \cup {"none"}, cost : Nat, at : Int, allowed : Nat,
                     remaining : Nat, retry_after : Int, reset_after : Nat]
    BY <1>1, <2>1, <2>2, <2>3 DEF Reply
  <2> QED
    BY <1>1, <2>1, <2>2, <2>4, <2>5, RecordType DEF TypeOK
<1> QED
  BY <1>4, <1>5, <1>6, <1>7 DEF AllowN, AllowAtMost

\* TypeOK, for every limit: in particular the counts a script reports are
\* never negative and the stored arrival times are instants.
THEOREM TypeCorrect == Spec => []TypeOK
<1>1. Init => TypeOK
  BY DEF Init, TypeOK, NoEntry, NoReply, Entry
<1>2. TypeOK /\ [Next]_vars => TypeOK'
  <2> SUFFICES ASSUME TypeOK, [Next]_vars PROVE TypeOK'
    OBVIOUS
  <2>1. CASE Tick
    BY <2>1 DEF Tick, TypeOK
  <2>2. ASSUME NEW k \in Key, Reset(k) PROVE TypeOK'
    BY <2>2 DEF Reset, TypeOK, NoEntry, NoReply, Entry
  <2>3. ASSUME NEW k \in Key, NEW n \in Cost, AllowN(k, n) \/ AllowAtMost(k, n)
        PROVE  TypeOK'
    BY <2>3, CallType
  <2>4. CASE UNCHANGED vars
    BY <2>4 DEF vars, TypeOK
  <2> QED
    BY <2>1, <2>2, <2>3, <2>4 DEF Next
<1> QED
  BY <1>1, <1>2, PTL DEF Spec

-----------------------------------------------------------------------------
(* The rate bound. *)

\* The arrival time in use is never behind the stored one, and at most a burst
\* ahead of the clock: no expiry forgives what was charged.
LEMMA TatBounds ==
    ASSUME TypeOK, StoreInv, NEW k \in Key
    PROVE  /\ TatAt(k, now) \in Nat
           /\ now <= TatAt(k, now)
           /\ store[k].tat <= TatAt(k, now)
           /\ TatAt(k, now) <= now + BurstOffset
<1>1. now \in Nat /\ store[k].tat \in Nat /\ store[k].exp \in Int
  BY DEF TypeOK, Entry
<1>2. store[k].tat <= now + BurstOffset
  BY DEF StoreInv
<1>3. now > store[k].exp => store[k].tat <= now
  <2>1. CASE store[k] = NoEntry
    BY <1>1, <2>1 DEF NoEntry
  <2>2. CASE store[k].exp >= store[k].tat
    BY <1>1, <2>2
  <2> QED
    BY <2>1, <2>2 DEF StoreInv
<1> QED
  BY <1>1, <1>2, <1>3, Positive DEF TatAt, Later

\* A call that charges no more than the credit keeps the store within a burst.
LEMMA StoreKept ==
    ASSUME TypeOK, StoreInv, NEW k \in Key, NEW charge \in Nat,
           charge <= Diff(k, 0, now),
           StoreTat(k, TatAt(k, now) + charge), now' = now
    PROVE  /\ StoreInv'
           /\ \A j \in Key \ {k} : store'[j] = store[j]
           /\ \/ charge = 0 /\ store' = store
              \/ store'[k].tat = TatAt(k, now) + charge
<1> DEFINE new_tat == TatAt(k, now) + charge
           entry == [tat |-> new_tat, exp |-> now + Second * CeilSeconds(new_tat - now)]
<1>1. /\ now \in Nat
      /\ store \in [Key -> Entry]
      /\ new_tat \in Nat
      /\ BurstOffset \in Nat
  BY TatBounds, Positive DEF TypeOK
<1>2. new_tat <= now + BurstOffset
  BY <1>1, TatBounds, DiffType, Positive
<1>3. CASE new_tat - now > 0
  <2>1. Second * CeilSeconds(new_tat - now) \in Nat /\ entry.exp >= entry.tat
    BY <1>1, <1>3, CeilCovers
  <2>2. store' = [store EXCEPT ![k] = entry]
    BY <1>3 DEF StoreTat
  <2>3. store'[k] = entry /\ \A j \in Key \ {k} : store'[j] = store[j]
    BY <1>1, <2>2
  <2>4. StoreInv'
    BY <1>1, <1>2, <2>1, <2>3, now' = now, Positive DEF StoreInv, BurstOffset, EmissionInterval
  <2> QED
    BY <2>3, <2>4
<1>4. CASE ~(new_tat - now > 0)
  <2>1. store' = store
    BY <1>4 DEF StoreTat
  <2>2. charge = 0
    BY <1>1, <1>4, TatBounds
  <2> QED
    BY <2>1, <2>2, now' = now DEF StoreInv, BurstOffset, EmissionInterval
<1> QED
  BY <1>3, <1>4

LEMMA Distribute ==
    ASSUME NEW a \in Int, NEW b \in Int
    PROVE  /\ EmissionInterval * (a + b) = EmissionInterval * a + EmissionInterval * b
           /\ EmissionInterval * a \in Int
BY Positive

\* A call that admits no more events than it charges for keeps the history
\* behind the stored arrival time, and with it the rate bound.
LEMMA HistoryKept ==
    ASSUME TypeOK, TypeOK', StoreInv, HistoryInv, RateBound,
           NEW k \in Key, NEW charge \in Nat, NEW events \in Nat,
           charge <= Diff(k, 0, now),
           EmissionInterval * events <= charge,
           charge = 0 => events = 0,
           StoreTat(k, TatAt(k, now) + charge), Record(k, events), now' = now
    PROVE  StoreInv' /\ HistoryInv' /\ RateBound'
<1> DEFINE E == EmissionInterval
           T == TatAt(k, now)
           new == [at |-> now, before |-> admitted[k], after |-> admitted[k] + events]
<1>1. /\ StoreInv'
      /\ \A j \in Key \ {k} : store'[j] = store[j]
      /\ \/ charge = 0 /\ store' = store
         \/ store'[k].tat = T + charge
  BY StoreKept
<1>2. /\ now \in Nat /\ admitted[k] \in Nat /\ E \in Nat /\ E > 0 /\ BurstOffset \in Nat
      /\ admitted \in [Key -> Nat] /\ store[k].tat \in Nat
      /\ grants \in [Key -> SUBSET [at : Nat, before : Nat, after : Nat]]
  BY Positive DEF TypeOK, Entry
<1>3. /\ T \in Nat /\ now <= T /\ store[k].tat <= T
      /\ T + charge <= now + BurstOffset
  BY <1>2, TatBounds, DiffType
<1>4. E' = E /\ BurstOffset' = BurstOffset
  BY DEF EmissionInterval, BurstOffset
<1>5. CASE events = 0
  <2>1. admitted' = admitted /\ grants' = grants
    BY <1>2, <1>5 DEF Record
  <2>2. store'[k].tat >= store[k].tat
    BY <1>1, <1>2, <1>3
  <2>3. store' \in [Key -> Entry]
    BY DEF TypeOK
  <2>4. HistoryInv'
    <3> SUFFICES ASSUME NEW j \in Key, NEW g \in grants[j]
                 PROVE  /\ g.at <= now
                        /\ g.before < g.after
                        /\ g.after <= admitted[j]
                        /\ E * (admitted[j] - g.before) <= store'[j].tat - g.at
      BY <1>4, <2>1, now' = now DEF HistoryInv
    <3>1. g \in [at : Nat, before : Nat, after : Nat] /\ admitted[j] \in Nat
      BY <1>2
    <3>2. /\ g.at <= now /\ g.before < g.after /\ g.after <= admitted[j]
          /\ E * (admitted[j] - g.before) <= store[j].tat - g.at
      BY DEF HistoryInv
    <3>3. store'[j].tat \in Nat /\ store[j].tat \in Nat /\ store'[j].tat >= store[j].tat
      BY <1>1, <2>2, <2>3 DEF TypeOK, Entry
    <3>4. E * (admitted[j] - g.before) \in Int
      <4>1. admitted[j] - g.before \in Int
        BY <3>1
      <4> QED
        BY <4>1, Distribute
    <3> QED
      BY <3>1, <3>2, <3>3, <3>4
  <2>5. RateBound'
    BY <1>4, <2>1 DEF RateBound
  <2> QED
    BY <1>1, <2>4, <2>5
<1>6. CASE events # 0
  <2>1. /\ admitted' = [admitted EXCEPT ![k] = @ + events]
        /\ grants' = [grants EXCEPT ![k] = @ \cup {new}]
    BY <1>6 DEF Record
  <2>2. store'[k].tat = T + charge
    BY <1>1, <1>6
  \* An earlier grant: what was admitted since it, this call's events included.
  <2>3. ASSUME NEW g \in grants[k]
        PROVE  /\ g.at \in Nat /\ g.before \in Nat /\ g.after \in Nat
               /\ g.at <= now /\ g.before < g.after /\ g.after <= admitted[k]
               /\ E * (admitted[k] + events - g.before) <= T + charge - g.at
    <3>1. g.at \in Nat /\ g.before \in Nat /\ g.after \in Nat
      BY <1>2
    <3>2. /\ g.at <= now /\ g.before < g.after /\ g.after <= admitted[k]
          /\ E * (admitted[k] - g.before) <= store[k].tat - g.at
      BY DEF HistoryInv
    <3>3. /\ E * ((admitted[k] - g.before) + events) = E * (admitted[k] - g.before) + E * events
          /\ E * (admitted[k] - g.before) \in Int
          /\ E * events \in Int
      BY <1>2, <3>1, Distribute
    <3>4. admitted[k] + events - g.before = (admitted[k] - g.before) + events
      BY <1>2, <3>1
    <3>5. E * events <= charge
      OBVIOUS
    <3>6. E * (admitted[k] - g.before) + E * events <= T + charge - g.at
      <4> DEFINE x == E * (admitted[k] - g.before)
                 y == E * events
      <4>1. x \in Int /\ y \in Int /\ x <= store[k].tat - g.at /\ y <= charge
        BY <3>2, <3>3, <3>5
      <4> HIDE DEF x, y
      <4>2. x + y <= T + charge - g.at
        BY <1>2, <1>3, <3>1, <4>1
      <4> QED
        BY <4>2 DEF x, y
    <3> QED
      BY <3>1, <3>2, <3>3, <3>4, <3>6
  \* The new grant itself.
  <2>4. /\ new.at <= now /\ new.before < new.after /\ new.after = admitted[k] + events
        /\ E * (admitted[k] + events - new.before) <= T + charge - new.at
        /\ E * (new.after - new.before) <= BurstOffset
    <3>1. new.at = now /\ new.before = admitted[k] /\ new.after = admitted[k] + events
      OBVIOUS
    <3> HIDE DEF new
    <3>2. admitted[k] + events - new.before = events /\ new.after - new.before = events
      BY <1>2, <3>1
    <3>3. E * events \in Int /\ E * events <= charge
      BY <1>2, Distribute
    <3>4. E * events <= T + charge - now /\ E * events <= BurstOffset
      <4> DEFINE y == E * events
      <4>1. y \in Int /\ y <= charge
        BY <3>3
      <4> HIDE DEF y
      <4>2. y <= T + charge - now /\ y <= BurstOffset
        BY <1>2, <1>3, <4>1
      <4> QED
        BY <4>2 DEF y
    <3>5. new.at <= now /\ new.before < new.after
      BY <1>2, <1>6, <3>1
    <3> QED
      BY <3>1, <3>2, <3>4, <3>5
  <2>5. HistoryInv'
    <3> SUFFICES ASSUME NEW j \in Key, NEW g \in grants'[j]
                 PROVE  /\ g.at <= now
                        /\ g.before < g.after
                        /\ g.after <= admitted'[j]
                        /\ E * (admitted'[j] - g.before) <= store'[j].tat - g.at
      BY <1>4, now' = now DEF HistoryInv
    <3>1. CASE j # k
      <4>1. /\ g \in grants[j] /\ admitted'[j] = admitted[j] /\ store'[j] = store[j]
        BY <1>1, <1>2, <2>1, <3>1
      <4> QED
        BY <4>1 DEF HistoryInv
    <3>2. CASE j = k
      <4>1. /\ admitted'[j] = admitted[k] + events
            /\ grants'[j] = grants[k] \cup {new}
            /\ store'[j].tat = T + charge
        BY <1>2, <2>1, <2>2, <3>2
      <4>2. /\ g.at \in Nat /\ g.before \in Nat /\ g.after \in Nat
            /\ g.at <= now /\ g.before < g.after /\ g.after <= admitted[k] + events
            /\ E * (admitted[k] + events - g.before) <= T + charge - g.at
        <5>1. CASE g \in grants[k]
          BY <1>2, <2>3, <5>1
        <5>2. CASE g = new
          <6>1. new.at \in Nat /\ new.before \in Nat /\ new.after \in Nat
            BY <1>2
          <6>2. new.after <= admitted[k] + events
            BY <1>2, <2>4
          <6> QED
            BY <2>4, <5>2, <6>1, <6>2
        <5> QED
          BY <4>1, <5>1, <5>2
      <4>3. E * (admitted'[j] - g.before) <= store'[j].tat - g.at
        <5> DEFINE a == admitted'[j] - g.before
                   b == admitted[k] + events - g.before
                   u == E * a
                   v == E * b
                   room == store'[j].tat - g.at
        <5>1. a = b /\ room = T + charge - g.at
          BY <1>2, <1>3, <4>1, <4>2
        <5>2. v <= T + charge - g.at
          BY <4>2
        <5>3. u = v
          <6> HIDE DEF a, b
          <6> QED
            BY <5>1
        <5> HIDE DEF a, b, u, v, room
        <5>4. u <= room
          BY <5>1, <5>2, <5>3
        <5> QED
          BY <5>4 DEF a, u, room
      <4> QED
        BY <1>2, <4>1, <4>2, <4>3
    <3> QED
      BY <3>1, <3>2
  <2>6. RateBound'
    <3> SUFFICES ASSUME NEW j \in Key, NEW g \in grants'[j], NEW h \in grants'[j],
                        g.before <= h.before
                 PROVE  E * (h.after - g.before) <= (h.at - g.at) + BurstOffset
      BY <1>4 DEF RateBound
    <3>1. CASE j # k
      BY <1>2, <2>1, <3>1 DEF RateBound
    <3>2. CASE j = k
      <4>1. grants'[j] = grants[k] \cup {new}
        BY <1>2, <2>1, <3>2
      <4>2. CASE g \in grants[k] /\ h \in grants[k]
        BY <4>2 DEF RateBound
      <4>3. CASE g \in grants[k] /\ h = new
        <5>1. E * (h.after - g.before) = E * (admitted[k] + events - g.before)
          <6> DEFINE a == h.after - g.before
                     b == admitted[k] + events - g.before
          <6>1. a = b
            BY <1>2, <2>3, <4>3
          <6> HIDE DEF a, b
          <6>2. E * a = E * b
            BY <6>1
          <6> QED
            BY <6>2 DEF a, b
        <5>2. /\ E * (admitted[k] + events - g.before) <= T + charge - g.at
              /\ E * (admitted[k] + events - g.before) \in Int
          BY <1>2, <2>3, <4>3, Distribute
        <5>3. h.at = now /\ g.at \in Nat
          BY <2>3, <4>3
        <5> QED
          BY <1>2, <1>3, <5>1, <5>2, <5>3
      <4>4. CASE g = new /\ h \in grants[k]
        \* h ended before this call began, so it cannot come after it.
        <5>1. h.before < h.after /\ h.after <= admitted[k] /\ h.before \in Nat /\ h.after \in Nat
          BY <2>3, <4>4
        <5>2. g.before = admitted[k]
          BY <4>4
        <5> QED
          BY <1>2, <5>1, <5>2
      <4>5. CASE g = new /\ h = new
        BY <1>2, <2>4, <4>5
      <4> QED
        BY <4>1, <4>2, <4>3, <4>4, <4>5
    <3> QED
      BY <3>1, <3>2
  <2> QED
    BY <1>1, <2>5, <2>6
<1> QED
  BY <1>5, <1>6

-----------------------------------------------------------------------------

\* One call of either script preserves what the rate bound rests on.
LEMMA CallKept ==
    ASSUME IInv, TypeOK', NEW k \in Key, NEW n \in Cost,
           AllowN(k, n) \/ AllowAtMost(k, n)
    PROVE  StoreInv' /\ HistoryInv' /\ RateBound'
<1> USE DEF IInv
<1>1. n \in Nat /\ now \in Nat
  BY LimitAssumption DEF TypeOK
<1>2. ASSUME UNCHANGED <<now, store, admitted, grants>>
      PROVE  StoreInv' /\ HistoryInv' /\ RateBound'
  BY <1>2 DEF StoreInv, HistoryInv, RateBound, EmissionInterval, BurstOffset
<1>3. CASE AllowNRefused(k, n) \/ AtMostRefused(k, n)
  BY <1>2, <1>3 DEF AllowNRefused, AtMostRefused
<1>4. CASE AllowNGranted(k, n)
  <2> DEFINE charge == EmissionInterval * n
  <2>1. /\ StoreTat(k, TatAt(k, now) + charge) /\ Record(k, n) /\ now' = now
        /\ Diff(k, n, now) >= 0
    BY <1>4 DEF AllowNGranted
  <2>2. charge \in Nat /\ charge <= Diff(k, 0, now)
    <3>1. TatAt(k, now) \in Nat /\ charge \in Nat /\ BurstOffset \in Nat
      BY <1>1, TatType, DiffType, Positive
    <3>2. /\ Diff(k, n, now) = now - TatAt(k, now) - charge + BurstOffset
          /\ Diff(k, 0, now) = now - TatAt(k, now) - EmissionInterval * 0 + BurstOffset
      BY <1>1, DiffType
    <3>3. EmissionInterval * 0 = 0
      BY Positive
    <3> HIDE DEF charge
    <3> QED
      BY <1>1, <2>1, <3>1, <3>2, <3>3
  <2>3. charge = 0 => n = 0
    BY <1>1, Positive
  <2>4. EmissionInterval * n <= charge
    BY <2>2
  <2> HIDE DEF charge
  <2> QED
    BY <1>1, <2>1, <2>2, <2>3, <2>4, HistoryKept
<1>5. CASE AtMostGranted(k, n)
  <2>1. Diff(k, 0, now) >= EmissionInterval
    BY <1>5 DEF AtMostGranted
  <2>2. /\ Charge(k, n) \in Nat
        /\ AtMostAllowed(k, n) \in Nat
        /\ EmissionInterval * AtMostAllowed(k, n) <= Charge(k, n)
        /\ Charge(k, n) <= Diff(k, 0, now)
        /\ Charge(k, n) = 0 => AtMostAllowed(k, n) = 0
    BY <1>1, <2>1, AtMostType
  <2>3. /\ StoreTat(k, TatAt(k, now) + Charge(k, n))
        /\ Record(k, AtMostAllowed(k, n))
        /\ now' = now
    BY <1>5 DEF AtMostGranted
  <2> QED
    BY <2>2, <2>3, HistoryKept
<1> QED
  BY <1>3, <1>4, <1>5 DEF AllowN, AllowAtMost

\* The inductive invariant holds in every reachable state.
THEOREM InductiveInvariant == Spec => []IInv
<1>1. Init => IInv
  <2> SUFFICES ASSUME Init PROVE IInv
    OBVIOUS
  <2>1. TypeOK
    BY DEF Init, TypeOK, NoEntry, NoReply, Entry
  <2>2. StoreInv
    <3>1. NoEntry.tat = 0 /\ BurstOffset \in Nat
      BY Positive DEF NoEntry
    <3>2. ASSUME NEW k \in Key
          PROVE  store[k] = NoEntry /\ store[k].tat <= now + BurstOffset
      <4>1. now = 0 /\ store[k] = NoEntry
        BY DEF Init
      <4>2. store[k].tat = 0
        BY <3>1, <4>1
      <4> QED
        BY <3>1, <4>1, <4>2
    <3> QED
      BY <3>2 DEF StoreInv
  <2>3. HistoryInv /\ RateBound
    BY DEF Init, HistoryInv, RateBound
  <2> QED
    BY <2>1, <2>2, <2>3 DEF IInv
<1>2. IInv /\ [Next]_vars => IInv'
  <2> SUFFICES ASSUME IInv, [Next]_vars PROVE IInv'
    OBVIOUS
  <2> USE DEF IInv
  <2>1. CASE Tick
    <3>1. TypeOK' /\ now' = now + 1 /\ UNCHANGED <<store, admitted, grants>>
      BY <2>1 DEF Tick, TypeOK
    <3>2. EmissionInterval' = EmissionInterval /\ BurstOffset' = BurstOffset
      BY DEF EmissionInterval, BurstOffset
    <3>3. now \in Nat /\ BurstOffset \in Nat /\ \A k \in Key : store[k].tat \in Nat
      BY Positive DEF TypeOK, Entry
    <3>4. StoreInv'
      BY <3>1, <3>2, <3>3 DEF StoreInv
    <3>5. \A k \in Key : \A g \in grants[k] : g.at <= now => g.at <= now + 1
      BY <3>3 DEF TypeOK
    <3>6. HistoryInv'
      BY <3>1, <3>2, <3>5 DEF HistoryInv
    <3>7. RateBound'
      BY <3>1, <3>2 DEF RateBound
    <3> QED
      BY <3>1, <3>4, <3>6, <3>7
  <2>2. ASSUME NEW k \in Key, Reset(k) PROVE IInv'
    <3>1. TypeOK'
      BY <2>2 DEF Reset, TypeOK, NoEntry, NoReply, Entry
    <3>2. /\ now' = now /\ store'[k] = NoEntry /\ grants'[k] = {}
          /\ \A j \in Key \ {k} : /\ store'[j] = store[j] /\ grants'[j] = grants[j]
                                 /\ admitted'[j] = admitted[j]
      BY <2>2 DEF Reset, TypeOK
    <3>3. /\ EmissionInterval' = EmissionInterval /\ BurstOffset' = BurstOffset
          /\ NoEntry' = NoEntry
      BY DEF EmissionInterval, BurstOffset, NoEntry
    <3>4. StoreInv'
      <4>1. NoEntry.tat <= now + BurstOffset
        BY Positive DEF NoEntry, TypeOK
      <4> QED
        BY <3>2, <3>3, <4>1 DEF StoreInv
    <3>5. HistoryInv' /\ RateBound'
      BY <3>2, <3>3 DEF HistoryInv, RateBound
    <3> QED
      BY <3>1, <3>4, <3>5
  <2>3. ASSUME NEW k \in Key, NEW n \in Cost, AllowN(k, n) \/ AllowAtMost(k, n)
        PROVE  IInv'
    BY <2>3, CallType, CallKept
  <2>4. CASE UNCHANGED vars
    <3>1. UNCHANGED <<now, store, reply, admitted, grants>>
      BY <2>4 DEF vars
    <3>2. TypeOK'
      BY <3>1 DEF TypeOK
    <3>3. StoreInv' /\ HistoryInv' /\ RateBound'
      BY <3>1 DEF StoreInv, HistoryInv, RateBound, EmissionInterval, BurstOffset
    <3> QED
      BY <3>2, <3>3
  <2> QED
    BY <2>1, <2>2, <2>3, <2>4 DEF Next
<1> QED
  BY <1>1, <1>2, PTL DEF Spec

\* The limit itself, for every rate, period, burst, clock resolution and mix of
\* calls: between two admissions of a key at most Burst events more than the
\* time between them refills.
THEOREM RateBoundHolds == Spec => []RateBound
<1>1. IInv => RateBound
  BY DEF IInv
<1> QED
  BY <1>1, InductiveInvariant, PTL

-----------------------------------------------------------------------------
(* The token bucket. *)

\* Expiry is invisible: a key is forgotten only when its arrival time is past.
LEMMA ExpiryInvisible ==
    ASSUME TypeOK, StoreInv, NEW k \in Key, NEW t \in Nat
    PROVE  TatAt(k, t) = Later(store[k].tat, t)
<1>1. store[k].tat \in Nat /\ store[k].exp \in Int
  BY DEF TypeOK, Entry
<1>2. store[k] = NoEntry => store[k].tat = 0
  BY DEF NoEntry
<1>3. store[k] = NoEntry \/ store[k].exp >= store[k].tat
  BY DEF StoreInv
<1> QED
  BY <1>1, <1>2, <1>3 DEF TatAt, Later

\* The same in the next state.
LEMMA ExpiryInvisibleNext ==
    ASSUME TypeOK', StoreInv', NEW k \in Key
    PROVE  TatAt(k, now)' = Later(store'[k].tat, now')
<1>1. store'[k].tat \in Nat /\ store'[k].exp \in Int /\ now' \in Nat
  BY DEF TypeOK, Entry
<1>2. store'[k] = NoEntry => store'[k].tat = 0
  BY DEF NoEntry
<1>3. store'[k] = NoEntry \/ store'[k].exp >= store'[k].tat
  BY DEF StoreInv, NoEntry
<1> QED
  BY <1>1, <1>2, <1>3 DEF TatAt, Later

\* The level is what the scripts compare with the price of a call.
LEMMA LevelIsCredit ==
    ASSUME TypeOK, StoreInv, NEW k \in Key, NEW n \in Nat
    PROVE  /\ Level(k) \in Nat
           /\ Level(k) <= BurstOffset
           /\ Diff(k, 0, now) = Level(k)
           /\ Diff(k, n, now) = Level(k) - EmissionInterval * n
<1>1. /\ now \in Nat /\ BurstOffset \in Nat /\ TatAt(k, now) \in Nat
      /\ now <= TatAt(k, now) /\ TatAt(k, now) <= now + BurstOffset
  BY TatBounds, Positive DEF TypeOK
<1>2. EmissionInterval * n \in Nat /\ EmissionInterval * 0 = 0
  BY Positive
<1>3. /\ Diff(k, n, now) = now - TatAt(k, now) - EmissionInterval * n + BurstOffset
      /\ Diff(k, 0, now) = now - TatAt(k, now) - EmissionInterval * 0 + BurstOffset
  BY DiffType
<1>4. Level(k) = BurstOffset - (TatAt(k, now) - now)
  BY DEF Level
<1> QED
  BY <1>1, <1>2, <1>3, <1>4

\* A grant lowers the level of its key by what it charges, and no other.
LEMMA LevelAfterGrant ==
    ASSUME TypeOK, StoreInv, TypeOK', NEW k \in Key, NEW charge \in Nat,
           charge <= Diff(k, 0, now),
           StoreTat(k, TatAt(k, now) + charge), now' = now
    PROVE  /\ Level(k)' = Level(k) - charge
           /\ \A j \in Key \ {k} : Level(j)' = Level(j)
<1>1. /\ StoreInv'
      /\ \A j \in Key \ {k} : store'[j] = store[j]
      /\ \/ charge = 0 /\ store' = store
         \/ store'[k].tat = TatAt(k, now) + charge
  BY StoreKept
<1>2. /\ now \in Nat /\ BurstOffset \in Nat /\ store[k].tat \in Nat
      /\ TatAt(k, now) \in Nat /\ now <= TatAt(k, now)
  BY TatBounds, Positive DEF TypeOK, Entry
<1>3. BurstOffset' = BurstOffset
  BY DEF BurstOffset, EmissionInterval
<1>4. \A j \in Key : /\ TatAt(j, now) = Later(store[j].tat, now)
                     /\ TatAt(j, now)' = Later(store'[j].tat, now)
  BY <1>1, <1>2, ExpiryInvisible, ExpiryInvisibleNext, now' = now
<1>5. \A j \in Key : /\ Level(j) = BurstOffset - (TatAt(j, now) - now)
                     /\ Level(j)' = BurstOffset - (TatAt(j, now)' - now)
  BY <1>3, now' = now DEF Level
<1>6. TatAt(k, now)' = TatAt(k, now) + charge
  <2>1. CASE charge = 0 /\ store' = store
    BY <1>2, <1>4, <2>1
  <2>2. CASE store'[k].tat = TatAt(k, now) + charge
    BY <1>2, <1>4, <2>2 DEF Later
  <2> QED
    BY <1>1, <2>1, <2>2
<1> QED
  BY <1>1, <1>2, <1>4, <1>5, <1>6

\* The refinement mapping, by name.
levels == [k \in Key |-> Level(k)]
answer == [key |-> reply.key, events |-> reply.allowed, left |-> reply.remaining]

\* A refused call changes no level.
LEMMA RefusalKeepsLevels ==
    ASSUME UNCHANGED <<now, store>>
    PROVE  levels' = levels
BY DEF levels, Level, TatAt, BurstOffset, EmissionInterval

\* A grant is a payment from one bucket.
LEMMA GrantPays ==
    ASSUME TypeOK, StoreInv, TypeOK', NEW k \in Key, NEW charge \in Nat,
           charge <= Diff(k, 0, now),
           StoreTat(k, TatAt(k, now) + charge), now' = now
    PROVE  levels' = [levels EXCEPT ![k] = @ - charge]
BY LevelAfterGrant DEF levels

\* AllowN is the bucket's Take and Refuse.
LEMMA AllowNIsTake ==
    ASSUME TypeOK, StoreInv, TypeOK', NEW k \in Key, NEW n \in Cost, AllowN(k, n)
    PROVE  Bucket!Take(k, n) \/ Bucket!Refuse(k, n)
<1>1. n \in Nat /\ EmissionInterval * n \in Nat
  BY LimitAssumption, DiffType
<1>2. /\ Level(k) \in Nat
      /\ Diff(k, 0, now) = Level(k)
      /\ Diff(k, n, now) = Level(k) - EmissionInterval * n
  BY <1>1, LevelIsCredit
<1>3. levels[k] = Level(k)
  BY DEF levels
<1>4. CASE AllowNRefused(k, n)
  <2>1. Level(k) < EmissionInterval * n
    BY <1>1, <1>2, <1>4 DEF AllowNRefused
  <2>2. levels' = levels
    BY <1>4, RefusalKeepsLevels DEF AllowNRefused
  <2>3. answer' = [key |-> k, events |-> 0, left |-> 0]
    BY <1>4 DEF AllowNRefused, Reply, answer
  <2> QED
    BY <1>3, <2>1, <2>2, <2>3 DEF Bucket!Refuse, Bucket!Answer, levels, answer
<1>5. CASE AllowNGranted(k, n)
  <2>1. /\ StoreTat(k, TatAt(k, now) + EmissionInterval * n)
        /\ now' = now
        /\ Diff(k, n, now) >= 0
    BY <1>5 DEF AllowNGranted
  <2>2. EmissionInterval * n <= Level(k)
    BY <1>1, <1>2, <2>1
  <2>3. levels' = [levels EXCEPT ![k] = @ - EmissionInterval * n]
    BY <1>1, <1>2, <2>1, <2>2, GrantPays
  <2>4. answer' = [key |-> k, events |-> n,
                   left |-> (Level(k) - EmissionInterval * n) \div EmissionInterval]
    BY <1>2, <1>5 DEF AllowNGranted, Reply, RemainingN, answer
  <2> QED
    BY <1>1, <1>2, <1>3, <2>2, <2>3, <2>4 DEF Bucket!Take, Bucket!Answer, levels, answer
<1> QED
  BY <1>4, <1>5 DEF AllowN

\* AllowAtMost is the bucket's TakeUpTo, and refuses for want of one token.
LEMMA AllowAtMostIsTakeUpTo ==
    ASSUME TypeOK, StoreInv, TypeOK', NEW k \in Key, NEW n \in Cost, AllowAtMost(k, n)
    PROVE  Bucket!TakeUpTo(k, n) \/ Bucket!Refuse(k, 1)
<1>1. /\ n \in Nat /\ EmissionInterval * n \in Nat
      /\ EmissionInterval \in Nat /\ EmissionInterval * 1 = EmissionInterval
  BY LimitAssumption, DiffType, Positive
<1>2. Level(k) \in Nat /\ Diff(k, 0, now) = Level(k)
  BY <1>1, LevelIsCredit
<1>3. levels[k] = Level(k)
  BY DEF levels
<1>4. CASE AtMostRefused(k, n)
  <2>1. Level(k) < EmissionInterval * 1
    BY <1>1, <1>2, <1>4 DEF AtMostRefused
  <2>2. levels' = levels
    BY <1>4, RefusalKeepsLevels DEF AtMostRefused
  <2>3. answer' = [key |-> k, events |-> 0, left |-> 0]
    BY <1>4 DEF AtMostRefused, Reply, answer
  <2> QED
    BY <1>3, <2>1, <2>2, <2>3 DEF Bucket!Refuse, Bucket!Answer, levels, answer
<1>5. CASE AtMostGranted(k, n)
  <2>1. /\ StoreTat(k, TatAt(k, now) + Charge(k, n))
        /\ now' = now
        /\ Level(k) >= EmissionInterval
    BY <1>2, <1>5 DEF AtMostGranted
  <2>2. Charge(k, n) \in Nat /\ Charge(k, n) <= Level(k)
    BY <1>1, <1>2, <2>1, AtMostType
  <2>3. levels' = [levels EXCEPT ![k] = @ - Charge(k, n)]
    BY <1>2, <2>1, <2>2, GrantPays
  <2>4. answer' = [key |-> k, events |-> AtMostAllowed(k, n), left |-> AtMostRemaining(k, n)]
    BY <1>5 DEF AtMostGranted, Reply, answer
  <2>5. CASE Level(k) < EmissionInterval * n
    <3>1. /\ Charge(k, n) = Level(k)
          /\ AtMostAllowed(k, n) = Level(k) \div EmissionInterval
          /\ AtMostRemaining(k, n) = 0
      BY <1>2, <2>5 DEF Charge, AtMostAllowed, AtMostRemaining
    <3>2. levels' = [levels EXCEPT ![k] = 0]
      <4>1. levels[k] - Charge(k, n) = 0
        BY <1>2, <1>3, <3>1
      <4> QED
        BY <2>3, <4>1
    <3> QED
      BY <1>3, <2>1, <2>4, <2>5, <3>1, <3>2 DEF Bucket!TakeUpTo, Bucket!Answer, levels, answer
  <2>6. CASE ~(Level(k) < EmissionInterval * n)
    <3>1. /\ Charge(k, n) = EmissionInterval * n
          /\ AtMostAllowed(k, n) = n
          /\ AtMostRemaining(k, n) = (Level(k) - EmissionInterval * n) \div EmissionInterval
      BY <1>2, <2>6 DEF Charge, AtMostAllowed, AtMostRemaining
    <3>2. Level(k) >= EmissionInterval * n
      BY <1>1, <1>2, <2>6
    <3> QED
      BY <1>3, <2>1, <2>3, <2>4, <3>1, <3>2 DEF Bucket!TakeUpTo, Bucket!Answer, levels, answer
  <2> QED
    BY <2>5, <2>6
<1> QED
  BY <1>4, <1>5 DEF AllowAtMost

\* One tick refills every bucket that is not full.
LEMMA TickRefills ==
    ASSUME IInv, IInv', Tick
    PROVE  Bucket!Refill
<1> USE DEF IInv
<1>1. now \in Nat /\ now' = now + 1 /\ UNCHANGED <<store, reply>>
  BY DEF Tick, TypeOK
<1>2. BurstOffset' = BurstOffset /\ BurstOffset \in Nat
  BY Positive DEF BurstOffset, EmissionInterval
<1>3. Bucket!Full = BurstOffset
  BY DEF Bucket!Full, BurstOffset
<1>4. ASSUME NEW k \in Key
      PROVE  Level(k)' = Bucket!Least(BurstOffset, Level(k) + 1)
  <2>1. store[k].tat \in Nat /\ store'[k].tat = store[k].tat
    BY <1>1 DEF TypeOK, Entry
  <2>2. /\ TatAt(k, now) = Later(store[k].tat, now)
        /\ TatAt(k, now)' = Later(store[k].tat, now + 1)
    BY <1>1, <2>1, ExpiryInvisible, ExpiryInvisibleNext
  <2>3. /\ Level(k) = BurstOffset - (TatAt(k, now) - now)
        /\ Level(k)' = BurstOffset - (TatAt(k, now)' - (now + 1))
    BY <1>1, <1>2 DEF Level
  <2> QED
    BY <1>1, <1>2, <2>1, <2>2, <2>3 DEF Later, Bucket!Least
<1>5. levels' = [k \in Key |-> Bucket!Least(BurstOffset, levels[k] + 1)]
  BY <1>4 DEF levels
<1> QED
  BY <1>1, <1>3, <1>5 DEF Bucket!Refill, levels

\* Deleting the entry fills the bucket.
LEMMA ResetForgets ==
    ASSUME IInv, IInv', NEW k \in Key, Reset(k)
    PROVE  Bucket!Forget(k)
<1> USE DEF IInv
<1>1. /\ now \in Nat /\ now' = now /\ store'[k] = NoEntry /\ reply' = NoReply
      /\ \A j \in Key \ {k} : store'[j] = store[j]
  BY DEF Reset, TypeOK
<1>2. BurstOffset' = BurstOffset /\ BurstOffset \in Nat
  BY Positive DEF BurstOffset, EmissionInterval
<1>3. Level(k)' = BurstOffset
  <2>1. NoEntry.tat = 0
    BY DEF NoEntry
  <2>2. TatAt(k, now)' = now
    BY <1>1, <2>1, ExpiryInvisibleNext DEF Later
  <2> QED
    BY <1>1, <1>2, <2>2 DEF Level
<1>4. \A j \in Key \ {k} : Level(j)' = Level(j)
  BY <1>1, <1>2 DEF Level, TatAt
<1>5. levels' = [levels EXCEPT ![k] = BurstOffset]
  BY <1>3, <1>4 DEF levels
<1>6. Bucket!Full = BurstOffset
  BY DEF Bucket!Full, BurstOffset
<1>7. answer' = [key |-> "none", events |-> 0, left |-> 0]
  BY <1>1 DEF answer, NoReply
<1> QED
  BY <1>5, <1>6, <1>7 DEF Bucket!Forget, Bucket!NoGrant, levels, answer

\* The two scripts, their expiring keys and their truncated replies implement
\* the token bucket of README.md, for every limit.
THEOREM TokenBucketImplemented == Spec => Bucket!Spec
<1>1. Init => Bucket!Init
  <2> SUFFICES ASSUME Init PROVE Bucket!Init
    OBVIOUS
  <2>1. answer = [key |-> "none", events |-> 0, left |-> 0]
    BY DEF Init, NoReply, answer
  <2>2. ASSUME NEW k \in Key
        PROVE  Level(k) = BurstOffset
    <3>1. NoEntry.exp = -1 /\ BurstOffset \in Nat
      BY Positive DEF NoEntry
    <3>2. now = 0 /\ store[k].exp = -1
      BY <3>1 DEF Init
    <3>3. TatAt(k, now) = 0
      BY <3>2 DEF TatAt
    <3> QED
      BY <3>1, <3>2, <3>3 DEF Level
  <2> QED
    BY <2>1, <2>2 DEF Bucket!Init, Bucket!NoGrant, Bucket!Full, BurstOffset, answer
<1>2. IInv /\ IInv' /\ [Next]_vars => [Bucket!Next]_(Bucket!vars)
  <2> SUFFICES ASSUME IInv, IInv', [Next]_vars
               PROVE  Bucket!Next \/ UNCHANGED Bucket!vars
    OBVIOUS
  <2>1. CASE Tick
    BY <2>1, TickRefills DEF Bucket!Next
  <2>2. ASSUME NEW k \in Key, Reset(k) PROVE Bucket!Next
    BY <2>2, ResetForgets DEF Bucket!Next
  <2>3. ASSUME NEW k \in Key, NEW n \in Cost, AllowN(k, n) PROVE Bucket!Next
    BY <2>3, AllowNIsTake DEF Bucket!Next, IInv
  <2>4. ASSUME NEW k \in Key, NEW n \in Cost, AllowAtMost(k, n) PROVE Bucket!Next
    BY <2>4, AllowAtMostIsTakeUpTo DEF Bucket!Next, IInv
  <2>5. CASE UNCHANGED vars
    <3>1. UNCHANGED <<now, store, reply>>
      BY <2>5 DEF vars
    <3>2. levels' = levels
      BY <3>1, RefusalKeepsLevels
    <3> QED
      BY <3>1, <3>2 DEF Bucket!vars, levels
  <2> QED
    BY <2>1, <2>2, <2>3, <2>4, <2>5 DEF Next
<1> QED
  BY <1>1, <1>2, InductiveInvariant, PTL DEF Spec, Bucket!Spec
=============================================================================
