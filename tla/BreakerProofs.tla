--------------------------- MODULE BreakerProofs ---------------------------
(***************************************************************************)
(* Proofs about Breaker, for every set of racing callers, every threshold  *)
(* and every reattempt period.                                             *)
(***************************************************************************)
EXTENDS Breaker, TLAPS

\* The saturated count is a number, and raising it keeps it one.
LEMMA CountType ==
    /\ Cap \in Nat /\ Cap > Threshold
    /\ \A count \in 0 .. Cap : Inc(count) \in 0 .. Cap
BY BreakerAssumption DEF Cap, Inc, GateLimit

\* A step of the breaker, whatever decides how its script ends: a composition
\* takes these steps too.
CallerMove(c) ==
    \/ ReadCount(c) \/ ReadTime(c) \/ \E ok \in BOOLEAN : ScriptReturns(c, ok)
    \/ ResetCount(c) \/ BumpRead(c) \/ BumpWrite(c) \/ Check(c)
    \/ ReadClock(c) \/ Arm(c)
Move == Tick \/ Turn \/ UNCHANGED vars \/ \E c \in Caller : CallerMove(c)

LEMMA NextMoves == TypeOK /\ [Next]_vars => Move
BY DEF TypeOK, Next, Step, Move, CallerMove

LEMMA TypeInit == Init => TypeOK
BY CountType, BreakerAssumption DEF Init, TypeOK, Place, Past, Beyond

LEMMA TypeKept == TypeOK /\ Move => TypeOK'
<1> SUFFICES ASSUME TypeOK, Move PROVE TypeOK'
  OBVIOUS
<1> USE DEF TypeOK
<1>1. CASE Tick
  BY <1>1, BreakerAssumption DEF Tick, Nearer, Past, Beyond
<1>2. CASE Turn
  BY <1>2 DEF Turn
<1>3. ASSUME NEW c \in Caller, CallerMove(c) PROVE TypeOK'
  <2>1. CASE ReadCount(c)
    BY <2>1 DEF ReadCount, Place
  <2>2. CASE ReadTime(c)
    BY <2>2 DEF ReadTime, Place
  <2>3. ASSUME NEW ok \in BOOLEAN, ScriptReturns(c, ok) PROVE TypeOK'
    BY <2>3 DEF ScriptReturns, Place
  <2>4. CASE ResetCount(c)
    BY <2>4, CountType DEF ResetCount, Place
  <2>5. CASE BumpRead(c)
    BY <2>5 DEF BumpRead, Place
  <2>6. CASE BumpWrite(c)
    BY <2>6, CountType, BreakerAssumption DEF BumpWrite, Place, Beyond
  <2>7. CASE Check(c)
    BY <2>7 DEF Check, Place
  <2>8. CASE ReadClock(c)
    BY <2>8, BreakerAssumption DEF ReadClock, Place, Past
  <2>9. CASE Arm(c)
    BY <2>9, BreakerAssumption DEF Arm, Place, Past
  <2> QED
    BY <1>3, <2>1, <2>2, <2>3, <2>4, <2>5, <2>6, <2>7, <2>8, <2>9 DEF CallerMove
<1>4. CASE UNCHANGED vars
  BY <1>4 DEF vars
<1> QED
  BY <1>1, <1>2, <1>3, <1>4 DEF Move

\* TypeOK: no interleaving of unsynchronised reads and writes takes the count,
\* the wait or a register out of its range.
THEOREM TypeCorrect == Spec => []TypeOK
<1>1. TypeOK /\ [Next]_vars => TypeOK'
  BY NextMoves, TypeKept
<1> QED
  BY <1>1, TypeInit, PTL DEF Spec

\* Whoever has computed its nextAttempt did so in the round that is going on, so
\* it is a whole period after that round began.
DueInv == \A c \in Caller : pc[c] = "store" => due[c] + sinceRound >= Reattempt

RoundInv == DueInv /\ ReArmed

\* The deciding callers after one of them, or another caller, has moved.
LEMMA DecidingMoves ==
    ASSUME TypeOK, NEW c \in Caller, NEW p \in Place, pc' = [pc EXCEPT ![c] = p]
    PROVE  /\ p \in {"check", "arm", "store"} => Deciding' # {}
           /\ pc[c] \notin {"check", "arm", "store"} /\ Deciding' = {} => Deciding = {}
<1>1. pc \in [Caller -> Place] /\ pc'[c] = p /\ \A d \in Caller \ {c} : pc'[d] = pc[d]
  BY DEF TypeOK
<1>2. p \in {"check", "arm", "store"} => Deciding' # {}
  BY <1>1 DEF Deciding
<1>3. ASSUME pc[c] \notin {"check", "arm", "store"}, Deciding' = {}
      PROVE  Deciding = {}
  BY <1>1, <1>3 DEF Deciding
<1> QED
  BY <1>2, <1>3

\* RoundInv is inductive relative to TypeOK.  The last caller to write the count
\* reads it again after its write, so either it computes an attempt time or the
\* count is below the threshold by then; and whatever is stored last was computed
\* in the round, by DueInv.
LEMMA RoundKept == TypeOK /\ TypeOK' /\ RoundInv /\ Move => RoundInv'
<1> SUFFICES ASSUME TypeOK, TypeOK', DueInv, ReArmed, Move
             PROVE  DueInv' /\ ReArmed'
  BY DEF RoundInv
<1>1. /\ wait \in Int /\ sinceRound \in Int /\ errorCount \in Nat
      /\ wait' \in Int /\ sinceRound' \in Int
      /\ Threshold \in Nat /\ Threshold > 0 /\ Reattempt \in Nat
      /\ wait >= -1 /\ sinceRound >= 0 /\ sinceRound <= Reattempt + 1
      /\ wait' >= -1 /\ sinceRound' >= 0
      /\ pc \in [Caller -> Place]
      /\ \A c \in Caller : due[c] \in Int /\ due[c] >= -1
  BY BreakerAssumption, CountType DEF TypeOK, Past, Beyond
\* A step of a caller that is not deciding, and leaves the count and the times
\* alone.
<1>2. ASSUME NEW c \in Caller, NEW p \in Place, p # "store", pc' = [pc EXCEPT ![c] = p],
             UNCHANGED <<due, sinceRound>>
      PROVE  DueInv'
  BY <1>1, <1>2 DEF DueInv
<1>3. ASSUME NEW c \in Caller, NEW p \in Place, pc' = [pc EXCEPT ![c] = p],
             pc[c] \notin {"check", "arm", "store"},
             UNCHANGED <<errorCount, wait, sinceRound>>
      PROVE  ReArmed'
  BY <1>3, DecidingMoves DEF ReArmed
<1>4. CASE Tick
  <2>1. errorCount' = errorCount /\ Deciding' = Deciding /\ pc' = pc
    BY <1>4 DEF Tick, Deciding
  <2>2. ASSUME NEW t \in Int, t >= -1, t + sinceRound >= Reattempt
        PROVE  Nearer(t) + sinceRound' >= Reattempt
    BY <1>1, <1>4, <2>2 DEF Tick, Nearer, Past, Beyond
  <2>3. wait' = Nearer(wait) /\ \A c \in Caller : due'[c] = Nearer(due[c])
    BY <1>4 DEF Tick
  <2> QED
    BY <1>1, <2>1, <2>2, <2>3 DEF DueInv, ReArmed
<1>5. CASE UNCHANGED <<errorCount, wait, sinceRound, pc, due>>
  BY <1>5 DEF DueInv, ReArmed, Deciding
<1>6. CASE Turn
  BY <1>5, <1>6 DEF Turn
<1>7. ASSUME NEW c \in Caller, CallerMove(c)
      PROVE  DueInv' /\ ReArmed'
  <2>1. CASE ReadCount(c)
    BY <1>2, <1>3, <2>1 DEF ReadCount, Place
  <2>2. CASE ReadTime(c)
    BY <1>2, <1>3, <2>2 DEF ReadTime, Place
  <2>3. ASSUME NEW ok \in BOOLEAN, ScriptReturns(c, ok)
        PROVE  DueInv' /\ ReArmed'
    BY <1>2, <1>3, <2>3 DEF ScriptReturns, Place
  <2>4. CASE ResetCount(c)
    <3>1. ReArmed'
      BY <1>1, <2>4 DEF ResetCount, ReArmed
    <3> QED
      BY <1>2, <2>4, <3>1 DEF ResetCount, Place
  <2>5. CASE BumpRead(c)
    BY <1>2, <1>3, <2>5 DEF BumpRead, Place
  \* Who begins a round finds nobody with an attempt time to store.
  <2>6. CASE BumpWrite(c)
    <3>1. ReArmed'
      BY <2>6, DecidingMoves DEF BumpWrite, Place, ReArmed
    <3>2. CASE Deciding = {}
      <4>1. \A d \in Caller : pc[d] # "store"
        BY <3>2 DEF Deciding
      <4>2. \A d \in Caller : pc'[d] # "store"
        BY <1>1, <2>6, <4>1 DEF BumpWrite
      <4> QED
        BY <3>1, <4>2 DEF DueInv
    <3>3. CASE Deciding # {}
      <4>1. sinceRound' = sinceRound /\ due' = due /\ pc' = [pc EXCEPT ![c] = "check"]
        BY <2>6, <3>3 DEF BumpWrite
      <4> QED
        BY <1>2, <3>1, <4>1 DEF Place
    <3> QED
      BY <3>1, <3>2, <3>3
  \* The count is below the threshold, or the caller still has to arm.
  <2>7. CASE Check(c)
    <3>1. CASE Trips(errorCount)
      BY <1>2, <2>7, <3>1, DecidingMoves DEF Check, Place, ReArmed
    <3>2. CASE ~Trips(errorCount)
      <4>1. ReArmed'
        BY <1>1, <2>7, <3>2 DEF Check, Trips, ReArmed
      <4> QED
        BY <1>2, <2>7, <3>2, <4>1 DEF Check, Place
    <3> QED
      BY <3>1, <3>2
  <2>8. CASE ReadClock(c)
    <3>1. ReArmed'
      BY <2>8, DecidingMoves DEF ReadClock, Place, ReArmed
    <3>2. ASSUME NEW d \in Caller, pc'[d] = "store"
          PROVE  \/ due'[d] = Reattempt
                 \/ pc[d] = "store" /\ due'[d] = due[d]
      <4>1. /\ pc' = [pc EXCEPT ![c] = "store"] /\ due' = [due EXCEPT ![c] = Reattempt]
            /\ due \in [Caller -> Past .. Reattempt]
        BY <2>8 DEF ReadClock, TypeOK
      <4>2. CASE d = c
        BY <4>1, <4>2
      <4>3. CASE d # c
        BY <1>1, <3>2, <4>1, <4>3
      <4> QED
        BY <4>2, <4>3
    <3>3. sinceRound' = sinceRound
      BY <2>8 DEF ReadClock
    <3> QED
      BY <1>1, <3>1, <3>2, <3>3 DEF DueInv
  <2>9. CASE Arm(c)
    <3>1. /\ wait' = due[c] /\ sinceRound' = sinceRound
          /\ due[c] + sinceRound >= Reattempt
      BY <2>9 DEF Arm, DueInv
    <3>2. \A d \in Caller : pc'[d] = "store" => due'[d] = due[d] /\ pc[d] = "store"
      BY <1>1, <2>9 DEF Arm, TypeOK
    <3> QED
      BY <3>1, <3>2 DEF DueInv, ReArmed
  <2> QED
    BY <1>7, <2>1, <2>2, <2>3, <2>4, <2>5, <2>6, <2>7, <2>8, <2>9 DEF CallerMove
<1>8. CASE UNCHANGED vars
  BY <1>5, <1>8 DEF vars
<1> QED
  BY <1>4, <1>6, <1>7, <1>8 DEF Move

LEMMA RoundInit == Init => RoundInv
BY BreakerAssumption DEF Init, RoundInv, DueInv, ReArmed

\* However racing callers interleave, and whatever stale value one of them stores
\* over a newer one: once the count has reached the threshold and the callers that
\* raised it are done, the next attempt is a whole period after their round began.
THEOREM ReArmedHolds == Spec => []ReArmed
<1>1. TypeOK /\ TypeOK' /\ RoundInv /\ [Next]_vars => RoundInv'
  BY NextMoves, RoundKept
<1>2. RoundInv => ReArmed
  BY DEF RoundInv
<1> QED
  BY <1>1, <1>2, RoundInit, TypeCorrect, PTL DEF Spec

-----------------------------------------------------------------------------
(* A caller that has the breaker for itself: no increment is lost, so the  *)
(* count is the number of failures in a row.                               *)

SoleInv ==
    /\ errorCount = streak
    /\ \A c \in Caller : /\ pc[c] = "write" => reg[c] = errorCount
                         /\ pc[c] = "time" => errorCount >= GateLimit
                         /\ pc[c] \in {"arm", "store"} => errorCount >= Threshold
    \* An armed breaker is entered again only when its window is over, so a
    \* success never finds it armed.
    /\ Threshold >= GateLimit =>
          /\ wait >= 0 => errorCount >= Threshold
          /\ \A c \in Caller : pc[c] \in {"script", "reset"} => wait < 0

LEMMA SoleInit == Init => SoleInv
BY DEF Init, SoleInv, Past

LEMMA SoleKept ==
    ASSUME NEW only, Caller = {only}
    PROVE  TypeOK /\ SoleInv /\ Move => SoleInv'
<1> SUFFICES ASSUME TypeOK, SoleInv, Move PROVE SoleInv'
  OBVIOUS
<1>1. /\ pc \in [Caller -> Place] /\ reg \in [Caller -> 0 .. Cap]
      /\ errorCount \in Nat /\ errorCount <= Cap /\ wait \in Int /\ Threshold \in Nat /\ Cap \in Nat
      /\ Cap > Threshold /\ Cap > GateLimit /\ GateLimit = 3 /\ Past = -1
  BY BreakerAssumption DEF TypeOK, Cap, GateLimit, Past
<1>2. CASE Tick
  <2>1. wait' >= 0 => wait >= 0
    BY <1>1, <1>2 DEF Tick, Nearer
  <2>2. wait < 0 => wait' < 0
    BY <1>1, <1>2 DEF Tick, Nearer
  <2> QED
    BY <1>2, <2>1, <2>2 DEF Tick, SoleInv
<1>3. CASE Turn
  BY <1>3 DEF Turn, SoleInv
<1>4. ASSUME NEW c \in Caller, CallerMove(c) PROVE SoleInv'
  <2> USE DEF SoleInv
  <2>1. CASE ReadCount(c)
    BY <1>1, <2>1 DEF ReadCount
  <2>2. CASE ReadTime(c)
    BY <1>1, <2>2 DEF ReadTime
  <2>3. ASSUME NEW ok \in BOOLEAN, ScriptReturns(c, ok) PROVE SoleInv'
    BY <1>1, <2>3 DEF ScriptReturns
  <2>4. CASE ResetCount(c)
    BY <1>1, <2>4 DEF ResetCount
  <2>5. CASE BumpRead(c)
    BY <1>1, <2>5 DEF BumpRead
  <2>6. CASE BumpWrite(c)
    <3>1. Inc(errorCount) \in Nat /\ Inc(errorCount) >= errorCount
      BY <1>1 DEF Inc
    <3> QED
      BY <1>1, <2>6, <3>1 DEF BumpWrite
  <2>7. CASE Check(c)
    BY <1>1, <2>7 DEF Check, Trips
  <2>8. CASE ReadClock(c)
    BY <1>1, <2>8 DEF ReadClock
  <2>9. CASE Arm(c)
    BY <1>1, <2>9 DEF Arm
  <2> QED
    BY <1>4, <2>1, <2>2, <2>3, <2>4, <2>5, <2>6, <2>7, <2>8, <2>9 DEF CallerMove
<1>5. CASE UNCHANGED vars
  BY <1>5 DEF vars, SoleInv
<1> QED
  BY <1>2, <1>3, <1>4, <1>5 DEF Move

\* What a step of the sole caller keeps of the two promises.
LEMMA SolePromises ==
    ASSUME NEW only, Caller = {only}, TypeOK, SoleInv, ReArmed, Move, NEW c \in Caller
    PROVE  /\ pc[c] = "time" /\ pc'[c] = "idle" => streak >= Threshold
           /\ Threshold >= GateLimit /\ Enters(c) /\ Deciding = {} /\ streak >= Threshold
                  => sinceRound > Reattempt
<1>1. /\ pc \in [Caller -> Place]
      /\ errorCount \in Nat /\ wait \in Int /\ sinceRound \in Int
      /\ Threshold \in Nat /\ Reattempt \in Nat
      /\ GateLimit = 3 /\ wait >= -1
  BY BreakerAssumption DEF TypeOK, Cap, GateLimit, Past, Beyond, Inc
<1>2. ASSUME pc[c] = "time", pc'[c] = "idle"
      PROVE  streak >= Threshold
  <2>1. ReadTime(c)
    BY <1>2 DEF Move, CallerMove, Tick, Turn, vars, ReadCount, ScriptReturns, ResetCount,
                BumpRead, BumpWrite, Check, ReadClock, Arm
  <2>2. wait >= 0 /\ errorCount >= GateLimit
    BY <1>1, <1>2, <2>1 DEF ReadTime, SoleInv
  <2> QED
    BY <1>1, <2>2 DEF SoleInv
<1>3. ASSUME Threshold >= GateLimit, Enters(c), Deciding = {}, streak >= Threshold
      PROVE  sinceRound > Reattempt
  <2>1. ReadCount(c) \/ ReadTime(c)
    <3>1. pc[c] # "script" /\ pc'[c] = "script"
      BY <1>3 DEF Enters
    <3>2. \A d \in Caller : d = c
      OBVIOUS
    <3> QED
      BY <1>1, <3>1, <3>2
         DEF Move, CallerMove, Tick, Turn, vars, ScriptReturns, ResetCount, BumpRead,
             BumpWrite, Check, ReadClock, Arm
  <2>2. ~ReadCount(c)
    BY <1>1, <1>3 DEF ReadCount, Enters, SoleInv
  <2>3. wait < 0
    BY <1>1, <1>3, <2>1, <2>2 DEF ReadTime, Enters
  <2>4. wait + sinceRound >= Reattempt
    BY <1>3 DEF ReArmed, SoleInv
  <2> QED
    BY <1>1, <2>3, <2>4
<1> QED
  BY <1>2, <1>3

\* A sole caller is refused only after Threshold failures in a row, whatever the
\* threshold and the period.
THEOREM NeverOpensEarlyHolds ==
    ASSUME NEW only, Caller = {only}
    PROVE  Spec => NeverOpensEarly
<1>1. TypeOK /\ SoleInv /\ [Next]_vars => SoleInv'
  BY NextMoves, SoleKept
<1>2. TypeOK /\ SoleInv /\ ReArmed /\ [Next]_vars
          => [\A c \in Caller : pc[c] = "time" /\ pc'[c] = "idle" => streak >= Threshold]_vars
  BY NextMoves, SolePromises
<1> QED
  BY <1>1, <1>2, SoleInit, TypeCorrect, ReArmedHolds, PTL DEF Spec, NeverOpensEarly

\* A sole caller stops after Threshold failures in a row, and for a whole period,
\* if the threshold is not below the GateLimit that Run compares with.  (Below it
\* the code disagrees with its documentation: run breaker_threshold_two.)
THEOREM StopsAfterThresholdHolds ==
    ASSUME NEW only, Caller = {only}, Threshold >= GateLimit
    PROVE  Spec => StopsAfterThreshold
<1>1. TypeOK /\ SoleInv /\ [Next]_vars => SoleInv'
  BY NextMoves, SoleKept
<1>2. TypeOK /\ SoleInv /\ ReArmed /\ [Next]_vars
          => [\A c \in Caller : Enters(c) /\ Deciding = {} /\ streak >= Threshold
                                    => sinceRound > Reattempt]_vars
  BY NextMoves, SolePromises
<1> QED
  BY <1>1, <1>2, SoleInit, TypeCorrect, ReArmedHolds, PTL DEF Spec, StopsAfterThreshold
=============================================================================
