---------------------------- MODULE SystemProofs ----------------------------
(***************************************************************************)
(* Proofs about the composition: what the proofs about the script and the  *)
(* breaker carry over, and what holds of the flow between them.            *)
(***************************************************************************)
EXTENDS System, FiniteSetTheorems, TLAPS

SP == INSTANCE AllowScriptProofs
BP == INSTANCE BreakerProofs WITH healthy <- up

LEMMA Assumptions ==
    /\ SP!LimitAssumption /\ BP!BreakerAssumption
    /\ Cost = {1} /\ IsFiniteSet(Caller) /\ MaxLosses \in Nat /\ Reattempt \in Nat \ {0}
BY SystemAssumption
   DEF S!LimitAssumption, SP!LimitAssumption, B!BreakerAssumption, BP!BreakerAssumption

-----------------------------------------------------------------------------
(* The script in the composition. *)

\* A call of the composition is a call of the script.
LEMMA ScriptCall ==
    ASSUME NEW k \in Key, S!AllowN(k, 1)
    PROVE  SP!AllowN(k, 1)
BY Zenon
   DEF S!AllowN, SP!AllowN, S!AllowNRefused, SP!AllowNRefused, S!AllowNGranted,
       SP!AllowNGranted, S!StoreTat, SP!StoreTat, S!Reply, SP!Reply, S!RetryAfterN,
       SP!RetryAfterN, S!Record, SP!Record, S!ResetAfter, SP!ResetAfter, S!RemainingN,
       SP!RemainingN, S!CeilSeconds, SP!CeilSeconds, S!Second, SP!Second, S!Diff, SP!Diff,
       S!TatAt, SP!TatAt, S!Later, SP!Later, S!EmissionInterval, SP!EmissionInterval,
       S!BurstOffset, SP!BurstOffset

LEMMA ScriptInit == Init => SP!Init
BY DEF Init, S!Init, SP!Init, S!NoEntry, SP!NoEntry, S!NoReply, SP!NoReply

\* Requests are always of some source.
SourceInv == source \in [Caller -> Key]

LEMMA SourceType == Spec => []SourceInv
<1>1. Init => SourceInv
  BY DEF Init, SourceInv
<1>2. SourceInv /\ [Next]_vars => SourceInv'
  <2>1. SUFFICES ASSUME SourceInv, [Next]_vars PROVE SourceInv'
    OBVIOUS
  <2>2. \/ source' = source
        \/ \E c \in Caller, k \in Key : source' = [source EXCEPT ![c] = k]
    BY <2>1 DEF Next, Step, Begin, Gate, Execute, Unserved, Return, Count, Lose, Other, Tick,
                RedisTick, Turn, Wear, Mend, vars
  <2> QED BY <2>1, <2>2 DEF SourceInv
<1> QED BY <1>1, <1>2, PTL DEF Spec

\* A step of the composition calls the script, lets its clock tick, or leaves it
\* alone.
LEMMA ScriptStep == SourceInv /\ [Next]_vars => [SP!Next]_SP!vars
<1>1. SUFFICES ASSUME source \in [Caller -> Key], [Next]_vars PROVE [SP!Next]_SP!vars
  BY DEF SourceInv
<1>2. ASSUME NEW k \in Key, SP!AllowN(k, 1) PROVE SP!Next
  BY <1>2, Assumptions DEF SP!Next
<1>3. ASSUME NEW c \in Caller, Execute(c) PROVE SP!Next
  BY <1>1, <1>2, <1>3, ScriptCall DEF Execute
<1>4. ASSUME NEW k \in Key, Other(k) PROVE SP!Next
  BY <1>2, <1>4, ScriptCall DEF Other
<1>5. CASE RedisTick
  BY <1>5 DEF RedisTick, S!Tick, SP!Tick, SP!Next
<1>6. CASE UNCHANGED script
  BY <1>6 DEF SP!vars, script
<1> QED
  BY <1>1, <1>3, <1>4, <1>5, <1>6
     DEF Next, Step, Begin, Gate, Unserved, Return, Count, Lose, Tick, Turn, Wear, Mend,
         Elsewhere, vars

\* The composition uses the script and its clock only as AllowScript says: every
\* behaviour of the gateways is a behaviour of the script.
THEOREM ScriptRefined == Spec => SP!Spec
BY ScriptInit, ScriptStep, SourceType, PTL DEF Spec, SP!Spec

\* So what is proved of the script holds through outages and races: between any
\* two admissions of a source there is at most a burst, and one event per emission
\* interval that elapsed.
THEOREM RateBoundCarriesOver == Spec => []S!RateBound
<1>1. SP!RateBound => S!RateBound
  BY DEF SP!RateBound, S!RateBound, SP!EmissionInterval, S!EmissionInterval, SP!BurstOffset,
         S!BurstOffset
<1>2. SP!Spec => []SP!RateBound
  BY SP!RateBoundHolds, Assumptions
<1> QED BY <1>1, <1>2, ScriptRefined, PTL

LEMMA ScriptInvariant == Spec => []SP!IInv
<1>1. SP!Spec => []SP!IInv
  BY SP!InductiveInvariant, Assumptions
<1> QED BY <1>1, ScriptRefined, PTL

-----------------------------------------------------------------------------
(* The breaker in the composition. *)

LEMMA BreakerInit == Init => BP!Init
BY DEF Init, B!Init, BP!Init, B!Past, BP!Past, B!Beyond, BP!Beyond

\* The steps that the breaker takes in the composition are its own.
LEMMA BreakerMoves == [Next]_vars => BP!Move
<1>1. SUFFICES ASSUME [Next]_vars PROVE BP!Move
  OBVIOUS
<1>2. ASSUME NEW c \in Caller, NEW k \in Key, Begin(c, k) PROVE BP!CallerMove(c)
  BY <1>2 DEF Begin, B!ReadCount, BP!ReadCount, BP!CallerMove, B!GateLimit, BP!GateLimit
<1>3. ASSUME NEW c \in Caller, Gate(c) PROVE BP!CallerMove(c)
  BY <1>3 DEF Gate, B!ReadTime, BP!ReadTime, BP!CallerMove
<1>4. ASSUME NEW c \in Caller, Return(c) PROVE BP!CallerMove(c)
  <2>1. (result[c] # "error") \in BOOLEAN
    OBVIOUS
  <2> DEFINE ok == result[c] # "error"
  <2>2. B!ScriptReturns(c, ok)
    BY <1>4 DEF Return
  <2>3. BP!ScriptReturns(c, ok)
    BY <2>2 DEF B!ScriptReturns, BP!ScriptReturns
  <2> QED BY <2>1, <2>3 DEF BP!CallerMove
<1>5. ASSUME NEW c \in Caller, Count(c) PROVE BP!CallerMove(c)
  <2>1. B!ResetCount(c) => BP!ResetCount(c)
    BY DEF B!ResetCount, BP!ResetCount
  <2>2. B!BumpRead(c) => BP!BumpRead(c)
    BY DEF B!BumpRead, BP!BumpRead
  <2>3. B!BumpWrite(c) => BP!BumpWrite(c)
    BY DEF B!BumpWrite, BP!BumpWrite, B!Inc, BP!Inc, B!Cap, BP!Cap, B!GateLimit, BP!GateLimit,
           B!Deciding, BP!Deciding
  <2>4. B!Check(c) => BP!Check(c)
    BY DEF B!Check, BP!Check, B!Trips, BP!Trips
  <2>5. B!ReadClock(c) => BP!ReadClock(c)
    BY DEF B!ReadClock, BP!ReadClock
  <2>6. B!Arm(c) => BP!Arm(c)
    BY DEF B!Arm, BP!Arm, B!Past, BP!Past
  <2> QED BY <1>5, <2>1, <2>2, <2>3, <2>4, <2>5, <2>6 DEF Count, BP!CallerMove
<1>6. CASE Tick
  BY <1>6 DEF Tick, B!Tick, BP!Tick, BP!Move, B!Nearer, BP!Nearer, B!Past, BP!Past, B!Beyond, BP!Beyond
<1>7. CASE Turn
  BY <1>7 DEF Turn, B!Turn, BP!Turn, BP!Move
<1>8. CASE UNCHANGED <<breaker, up>>
  BY <1>8 DEF breaker, BP!vars, BP!Move
<1> QED
  BY <1>1, <1>2, <1>3, <1>4, <1>5, <1>6, <1>7, <1>8
     DEF Next, Step, Execute, Unserved, Lose, Other, RedisTick, Wear, Mend, vars, BP!Move

\* The breaker's type and its re-arming survive the composition, where a call may
\* fail although Redis is up.
LEMMA BreakerInvariant == Spec => [](BP!TypeOK /\ BP!RoundInv)
<1>1. Init => BP!TypeOK
  BY BreakerInit, BP!TypeInit, Assumptions
<1>2. BP!TypeOK /\ [Next]_vars => BP!TypeOK'
  BY BreakerMoves, BP!TypeKept, Assumptions
<1>3. Init => BP!RoundInv
  BY BreakerInit, BP!RoundInit, Assumptions
<1>4. BP!TypeOK /\ BP!TypeOK' /\ BP!RoundInv /\ [Next]_vars => BP!RoundInv'
  BY BreakerMoves, BP!RoundKept, Assumptions
<1> QED BY <1>1, <1>2, <1>3, <1>4, PTL DEF Spec

-----------------------------------------------------------------------------
(* The flow between them. *)

\* A caller has the end of its script call from when Redis answered, or failed to,
\* until the breaker has counted it.
FlowInv ==
    /\ SourceInv
    /\ result \in [Caller -> {"none", "allowed", "refused", "error"}]
    /\ answer \in [Caller -> {"none", "forwarded", "429", "503", "free"}]
    /\ losses \in 0 .. MaxLosses
    /\ failureMode \in {"open", "closed"}
    /\ \A c \in Caller :
          /\ pc[c] \in {"idle", "time"} => result[c] = "none"
          /\ pc[c] \in {"reset", "read", "write", "check", "arm", "store"} => result[c] # "none"

LEMMA FlowInit == Init => FlowInv
<1>1. SUFFICES ASSUME Init PROVE FlowInv
  OBVIOUS
<1>2. /\ pc = [c \in Caller |-> "idle"]
      /\ result = [c \in Caller |-> "none"]
      /\ answer = [c \in Caller |-> "none"]
      /\ losses = 0 /\ failureMode \in {"open", "closed"}
      /\ source \in [Caller -> Key]
  BY <1>1 DEF Init, B!Init
<1> QED BY <1>2, Assumptions DEF FlowInv, SourceInv

\* What a caller's step makes of pc.
LEMMA Moves ==
    ASSUME BP!TypeOK, NEW c \in Caller
    PROVE  /\ \A k \in Key : Begin(c, k) => pc[c] = "idle" /\ \E p \in {"script", "time"} :
                                               pc' = [pc EXCEPT ![c] = p]
           /\ Gate(c) => pc[c] = "time" /\ \E p \in {"script", "idle"} :
                                               pc' = [pc EXCEPT ![c] = p]
           /\ Return(c) => pc[c] = "script" /\ \E p \in {"reset", "read"} :
                                               pc' = [pc EXCEPT ![c] = p]
           /\ Count(c) => /\ pc[c] \in {"reset", "read", "write", "check", "arm", "store"}
                          /\ \E p \in {"idle", "write", "check", "arm", "store"} :
                                               pc' = [pc EXCEPT ![c] = p]
BY DEF Begin, Gate, Return, Count, B!ReadCount, B!ReadTime, B!ScriptReturns, B!ResetCount,
       B!BumpRead, B!BumpWrite, B!Check, B!ReadClock, B!Arm

LEMMA FlowStep == FlowInv /\ BP!TypeOK /\ [Next]_vars => FlowInv'
<1>1. SUFFICES ASSUME FlowInv, BP!TypeOK, [Next]_vars PROVE FlowInv'
  OBVIOUS
<1> USE DEF FlowInv, SourceInv
<1>2. pc \in [Caller -> BP!Place]
  BY <1>1 DEF BP!TypeOK
<1>3. ASSUME NEW c \in Caller, NEW k \in Key, Begin(c, k) PROVE FlowInv'
  BY <1>1, <1>2, <1>3, Moves DEF Begin, Elsewhere
<1>4. ASSUME NEW c \in Caller, Gate(c) PROVE FlowInv'
  <2>1. answer' = answer \/ \E a \in {"free", "503"} : answer' = [answer EXCEPT ![c] = a]
    BY <1>4 DEF Gate, EndsAs
  <2> QED BY <1>1, <1>2, <1>4, <2>1, Moves DEF Gate, Elsewhere
<1>5. ASSUME NEW c \in Caller, NEW r \in {"allowed", "refused", "error"},
             pc[c] = "script", result' = [result EXCEPT ![c] = r], losses' \in 0 .. MaxLosses,
             UNCHANGED <<pc, source, answer, failureMode>>
      PROVE  FlowInv'
  BY <1>1, <1>2, <1>5
<1>6. ASSUME NEW c \in Caller, Execute(c) \/ Unserved(c) PROVE FlowInv'
  BY <1>1, <1>5, <1>6 DEF Execute, Unserved, breaker
<1>7. ASSUME NEW c \in Caller, Lose(c) PROVE FlowInv'
  <2>1. losses' \in 0 .. MaxLosses
    BY <1>1, <1>7, Assumptions DEF Lose
  <2> QED BY <1>5, <1>7, <2>1 DEF Lose, breaker
<1>8. ASSUME NEW c \in Caller, Return(c) PROVE FlowInv'
  <2>1. /\ result[c] # "none"
        /\ UNCHANGED <<source, result, answer, losses, failureMode>>
    BY <1>8 DEF Return, Elsewhere
  <2> QED BY <1>1, <1>2, <1>8, <2>1, Moves
<1>9. ASSUME NEW c \in Caller, Count(c) PROVE FlowInv'
  <2>1. UNCHANGED <<source, losses, failureMode>> /\ Answered(c)
    BY <1>9 DEF Count, Elsewhere
  <2>2. CASE pc'[c] = "idle"
    <3>1. result' = [result EXCEPT ![c] = "none"] /\ EndsAs(c, result[c])
      BY <2>1, <2>2 DEF Answered
    <3>2. result[c] \in {"allowed", "refused", "error"}
      BY <1>1, <1>9, Moves
    <3>3. \E a \in {"forwarded", "429", "503", "free"} : answer' = [answer EXCEPT ![c] = a]
      BY <3>1, <3>2 DEF EndsAs
    <3>4. pc' = [pc EXCEPT ![c] = "idle"]
      <4>1. PICK p \in {"idle", "write", "check", "arm", "store"} : pc' = [pc EXCEPT ![c] = p]
        BY <1>1, <1>9, Moves
      <4> QED BY <1>2, <2>2, <4>1
    <3> QED BY <1>1, <1>2, <2>1, <3>1, <3>3, <3>4
  <2>3. CASE pc'[c] # "idle"
    <3>1. UNCHANGED <<result, answer>>
      BY <2>1, <2>3 DEF Answered
    <3> QED BY <1>1, <1>2, <1>9, <2>1, <2>3, <3>1, Moves
  <2> QED BY <2>2, <2>3
<1>10. CASE UNCHANGED <<pc, source, result, answer, losses, failureMode>>
  BY <1>1, <1>10
<1>11. ASSUME Tick \/ RedisTick \/ Turn \/ Wear \/ Mend \/ (\E k \in Key : Other(k)) \/ UNCHANGED vars
       PROVE  FlowInv'
  BY <1>10, <1>11 DEF Tick, RedisTick, Turn, Wear, Mend, Other, B!Tick, B!Turn, vars, breaker
<1> QED
  BY <1>1, <1>3, <1>4, <1>6, <1>7, <1>8, <1>9, <1>11 DEF Next, Step

LEMMA FlowInvariant == Spec => [](FlowInv /\ BP!TypeOK)
BY FlowInit, FlowStep, BreakerInvariant, PTL DEF Spec

-----------------------------------------------------------------------------
(* What is charged, and to whom. *)

LedgerType ==
    /\ passed \in [Key -> Nat] /\ lost \in [Key -> Nat] /\ others \in [Key -> Nat]

LedgerInv == LedgerType /\ Conserved

\* One call of the script admits one event of its key or none, and says which.
LEMMA CallOutcome ==
    ASSUME SP!IInv, NEW k \in Key, S!AllowN(k, 1)
    PROVE  \/ reply'.allowed = 0 /\ admitted' = admitted
           \/ reply'.allowed = 1 /\ admitted' = [admitted EXCEPT ![k] = @ + 1]
<1>1. SP!AllowN(k, 1)
  BY ScriptCall
<1>2. CASE SP!AllowNRefused(k, 1)
  BY <1>2 DEF SP!AllowNRefused, SP!Reply
<1>3. CASE SP!AllowNGranted(k, 1)
  <2>1. /\ reply' = SP!Reply(k, 1, 1, SP!RemainingN(k, 1), -1,
                             SP!ResetAfter(k, SP!TatAt(k, now) + SP!EmissionInterval * 1))
        /\ SP!Record(k, 1)
    BY <1>3 DEF SP!AllowNGranted
  <2> QED BY <2>1 DEF SP!Reply, SP!Record
<1> QED BY <1>1, <1>2, <1>3 DEF SP!AllowN

\* The requests of a source on their way back, when those of one caller change.
LEMMA PendingFinite ==
    ASSUME NEW k
    PROVE  IsFiniteSet(Pending(k)) /\ Cardinality(Pending(k)) \in Nat
<1>1. Pending(k) \in SUBSET Caller
  BY DEF Pending
<1> QED BY <1>1, Assumptions, FS_Subset, FS_CardinalityType

LEMMA PendingGrows ==
    ASSUME FlowInv, NEW c \in Caller, result[c] # "allowed",
           result' = [result EXCEPT ![c] = "allowed"], source' = source
    PROVE  \A k \in Key : Cardinality(Pending(k)')
                = IF k = source[c] THEN Cardinality(Pending(k)) + 1 ELSE Cardinality(Pending(k))
<1>1. SUFFICES ASSUME NEW k \in Key
               PROVE  Cardinality(Pending(k)')
                = IF k = source[c] THEN Cardinality(Pending(k)) + 1 ELSE Cardinality(Pending(k))
  OBVIOUS
<1>2. result \in [Caller -> {"none", "allowed", "refused", "error"}]
  BY DEF FlowInv
<1>3. CASE k = source[c]
  <2>1. Pending(k)' = Pending(k) \cup {c} /\ c \notin Pending(k)
    BY <1>2, <1>3 DEF Pending
  <2> QED BY <1>3, <2>1, PendingFinite, FS_AddElement
<1>4. CASE k # source[c]
  <2>1. Pending(k)' = Pending(k)
    BY <1>2, <1>4 DEF Pending
  <2> QED BY <1>4, <2>1
<1> QED BY <1>3, <1>4

LEMMA PendingShrinks ==
    ASSUME FlowInv, NEW c \in Caller, result[c] = "allowed",
           NEW r \in {"none", "error"}, result' = [result EXCEPT ![c] = r], source' = source
    PROVE  \A k \in Key : Cardinality(Pending(k)')
                = IF k = source[c] THEN Cardinality(Pending(k)) - 1 ELSE Cardinality(Pending(k))
<1>1. SUFFICES ASSUME NEW k \in Key
               PROVE  Cardinality(Pending(k)')
                = IF k = source[c] THEN Cardinality(Pending(k)) - 1 ELSE Cardinality(Pending(k))
  OBVIOUS
<1>2. result \in [Caller -> {"none", "allowed", "refused", "error"}]
  BY DEF FlowInv
<1>3. CASE k = source[c]
  <2>1. Pending(k)' = Pending(k) \ {c} /\ c \in Pending(k)
    BY <1>2, <1>3 DEF Pending
  <2> QED BY <1>3, <2>1, PendingFinite, FS_RemoveElement
<1>4. CASE k # source[c]
  <2>1. Pending(k)' = Pending(k)
    BY <1>2, <1>4 DEF Pending
  <2> QED BY <1>4, <2>1
<1> QED BY <1>3, <1>4

LEMMA PendingSame ==
    ASSUME FlowInv, NEW c \in Caller, result[c] # "allowed",
           \A d \in Caller \ {c} : result'[d] = result[d] /\ source'[d] = source[d],
           result'[c] # "allowed"
    PROVE  \A k \in Key : Pending(k)' = Pending(k)
BY DEF Pending

LEMMA LedgerInit == Init => LedgerInv
<1>1. SUFFICES ASSUME Init PROVE LedgerInv
  OBVIOUS
<1>2. /\ admitted = [k \in Key |-> 0] /\ passed = [k \in Key |-> 0]
      /\ lost = [k \in Key |-> 0] /\ others = [k \in Key |-> 0]
      /\ result = [c \in Caller |-> "none"]
  BY <1>1 DEF Init, S!Init
<1>3. ASSUME NEW k \in Key PROVE Cardinality(Pending(k)) = 0
  <2>1. Pending(k) = {}
    BY <1>2 DEF Pending
  <2> QED BY <2>1, FS_EmptySet
<1> QED BY <1>2, <1>3 DEF LedgerInv, LedgerType, Conserved

LEMMA LedgerStep ==
    FlowInv /\ BP!TypeOK /\ SP!IInv /\ LedgerInv /\ [Next]_vars => LedgerInv'
<1>1. SUFFICES ASSUME FlowInv, BP!TypeOK, SP!IInv, LedgerInv, [Next]_vars PROVE LedgerInv'
  OBVIOUS
<1>a. /\ passed \in [Key -> Nat] /\ lost \in [Key -> Nat] /\ others \in [Key -> Nat]
      /\ admitted \in [Key -> Nat]
  BY <1>1 DEF LedgerInv, LedgerType, SP!IInv, SP!TypeOK
<1>b. \A k \in Key :
        admitted[k] = passed[k] + lost[k] + others[k] + Cardinality(Pending(k))
  BY <1>1 DEF LedgerInv, Conserved
<1>c. \A k \in Key : Cardinality(Pending(k)) \in Nat
  BY PendingFinite
<1>d. /\ result \in [Caller -> {"none", "allowed", "refused", "error"}]
      /\ source \in [Caller -> Key]
      /\ \A c \in Caller : pc[c] \in {"idle", "time"} => result[c] = "none"
  BY <1>1 DEF FlowInv, SourceInv
\* Nothing is charged, and nobody's verdict changes.
<1>2. ASSUME UNCHANGED <<admitted, passed, lost, others>>, \A k \in Key : Pending(k)' = Pending(k)
      PROVE  LedgerInv'
  BY <1>a, <1>b, <1>2 DEF LedgerInv, LedgerType, Conserved
<1>3. ASSUME NEW c \in Caller, NEW k \in Key, Begin(c, k)
      PROVE  LedgerInv'
  <2>1. result[c] = "none" /\ result' = result /\ source' = [source EXCEPT ![c] = k]
    BY <1>1, <1>3, <1>d, Moves DEF Begin
  <2>2. \A j \in Key : Pending(j)' = Pending(j)
    BY <1>1, <1>d, <2>1, PendingSame
  <2> QED BY <1>2, <1>3, <2>2 DEF Begin, Elsewhere, script
<1>4. ASSUME NEW c \in Caller, Gate(c) \/ Return(c)
      PROVE  LedgerInv'
  <2>1. UNCHANGED <<result, source, admitted, passed, lost, others>>
    BY <1>4 DEF Gate, Return, Elsewhere, script
  <2> QED BY <1>2, <2>1 DEF Pending
<1>5. ASSUME NEW c \in Caller, Execute(c)
      PROVE  LedgerInv'
  <2>1. /\ source[c] \in Key /\ result[c] = "none" /\ source' = source
        /\ UNCHANGED <<passed, lost, others>>
        /\ S!AllowN(source[c], 1)
        /\ result' = [result EXCEPT ![c] = IF reply'.allowed > 0 THEN "allowed" ELSE "refused"]
    BY <1>5, <1>d DEF Execute, ledger
  <2>2. CASE reply'.allowed = 0 /\ admitted' = admitted
    <3>1. result' = [result EXCEPT ![c] = "refused"]
      BY <2>1, <2>2
    <3>2. \A k \in Key : Pending(k)' = Pending(k)
      BY <1>1, <1>d, <2>1, <3>1, PendingSame
    <3> QED BY <1>2, <2>1, <2>2, <3>2
  <2>3. CASE reply'.allowed = 1 /\ admitted' = [admitted EXCEPT ![source[c]] = @ + 1]
    <3>1. result' = [result EXCEPT ![c] = "allowed"]
      BY <2>1, <2>3
    <3>2. \A k \in Key : Cardinality(Pending(k)')
            = IF k = source[c] THEN Cardinality(Pending(k)) + 1 ELSE Cardinality(Pending(k))
      BY <1>1, <2>1, <3>1, PendingGrows
    <3>3. \A k \in Key : admitted'[k] = IF k = source[c] THEN admitted[k] + 1 ELSE admitted[k]
      BY <1>a, <2>1, <2>3
    <3> QED BY <1>a, <1>b, <1>c, <2>1, <3>2, <3>3 DEF LedgerInv, LedgerType, Conserved
  <2> QED BY <1>1, <2>1, <2>2, <2>3, CallOutcome
<1>6. ASSUME NEW c \in Caller, Unserved(c)
      PROVE  LedgerInv'
  <2>1. /\ result[c] = "none" /\ source' = source /\ result' = [result EXCEPT ![c] = "error"]
        /\ UNCHANGED <<admitted, passed, lost, others>>
    BY <1>6 DEF Unserved, script, ledger
  <2>2. \A k \in Key : Pending(k)' = Pending(k)
    BY <1>1, <1>d, <2>1, PendingSame
  <2> QED BY <1>2, <2>1, <2>2
<1>7. ASSUME NEW c \in Caller, Lose(c)
      PROVE  LedgerInv'
  <2>1. /\ source' = source /\ result' = [result EXCEPT ![c] = "error"]
        /\ UNCHANGED <<admitted, passed, others>>
        /\ lost' = IF result[c] = "allowed" THEN [lost EXCEPT ![source[c]] = @ + 1] ELSE lost
    BY <1>7 DEF Lose, script
  <2>2. CASE result[c] = "allowed"
    <3>1. \A k \in Key : Cardinality(Pending(k)')
            = IF k = source[c] THEN Cardinality(Pending(k)) - 1 ELSE Cardinality(Pending(k))
      BY <1>1, <2>1, <2>2, PendingShrinks
    <3>2. \A k \in Key : lost'[k] = IF k = source[c] THEN lost[k] + 1 ELSE lost[k]
      BY <1>a, <1>d, <2>1, <2>2
    <3>3. lost' \in [Key -> Nat]
      BY <1>a, <1>d, <2>1, <2>2
    <3>4. ASSUME NEW k \in Key
          PROVE  admitted'[k] = passed'[k] + lost'[k] + others'[k] + Cardinality(Pending(k)')
      <4>1. /\ admitted'[k] = admitted[k] /\ passed'[k] = passed[k] /\ others'[k] = others[k]
            /\ passed[k] \in Nat /\ lost[k] \in Nat /\ others[k] \in Nat
        BY <1>a, <2>1
      <4> QED BY <1>b, <1>c, <3>1, <3>2, <4>1
    <3> QED BY <1>a, <2>1, <3>3, <3>4 DEF LedgerInv, LedgerType, Conserved
  <2>3. CASE result[c] # "allowed"
    <3>1. \A k \in Key : Pending(k)' = Pending(k)
      BY <1>1, <1>d, <2>1, <2>3, PendingSame
    <3> QED BY <1>2, <2>1, <2>3, <3>1
  <2> QED BY <2>2, <2>3
<1>8. ASSUME NEW c \in Caller, Count(c)
      PROVE  LedgerInv'
  <2>1. UNCHANGED <<source, admitted, lost, others>> /\ Answered(c)
    BY <1>8 DEF Count, Elsewhere, script
  <2>2. CASE pc'[c] # "idle"
    BY <1>2, <2>1, <2>2 DEF Answered, Pending
  <2>3. CASE pc'[c] = "idle" /\ result[c] = "allowed"
    <3>1. /\ result' = [result EXCEPT ![c] = "none"]
          /\ passed' = [passed EXCEPT ![source[c]] = @ + 1]
      BY <2>1, <2>3 DEF Answered
    <3>2. \A k \in Key : Cardinality(Pending(k)')
            = IF k = source[c] THEN Cardinality(Pending(k)) - 1 ELSE Cardinality(Pending(k))
      BY <1>1, <2>1, <2>3, <3>1, PendingShrinks
    <3>3. \A k \in Key : passed'[k] = IF k = source[c] THEN passed[k] + 1 ELSE passed[k]
      BY <1>a, <1>d, <3>1
    <3>4. passed' \in [Key -> Nat]
      BY <1>a, <1>d, <3>1
    <3> QED BY <1>a, <1>b, <1>c, <2>1, <3>2, <3>3, <3>4 DEF LedgerInv, LedgerType, Conserved
  <2>4. CASE pc'[c] = "idle" /\ result[c] # "allowed"
    <3>1. result' = [result EXCEPT ![c] = "none"] /\ passed' = passed
      BY <2>1, <2>4 DEF Answered
    <3>2. \A k \in Key : Pending(k)' = Pending(k)
      BY <1>1, <1>d, <2>1, <2>4, <3>1, PendingSame
    <3> QED BY <1>2, <2>1, <3>1, <3>2
  <2> QED BY <2>2, <2>3, <2>4
<1>9. ASSUME NEW k \in Key, Other(k)
      PROVE  LedgerInv'
  <2>1. /\ S!AllowN(k, 1)
        /\ others' = [others EXCEPT ![k] = @ + reply'.allowed]
        /\ UNCHANGED <<source, result, passed, lost>>
    BY <1>9 DEF Other
  <2>2. \A j \in Key : Pending(j)' = Pending(j)
    BY <2>1 DEF Pending
  <2>3. CASE reply'.allowed = 0 /\ admitted' = admitted
    <3>1. others' = others
      BY <1>a, <2>1, <2>3
    <3> QED BY <1>2, <2>1, <2>2, <2>3, <3>1
  <2>4. CASE reply'.allowed = 1 /\ admitted' = [admitted EXCEPT ![k] = @ + 1]
    <3>1. \A j \in Key : /\ admitted'[j] = IF j = k THEN admitted[j] + 1 ELSE admitted[j]
                         /\ others'[j] = IF j = k THEN others[j] + 1 ELSE others[j]
      BY <1>a, <2>1, <2>4
    <3>2. others' \in [Key -> Nat]
      BY <1>a, <2>1, <2>4
    <3> QED BY <1>a, <1>b, <1>c, <2>1, <2>2, <3>1, <3>2 DEF LedgerInv, LedgerType, Conserved
  <2> QED BY <1>1, <2>1, <2>3, <2>4, CallOutcome
<1>10. CASE UNCHANGED <<source, result, admitted, passed, lost, others>>
  BY <1>2, <1>10 DEF Pending
<1>11. CASE Tick \/ RedisTick \/ Turn \/ Wear \/ Mend \/ UNCHANGED vars
  BY <1>10, <1>11 DEF Tick, RedisTick, Turn, Wear, Mend, S!Tick, vars, ledger, script
<1> QED
  BY <1>1, <1>3, <1>4, <1>5, <1>6, <1>7, <1>8, <1>9, <1>11 DEF Next, Step

-----------------------------------------------------------------------------
(* The limit, when failures are refused. *)

\* Every event that was ever admitted has moved the arrival time of its source.
ChargedInv == \A k \in Key : SP!EmissionInterval * admitted[k] <= store[k].tat
ClosedInv == failureMode = "closed" => \A c \in Caller : answer[c] # "free"

LEMMA ChargedInit == Init => ChargedInv
<1>1. SUFFICES ASSUME Init, NEW k \in Key PROVE SP!EmissionInterval * admitted[k] <= store[k].tat
  BY DEF ChargedInv
<1>2. admitted[k] = 0 /\ store[k].tat = 0
  BY <1>1 DEF Init, S!Init, S!NoEntry
<1> QED BY <1>2, SP!Positive, Assumptions

LEMMA ChargedByCall ==
    ASSUME SP!IInv, ChargedInv, NEW k \in Key, SP!AllowN(k, 1)
    PROVE  ChargedInv'
<1> DEFINE E == SP!EmissionInterval
           T == SP!TatAt(k, now)
<1>1. E \in Nat /\ E > 0
  BY SP!Positive, Assumptions
<1>2. /\ now \in Nat /\ admitted \in [Key -> Nat] /\ store \in [Key -> SP!Entry]
      /\ \A j \in Key : store[j].tat \in Nat
  BY DEF SP!IInv, SP!TypeOK, SP!Entry
<1>3. \A j \in Key : E * admitted[j] <= store[j].tat
  BY DEF ChargedInv
<1>4. T = SP!Later(store[k].tat, now)
  BY <1>2, SP!ExpiryInvisible, Assumptions DEF SP!IInv
<1>5. T \in Nat /\ T >= now /\ T >= store[k].tat
  BY <1>2, <1>4 DEF SP!Later
<1>6. CASE SP!AllowNRefused(k, 1)
  BY <1>3, <1>6 DEF SP!AllowNRefused, ChargedInv
<1>7. CASE SP!AllowNGranted(k, 1)
  <2>1. SP!StoreTat(k, T + E * 1) /\ SP!Record(k, 1)
    BY <1>7 DEF SP!AllowNGranted
  <2> HIDE DEF E, T
  <2>2. (T + E * 1) - now > 0 /\ T + E * 1 = T + E
    BY <1>1, <1>2, <1>5
  <2>3. admitted' = [admitted EXCEPT ![k] = @ + 1]
    BY <2>1 DEF SP!Record
  <2>4. \E x : store' = [store EXCEPT ![k] = [tat |-> T + E, exp |-> x]]
    BY <2>1, <2>2 DEF SP!StoreTat
  <2>5. \A j \in Key \ {k} : admitted'[j] = admitted[j] /\ store'[j] = store[j]
    BY <1>2, <2>3, <2>4
  <2>6. admitted'[k] = admitted[k] + 1 /\ store'[k].tat = T + E
    BY <1>2, <2>3, <2>4
  <2>7. E * (admitted[k] + 1) = E * admitted[k] + E
    BY <1>1, <1>2
  <2>8. E * admitted[k] \in Nat
    BY <1>1, <1>2
  <2>9. E * admitted'[k] <= store'[k].tat
    BY <1>1, <1>2, <1>3, <1>5, <2>6, <2>7, <2>8
  <2>10. \A j \in Key : E * admitted'[j] <= store'[j].tat
    BY <1>3, <2>5, <2>9
  <2>11. E = SP!EmissionInterval /\ E' = E
    BY DEF E, SP!EmissionInterval
  <2> QED BY <2>10, <2>11 DEF ChargedInv, SP!EmissionInterval
<1> QED BY <1>6, <1>7 DEF SP!AllowN

LEMMA ChargedStep == SP!IInv /\ SourceInv /\ ChargedInv /\ [Next]_vars => ChargedInv'
<1>1. SUFFICES ASSUME SP!IInv, SourceInv, ChargedInv, [Next]_vars PROVE ChargedInv'
  OBVIOUS
<1>2. ASSUME NEW c \in Caller, Execute(c) PROVE ChargedInv'
  BY <1>1, <1>2, ScriptCall, ChargedByCall DEF Execute, SourceInv
<1>3. ASSUME NEW k \in Key, Other(k) PROVE ChargedInv'
  BY <1>1, <1>3, ScriptCall, ChargedByCall DEF Other
<1>4. CASE UNCHANGED <<admitted, store>>
  BY <1>1, <1>4 DEF ChargedInv, SP!EmissionInterval
<1>5. CASE RedisTick
  BY <1>4, <1>5 DEF RedisTick, S!Tick
<1> QED
  BY <1>1, <1>2, <1>3, <1>4, <1>5
     DEF Next, Step, Begin, Gate, Unserved, Return, Count, Lose, Tick, Turn, Wear, Mend,
         Elsewhere, script, vars

LEMMA ClosedStep == FlowInv /\ BP!TypeOK /\ ClosedInv /\ [Next]_vars => ClosedInv'
<1>1. SUFFICES ASSUME FlowInv, BP!TypeOK, ClosedInv, [Next]_vars PROVE ClosedInv'
  OBVIOUS
<1>2. failureMode' = failureMode
  BY <1>1 DEF Next, Step, Begin, Gate, Execute, Unserved, Return, Count, Lose, Other, Tick,
              RedisTick, Turn, Wear, Mend, Elsewhere, vars
<1>3. answer \in [Caller -> {"none", "forwarded", "429", "503", "free"}]
  BY <1>1 DEF FlowInv
<1>4. ASSUME NEW c \in Caller, NEW how \in {"allowed", "refused", "error"}, EndsAs(c, how)
      PROVE  ClosedInv'
  <2>1. \/ answer' = [answer EXCEPT ![c] = IF failureMode = "open" THEN "free" ELSE "503"]
        \/ \E a \in {"forwarded", "429"} : answer' = [answer EXCEPT ![c] = a]
    BY <1>4 DEF EndsAs
  <2> QED BY <1>1, <1>2, <1>3, <2>1 DEF ClosedInv
<1>5. CASE UNCHANGED answer
  BY <1>1, <1>2, <1>5 DEF ClosedInv
<1>6. ASSUME NEW c \in Caller, Gate(c) PROVE ClosedInv'
  BY <1>4, <1>5, <1>6 DEF Gate
<1>7. ASSUME NEW c \in Caller, Count(c) PROVE ClosedInv'
  <2>1. result[c] \in {"allowed", "refused", "error"}
    BY <1>1, <1>7, Moves DEF FlowInv
  <2> QED BY <1>4, <1>5, <1>7, <2>1 DEF Count, Answered
<1> QED
  BY <1>1, <1>5, <1>6, <1>7
     DEF Next, Step, Begin, Execute, Unserved, Return, Lose, Other, Tick, RedisTick, Turn,
         Wear, Mend, vars

\* LimitHolds, from the ledger, the arrival times and the answers.
LEMMA LimitFollows ==
    ASSUME SP!IInv, LedgerInv, ChargedInv, ClosedInv
    PROVE  LimitHolds
<1>1. SUFFICES ASSUME NEW k \in Key
               PROVE  S!EmissionInterval * (passed[k] + others[k]) <= now + S!BurstOffset
  BY DEF LimitHolds, ClosedInv
<1> DEFINE E == SP!EmissionInterval
<1>2. S!EmissionInterval = E /\ S!BurstOffset = SP!BurstOffset
  BY DEF S!EmissionInterval, SP!EmissionInterval, S!BurstOffset, SP!BurstOffset
<1>3. E \in Nat /\ SP!BurstOffset \in Nat
  BY SP!Positive, Assumptions
<1>4. /\ passed[k] \in Nat /\ lost[k] \in Nat /\ others[k] \in Nat
      /\ Cardinality(Pending(k)) \in Nat
      /\ admitted[k] = passed[k] + lost[k] + others[k] + Cardinality(Pending(k))
  BY PendingFinite DEF LedgerInv, LedgerType, Conserved
<1>5. now \in Nat /\ store[k].tat \in Nat /\ store[k].tat <= now + SP!BurstOffset
  BY DEF SP!IInv, SP!TypeOK, SP!StoreInv, SP!Entry
<1>6. E * admitted[k] <= store[k].tat
  BY DEF ChargedInv
<1> HIDE DEF E
<1>7. E * (passed[k] + others[k]) <= E * admitted[k]
  <2>1. ASSUME NEW a \in Nat, NEW b \in Nat PROVE E * a <= E * (a + b)
    BY <1>3
  <2>2. PICK b \in Nat : admitted[k] = (passed[k] + others[k]) + b
    <3>1. lost[k] + Cardinality(Pending(k)) \in Nat
      BY <1>4
    <3>2. admitted[k] = (passed[k] + others[k]) + (lost[k] + Cardinality(Pending(k)))
      BY <1>4
    <3> QED BY <3>1, <3>2
  <2>3. passed[k] + others[k] \in Nat
    BY <1>4
  <2> QED BY <2>1, <2>2, <2>3
<1>8. E * (passed[k] + others[k]) \in Nat /\ E * admitted[k] \in Nat
  BY <1>3, <1>4
<1> QED BY <1>2, <1>3, <1>5, <1>6, <1>7, <1>8

-----------------------------------------------------------------------------
(* The window of an open breaker, and the last failure. *)

\* What is left of the window and what has passed since a call last failed are
\* together no more than a period; and while a failure is on its way through the
\* breaker, no time passes.
TroubleInv ==
    /\ trouble \in 0 .. Calm
    /\ wait >= 0 => wait + trouble <= Reattempt
    /\ \A c \in Caller :
          pc[c] \in {"read", "write", "check", "arm", "store"} \/ result[c] = "error" => trouble = 0

LEMMA TroubleInit == Init => TroubleInv
<1>1. SUFFICES ASSUME Init PROVE TroubleInv
  OBVIOUS
<1>2. /\ wait = -1 /\ trouble = Reattempt + 1
      /\ pc = [c \in Caller |-> "idle"] /\ result = [c \in Caller |-> "none"]
  BY <1>1 DEF Init, B!Init, B!Past, Calm
<1>3. Reattempt \in Nat
  BY Assumptions
<1> QED BY <1>2, <1>3 DEF TroubleInv, Calm

LEMMA TroubleStep == FlowInv /\ BP!TypeOK /\ TroubleInv /\ [Next]_vars => TroubleInv'
<1>1. SUFFICES ASSUME FlowInv, BP!TypeOK, TroubleInv, [Next]_vars PROVE TroubleInv'
  OBVIOUS
<1>a. /\ pc \in [Caller -> BP!Place] /\ wait \in Int /\ wait >= -1 /\ wait <= Reattempt
      /\ Reattempt \in Nat
  BY <1>1, Assumptions DEF BP!TypeOK, BP!Past
<1>b. result \in [Caller -> {"none", "allowed", "refused", "error"}]
  BY <1>1 DEF FlowInv
<1>c. /\ trouble \in 0 .. Calm
      /\ wait >= 0 => wait + trouble <= Reattempt
      /\ \A c \in Caller :
            pc[c] \in {"read", "write", "check", "arm", "store"} \/ result[c] = "error" => trouble = 0
  BY <1>1 DEF TroubleInv
<1>d. Calm = Reattempt + 1
  BY DEF Calm
\* The moment of a failure.
<1>2. ASSUME trouble' = 0, wait' = wait PROVE TroubleInv'
  BY <1>2, <1>a, <1>d DEF TroubleInv
\* A step that brings no failure with it.
<1>3. ASSUME UNCHANGED <<wait, trouble>>,
             \A c \in Caller :
                pc'[c] \in {"read", "write", "check", "arm", "store"} \/ result'[c] = "error"
                    => \E d \in Caller : pc[d] \in {"read", "write", "check", "arm", "store"} \/ result[d] = "error"
      PROVE  TroubleInv'
  <2>1. \A c \in Caller :
           pc'[c] \in {"read", "write", "check", "arm", "store"} \/ result'[c] = "error" => trouble' = 0
    BY <1>c, <1>3
  <2> QED BY <1>c, <1>3, <2>1, <1>d DEF TroubleInv, Calm
<1>4. ASSUME NEW c \in Caller, NEW k \in Key, Begin(c, k) PROVE TroubleInv'
  <2>1. UNCHANGED <<wait, trouble, result>>
    BY <1>4 DEF Begin, Elsewhere, B!ReadCount
  <2>2. \E p \in {"script", "time"} : pc' = [pc EXCEPT ![c] = p]
    BY <1>1, <1>4, Moves
  <2> QED BY <1>3, <1>a, <2>1, <2>2
<1>5. ASSUME NEW c \in Caller, Gate(c) PROVE TroubleInv'
  <2>1. UNCHANGED <<wait, trouble, result>>
    BY <1>5 DEF Gate, Elsewhere, B!ReadTime
  <2>2. \E p \in {"script", "idle"} : pc' = [pc EXCEPT ![c] = p]
    BY <1>1, <1>5, Moves
  <2> QED BY <1>3, <1>a, <2>1, <2>2
<1>6. ASSUME NEW c \in Caller, Execute(c) PROVE TroubleInv'
  <2>1. /\ UNCHANGED <<wait, trouble, pc>>
        /\ \E r \in {"allowed", "refused"} : result' = [result EXCEPT ![c] = r]
    BY <1>6 DEF Execute, breaker
  <2> QED BY <1>3, <1>b, <2>1
<1>7. ASSUME NEW c \in Caller, Unserved(c) \/ Lose(c) PROVE TroubleInv'
  BY <1>2, <1>7 DEF Unserved, Lose, breaker
<1>8. ASSUME NEW c \in Caller, Return(c) PROVE TroubleInv'
  <2>1. /\ UNCHANGED <<wait, trouble, result>>
        /\ pc' = [pc EXCEPT ![c] = IF result[c] # "error" THEN "reset" ELSE "read"]
    BY <1>8 DEF Return, Elsewhere, B!ScriptReturns
  <2> QED BY <1>3, <1>a, <2>1
<1>9. ASSUME NEW c \in Caller, Count(c) PROVE TroubleInv'
  <2>1. /\ trouble' = trouble
        /\ result' = result \/ result' = [result EXCEPT ![c] = "none"]
    BY <1>9 DEF Count, Answered, Elsewhere
  <2>2. CASE B!Arm(c)
    <3>1. trouble' = 0 /\ wait' = due[c]
      BY <1>c, <2>1, <2>2 DEF B!Arm
    <3>2. due \in [Caller -> -1 .. Reattempt]
      BY <1>1 DEF BP!TypeOK, BP!Past
    <3>3. due[c] \in Int /\ due[c] <= Reattempt
      BY <1>a, <3>2
    <3> QED BY <1>a, <1>d, <3>1, <3>3 DEF TroubleInv, Calm
  <2>3. CASE B!ResetCount(c)
    <3>1. wait' = wait /\ pc' = [pc EXCEPT ![c] = "idle"]
      BY <2>3 DEF B!ResetCount
    <3> QED BY <1>3, <1>a, <1>b, <2>1, <3>1
  <2>4. CASE B!BumpRead(c) \/ B!BumpWrite(c) \/ B!Check(c) \/ B!ReadClock(c)
    <3>1. /\ pc[c] \in {"read", "write", "check", "arm"} /\ wait' = wait
      BY <2>4 DEF B!BumpRead, B!BumpWrite, B!Check, B!ReadClock
    <3> QED BY <1>3, <2>1, <3>1
  <2> QED BY <1>9, <2>2, <2>3, <2>4 DEF Count
<1>10. CASE Tick
  <2>1. /\ pc' = pc /\ result' = result
        /\ wait' = IF wait > -1 THEN wait - 1 ELSE -1
        /\ trouble' = IF trouble < Calm THEN trouble + 1 ELSE Calm
        /\ Local = {}
    BY <1>10 DEF Tick, B!Tick, B!Nearer, B!Past
  <2>2. \A c \in Caller : ~(pc[c] \in {"read", "write", "check", "arm", "store"} \/ result[c] = "error")
    BY <2>1 DEF Local
  <2>3. trouble' \in 0 .. Calm /\ trouble' <= trouble + 1
    BY <1>a, <1>c, <1>d, <2>1
  <2>4. wait' >= 0 => wait >= 0 /\ wait' = wait - 1
    BY <1>a, <2>1
  <2>5. trouble \in Int /\ trouble' \in Int
    BY <1>a, <1>c, <1>d, <2>3
  <2>6. wait' >= 0 => wait' + trouble' <= Reattempt
    <3>1. SUFFICES ASSUME wait' >= 0 PROVE wait' + trouble' <= Reattempt
      OBVIOUS
    <3>2. wait' = wait - 1 /\ wait + trouble <= Reattempt
      BY <1>c, <2>4, <3>1
    <3>3. wait \in Int /\ Reattempt \in Int
      BY <1>a
    <3>4. trouble' <= trouble + 1
      BY <2>3
    <3>5. ASSUME NEW w \in Int, NEW t \in Int, NEW u \in Int, NEW r \in Int,
                 w + t <= r, u <= t + 1
          PROVE  (w - 1) + u <= r
      BY <3>5
    <3>6. wait + trouble <= Reattempt
      BY <3>2
    <3> QED BY <2>5, <3>2, <3>3, <3>4, <3>5, <3>6
  <2> QED BY <2>1, <2>2, <2>3, <2>6 DEF TroubleInv, Calm
<1>12. CASE UNCHANGED <<wait, trouble, pc, result>>
  BY <1>3, <1>12
<1>13. ASSUME Turn \/ Wear \/ Mend \/ RedisTick \/ \E k \in Key : Other(k) PROVE TroubleInv'
  BY <1>12, <1>13 DEF Turn, B!Turn, Wear, Mend, RedisTick, Other, breaker
<1>14. CASE UNCHANGED vars
  BY <1>12, <1>14 DEF vars, breaker
<1> QED
  BY <1>1, <1>4, <1>5, <1>6, <1>7, <1>8, <1>9, <1>10, <1>13, <1>14 DEF Next, Step

-----------------------------------------------------------------------------
(* Results. *)

IInv == /\ SP!IInv /\ BP!TypeOK /\ BP!RoundInv
        /\ FlowInv /\ LedgerInv /\ ChargedInv /\ ClosedInv /\ TroubleInv

THEOREM Invariant == Spec => []IInv
<1>1. Init => ClosedInv
  BY DEF Init, ClosedInv
<1>2. FlowInv => SourceInv
  BY DEF FlowInv
<1>3. SP!IInv /\ BP!TypeOK /\ BP!RoundInv /\ FlowInv /\ LedgerInv /\ ChargedInv /\ ClosedInv
          /\ TroubleInv
          <=> IInv
  BY DEF IInv
<1> QED
  BY <1>1, <1>2, <1>3, ScriptInvariant, BreakerInvariant, FlowInvariant, LedgerInit, LedgerStep,
     ChargedInit, ChargedStep, ClosedStep, TroubleInit, TroubleStep, PTL DEF Spec

SoundInv == sound \in BOOLEAN

LEMMA SoundType == Spec => []SoundInv
<1>1. Init => SoundInv
  BY DEF Init, SoundInv
<1>2. SoundInv /\ [Next]_vars => SoundInv'
  BY DEF Next, Step, Begin, Gate, Execute, Unserved, Return, Count, Lose, Other, Tick, RedisTick,
         Turn, Wear, Mend, Elsewhere, vars, SoundInv
<1> QED BY <1>1, <1>2, PTL DEF Spec

\* The state of script, breaker and flow is well typed.
THEOREM TypeCorrect == Spec => []TypeOK
<1>1. IInv /\ SoundInv => TypeOK
  <2>1. SP!IInv => S!TypeOK
    BY DEF SP!IInv, SP!TypeOK, S!TypeOK, SP!Entry, S!Entry
  <2>2. BP!TypeOK => B!TypeOK
    BY DEF BP!TypeOK, B!TypeOK, BP!Past, B!Past, BP!Cap, B!Cap, BP!Beyond, B!Beyond,
           BP!Place, B!Place, BP!GateLimit, B!GateLimit
  <2> QED
    BY <2>1, <2>2 DEF IInv, SoundInv, TypeOK, FlowInv, SourceInv, LedgerInv, LedgerType, TroubleInv
<1> QED BY <1>1, Invariant, SoundType, PTL

\* Every charge in Redis is one request forwarded, one on its way, or one whose
\* reply was lost: for every source, every number of callers and any outages.
THEOREM ConservedHolds == Spec => []Conserved
<1>1. IInv => Conserved
  BY DEF IInv, LedgerInv
<1> QED BY <1>1, Invariant, PTL

\* With failureMode "closed" the limit is a guarantee, through outages too.
THEOREM LimitHoldsAlways == Spec => []LimitHolds
<1>1. IInv => LimitHolds
  BY LimitFollows DEF IInv
<1> QED BY <1>1, Invariant, PTL

\* Nobody is turned away unseen later than a reattempt period after a call last
\* failed, however many callers race.
THEOREM RetryAfterEnoughHolds == Spec => RetryAfterEnough
<1>1. IInv /\ [Next]_vars => [\A c \in Caller : Unseen(c) => trouble <= Reattempt]_vars
  <2>1. SUFFICES ASSUME IInv, Next, NEW c \in Caller, Unseen(c) PROVE trouble <= Reattempt
    OBVIOUS
  <2>2. /\ pc \in [Caller -> BP!Place] /\ wait \in Int /\ Reattempt \in Nat /\ trouble \in Nat
        /\ wait >= 0 => wait + trouble <= Reattempt
    BY <2>1, Assumptions DEF IInv, BP!TypeOK, BP!Past, TroubleInv, Calm
  <2>3. wait >= 0
    <3>1. BP!Move /\ pc[c] = "time" /\ pc'[c] = "idle"
      BY <2>1, BreakerMoves DEF Unseen
    <3>2. BP!ReadTime(c)
      BY <2>2, <3>1
         DEF BP!Move, BP!CallerMove, BP!Tick, BP!Turn, BP!vars, BP!ReadCount, BP!ReadTime,
             BP!ScriptReturns, BP!ResetCount, BP!BumpRead, BP!BumpWrite, BP!Check, BP!ReadClock,
             BP!Arm
    <3> QED BY <2>2, <3>1, <3>2 DEF BP!ReadTime
  <2> QED BY <2>2, <2>3
<1> QED BY <1>1, Invariant, PTL DEF Spec, RetryAfterEnough

\* The breaker's promises to a caller that has it for itself, in the composition.
LEMMA SoleInvariant ==
    ASSUME NEW only, Caller = {only}
    PROVE  Spec => [](IInv /\ BP!SoleInv)
<1>1. Init => BP!SoleInv
  BY BreakerInit, BP!SoleInit, Assumptions
<1>2. IInv /\ BP!SoleInv /\ [Next]_vars => BP!SoleInv'
  BY BreakerMoves, BP!SoleKept, Assumptions DEF IInv
<1> QED BY <1>1, <1>2, Invariant, PTL DEF Spec

\* A request is refused unseen only after Threshold failures in a row.
THEOREM NeverOpensEarlyHolds ==
    ASSUME NEW only, Caller = {only}
    PROVE  Spec => NeverOpensEarly
<1>1. IInv /\ BP!SoleInv /\ [Next]_vars
          => [\A c \in Caller : pc[c] = "time" /\ pc'[c] = "idle" => streak >= Threshold]_B!vars
  BY BreakerMoves, BP!SolePromises, Assumptions DEF IInv, BP!RoundInv
<1> QED
  BY <1>1, SoleInvariant, PTL DEF Spec, NeverOpensEarly, B!NeverOpensEarly

\* After Threshold failures in a row Redis is left alone for a whole period.
THEOREM StopsAfterThresholdHolds ==
    ASSUME NEW only, Caller = {only}, Threshold >= B!GateLimit
    PROVE  Spec => StopsAfterThreshold
<1>1. IInv /\ BP!SoleInv /\ [Next]_vars
          => [\A c \in Caller : B!Enters(c) /\ B!Deciding = {} /\ streak >= Threshold
                                    => sinceRound > Reattempt]_B!vars
  <2>1. SUFFICES ASSUME IInv, BP!SoleInv, [Next]_vars, NEW c \in Caller,
                        B!Enters(c), B!Deciding = {}, streak >= Threshold
                 PROVE  sinceRound > Reattempt
    OBVIOUS
  <2>2. BP!Enters(c) /\ BP!Deciding = {} /\ Threshold >= BP!GateLimit
    BY <2>1 DEF B!Enters, BP!Enters, B!Deciding, BP!Deciding, B!GateLimit, BP!GateLimit
  <2> QED BY <2>1, <2>2, BreakerMoves, BP!SolePromises, Assumptions DEF IInv, BP!RoundInv
<1> QED
  BY <1>1, SoleInvariant, PTL DEF Spec, StopsAfterThreshold, B!StopsAfterThreshold

=============================================================================
