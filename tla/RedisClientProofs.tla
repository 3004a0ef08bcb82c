------------------------- MODULE RedisClientProofs -------------------------
(***************************************************************************)
(* Proofs about the Redis client: its type, the ownership of sockets, the  *)
(* pairing of replies with requests, and what a warm client can rely on.   *)
(***************************************************************************)
EXTENDS RedisClient, FiniteSetTheorems, WellFoundedInduction, TLAPS

-----------------------------------------------------------------------------
(* The inductive invariant. *)

\* Where a caller has a connection in its hands.
InHand == {"params", "branch", "send", "await", "store", "stored", "put"}

\* The command of a caller fits the place where it is.
CommandInv ==
    \A c \in Caller :
        /\ pc[c] \in {"send", "await"} => req[c] \in {"eval", "load", "ping", "del"}
        /\ pc[c] \in {"store", "stored"} => req[c] = "load"
        /\ pc[c] = "dial" => req[c] \in Ops

\* Who has a socket: pooled once, held by one caller, or neither.
Pooled(x) == \E i \in 1 .. Len(pool) : pool[i] = x
Taken(x) == \E c \in Caller : held[c] = x

OwnerInv ==
    /\ \A c \in Caller : pc[c] \in InHand <=> held[c] # None
    /\ \A i, j \in 1 .. Len(pool) : pool[i] = pool[j] => i = j
    /\ \A c, d \in Caller : held[c] = held[d] /\ held[c] # None => c = d
    /\ \A x \in Conn : ~(Pooled(x) /\ Taken(x))
    /\ \A x \in Conn : sock[x] = "free" <=> ~Pooled(x) /\ ~Taken(x)

\* A reply is on its way only to a caller that waits for it.
ReplyInv ==
    /\ \A x \in Conn : inbox[x] # <<>> => \E c \in Caller : held[c] = x /\ pc[c] = "await"
    /\ RepliesMatch

IInv == TypeOK /\ CommandInv /\ OwnerInv /\ ReplyInv

\* While nothing has gone wrong: every connection works, whoever knows the sha
\* finds the script loaded, and what it sends is an EVALSHA.
WarmInv(c) ==
    /\ pc[c] \in {"idle", "dial", "params"} => sha[c] = ""
    /\ pc[c] \in {"store", "stored"} => loaded
    /\ pc[c] = "await" /\ req[c] = "load" => loaded
    /\ sha[c] # "" => loaded
    /\ pc[c] = "await" /\ sha[c] = "sha" =>
          /\ req[c] = "eval"
          /\ \A i \in 1 .. Len(inbox[held[c]]) : inbox[held[c]][i].kind = "array"
    /\ pc[c] = "send" /\ sha[c] # "" => req[c] = "eval"
    /\ pc[c] = "put" /\ sha[c] = "sha" => outcome[c] = "ok"

CalmInv ==
    calm => /\ up
            /\ \A x \in Conn : sock[x] # "free" => sock[x] = "open" /\ x \in alive
            /\ scriptSha # "" => loaded
            /\ \A c \in Caller : WarmInv(c)

-----------------------------------------------------------------------------
(* Lemmas. *)

LEMMA Least ==
    ASSUME NEW T \in SUBSET Nat, T # {}
    PROVE  LeastOf(T) \in T
<1>1. PICK x \in T : \A y \in T : ~(<<y, x>> \in OpToRel(<, Nat))
  BY NatLessThanWellFounded, WFMin
<1>2. \A y \in T : ~(y < x)
  BY <1>1 DEF OpToRel
<1>3. \A y \in T : x <= y
  BY <1>2
<1> QED BY <1>3 DEF LeastOf

LEMMA Sockets ==
    /\ Cardinality(Caller) \in Nat
    /\ Conn \in SUBSET Nat /\ None \notin Conn
    /\ IsFiniteSet(Conn) /\ Cardinality(Conn) = MaxActive + Cardinality(Caller)
<1>1. Cardinality(Caller) \in Nat
  BY FS_CardinalityType, ClientAssumption
<1>2. MaxActive + Cardinality(Caller) \in Nat /\ MaxActive + Cardinality(Caller) >= 1
  BY <1>1, ClientAssumption
<1>3. IsFiniteSet(Conn) /\ Cardinality(Conn) = MaxActive + Cardinality(Caller)
  BY <1>2, FS_Interval DEF Conn
<1> QED BY <1>1, <1>2, <1>3 DEF Conn, None

\* There are enough sockets: a caller without one always finds one to dial,
\* since the pool and the other callers have MaxActive + |Caller| - 1 at most.
LEMMA DialFindsOne ==
    ASSUME IInv, NEW c \in Caller, pc[c] = "dial"
    PROVE  Free # {} /\ LeastOf(Free) \in Conn /\ sock[LeastOf(Free)] = "free"
<1> DEFINE A == {pool[i] : i \in 1 .. Len(pool)}
           D == Caller \ {c}
           H == {held[d] : d \in D}
<1>1. IsFiniteSet(A) /\ Cardinality(A) <= MaxActive
  <2>0. pool \in Seq(Conn) /\ Len(pool) <= MaxActive
    BY DEF IInv, TypeOK
  <2>1. Len(pool) \in Nat /\ Len(pool) <= MaxActive /\ MaxActive \in Nat
    BY <2>0, ClientAssumption
  <2>2. IsFiniteSet(1 .. Len(pool)) /\ Cardinality(1 .. Len(pool)) <= MaxActive
    <3> DEFINE n == Len(pool)
    <3>1. n \in Nat /\ n <= MaxActive /\ 1 \in Int /\ n \in Int
      BY <2>1
    <3> HIDE DEF n
    <3>2. /\ IsFiniteSet(1 .. n)
          /\ Cardinality(1 .. n) = IF 1 > n THEN 0 ELSE n - 1 + 1
      BY <3>1, FS_Interval
    <3>3. IsFiniteSet(1 .. n) /\ Cardinality(1 .. n) <= MaxActive
      BY <2>1, <3>1, <3>2
    <3> QED BY <3>3 DEF n
  <2>3. [i \in 1 .. Len(pool) |-> pool[i]] \in Surjection(1 .. Len(pool), A)
    BY DEF Surjection
  <2>4. IsFiniteSet(A) /\ Cardinality(A) <= Cardinality(1 .. Len(pool))
    BY <2>2, <2>3, FS_Surjection
  <2> QED BY <2>1, <2>2, <2>4, FS_CardinalityType
<1>2. IsFiniteSet(H) /\ Cardinality(H) <= Cardinality(Caller) - 1
  <2>1. IsFiniteSet(D) /\ Cardinality(D) = Cardinality(Caller) - 1
    BY ClientAssumption, FS_RemoveElement
  <2>2. [d \in D |-> held[d]] \in Surjection(D, H)
    BY DEF Surjection
  <2> QED BY <2>1, <2>2, FS_Surjection
<1>3. Free # {}
  <2>1. SUFFICES ASSUME Free = {} PROVE FALSE
    OBVIOUS
  <2>2. held[c] = None
    BY DEF IInv, OwnerInv, InHand
  <2>3. Conn \in SUBSET (A \cup H)
    <3>1. SUFFICES ASSUME NEW x \in Conn PROVE x \in A \cup H
      OBVIOUS
    <3>2. Pooled(x) \/ Taken(x)
      BY <2>1 DEF IInv, OwnerInv, Free
    <3>3. Taken(x) => \E d \in D : held[d] = x
      BY <2>2, Sockets DEF Taken
    <3> QED BY <3>2, <3>3 DEF Pooled
  <2>4. /\ IsFiniteSet(A \cup H)
        /\ Cardinality(A \cup H) = Cardinality(A) + Cardinality(H) - Cardinality(A \cap H)
    BY <1>1, <1>2, FS_Union
  <2>5. Cardinality(Conn) <= Cardinality(A \cup H)
    BY <2>3, <2>4, FS_Subset
  <2>6. /\ Cardinality(A) \in Nat /\ Cardinality(H) \in Nat
        /\ Cardinality(A \cap H) \in Nat
    BY <1>1, <1>2, FS_Intersection, FS_CardinalityType
  <2> HIDE DEF A, H
  <2> QED BY <1>1, <1>2, <2>4, <2>5, <2>6, Sockets, ClientAssumption
<1>4. Free \in SUBSET Nat
  BY Sockets DEF Free
<1>5. LeastOf(Free) \in Free
  BY <1>3, <1>4, Least
<1> QED BY <1>3, <1>5 DEF Free

\* What a caller holds is a socket.
LEMMA HeldSocket ==
    ASSUME IInv, NEW c \in Caller, pc[c] \in InHand
    PROVE  held[c] \in Conn
<1> held \in [Caller -> Conn \cup {None}]
  BY DEF IInv, TypeOK
<1> held[c] # None
  BY DEF IInv, OwnerInv
<1> QED OBVIOUS

LEMMA AnswerType ==
    ASSUME IInv, NEW c \in Caller, pc[c] \in {"send", "await"}
    PROVE  Answer(c) \in {"array", "bulk", "status", "integer", "error"}
BY DEF IInv, CommandInv, Answer

-----------------------------------------------------------------------------
(* Type correctness, and the commands of the callers. *)

\* The parts of TypeOK, for the provers.
PoolType == pool \in Seq(Conn) /\ Len(pool) <= MaxActive
SocketType == sock \in [Conn -> {"free", "open", "closed"}] /\ alive \subseteq Conn
InboxType == inbox \in [Conn -> Seq(Reply)]
ServerType ==
    /\ scriptSha \in {"", "torn", "sha"}
    /\ up \in BOOLEAN /\ loaded \in BOOLEAN /\ calm \in BOOLEAN
    /\ faults \in 0 .. MaxFaults
CallerType ==
    /\ pc \in [Caller -> Place]
    /\ held \in [Caller -> Conn \cup {None}]
    /\ req \in [Caller -> {"run", "ping", "del", "eval", "load"}]
    /\ sha \in [Caller -> {"", "torn", "sha"}]
    /\ outcome \in [Caller -> {"none", "ok", "error", "panic"}]

LEMMA TypeParts == TypeOK <=> PoolType /\ SocketType /\ InboxType /\ ServerType /\ CallerType
BY DEF TypeOK, PoolType, SocketType, InboxType, ServerType, CallerType

LEMMA TypeInit == Init => TypeOK /\ CommandInv
<1>a. SUFFICES ASSUME Init PROVE TypeOK /\ CommandInv
  OBVIOUS
<1>1. PICK n \in 0 .. MaxActive :
        /\ up \in IF n = 0 THEN BOOLEAN ELSE {TRUE}
        /\ calm = up
        /\ pool = [i \in 1 .. n |-> i]
        /\ sock = [x \in Conn |-> IF x <= n THEN "open" ELSE "free"]
        /\ alive = 1 .. n
  BY <1>a DEF Init
<1>2. 1 .. n \subseteq Conn /\ n \in Nat /\ n <= MaxActive
  BY Sockets, ClientAssumption DEF Conn
<1>3. PoolType
  BY <1>1, <1>2 DEF PoolType
<1>4. SocketType
  BY <1>1, <1>2 DEF SocketType
<1>5. InboxType
  <2>1. inbox = [x \in Conn |-> <<>>]
    BY <1>a DEF Init
  <2>2. <<>> \in Seq(Reply)
    OBVIOUS
  <2> QED BY <2>1, <2>2 DEF InboxType
<1>6. ServerType
  <2>1. up \in BOOLEAN /\ calm \in BOOLEAN
    BY <1>1
  <2>2. scriptSha = "" /\ loaded = FALSE /\ faults = MaxFaults
    BY <1>a DEF Init
  <2>3. MaxFaults \in Nat /\ faults = MaxFaults
    BY <2>2, ClientAssumption
  <2>4. faults \in 0 .. MaxFaults
    BY <2>3
  <2> QED BY <2>1, <2>2, <2>4 DEF ServerType
<1>7. /\ pc = [c \in Caller |-> "idle"]
      /\ held = [c \in Caller |-> None]
      /\ req = [c \in Caller |-> "ping"]
      /\ sha = [c \in Caller |-> ""]
      /\ outcome = [c \in Caller |-> "none"]
  BY <1>a DEF Init
<1>8. CallerType
  BY <1>7 DEF CallerType, Place
<1>9. CommandInv
  BY <1>7 DEF CommandInv
<1> QED BY <1>3, <1>4, <1>5, <1>6, <1>8, <1>9, TypeParts

LEMMA PoolStep == IInv /\ [Next]_vars => PoolType'
<1>a. SUFFICES ASSUME IInv, [Next]_vars PROVE PoolType'
  OBVIOUS
<1>b. pool \in Seq(Conn) /\ Len(pool) <= MaxActive /\ MaxActive \in Nat
  BY <1>a, TypeParts, ClientAssumption DEF IInv, PoolType
<1>1. ASSUME NEW c \in Caller, NEW op \in Ops, GetPooled(c, op)
      PROVE  PoolType'
  <2>1. pool # <<>> /\ pool' = Tail(pool)
    BY <1>1 DEF GetPooled
  <2> QED BY <1>b, <2>1 DEF PoolType
<1>2. ASSUME NEW c \in Caller, Put(c)
      PROVE  PoolType'
  <2>1. held[c] \in Conn
    BY <1>a, <1>2, HeldSocket DEF Put, InHand
  <2>2. pool' = pool \/ (Len(pool) < MaxActive /\ pool' = Append(pool, held[c]))
    <3>1. Len(pool) \in Nat
      BY <1>b
    <3>2. IF Len(pool) >= MaxActive THEN UNCHANGED pool ELSE pool' = Append(pool, held[c])
      BY <1>2 DEF Put
    <3>3. Len(pool) >= MaxActive \/ Len(pool) < MaxActive
      BY <1>b, <3>1
    <3> QED BY <3>2, <3>3
  <2>3. ASSUME NEW x \in Conn PROVE Append(pool, x) \in Seq(Conn) /\ Len(Append(pool, x)) = Len(pool) + 1
    BY <1>b
  <2>4. Len(pool) \in Nat
    BY <1>b
  <2> QED BY <1>b, <2>1, <2>2, <2>3, <2>4 DEF PoolType
<1>3. CASE UNCHANGED pool
  BY <1>b, <1>3 DEF PoolType
<1> QED
  BY <1>a, <1>1, <1>2, <1>3
     DEF Next, Step, Get, Dial, Exchange, Script, GetMiss, DialOK, DialFails, Send, SendFails,
         SendPanics, Read, ReadFails, ReadTimesOut, ReadParams, Branch, StoreBegin, StoreEnd,
         Stop, Start, Flush, Drop, Refuse, Fault, vars, client, caller

LEMMA SocketStep == IInv /\ [Next]_vars => SocketType'
<1>a. SUFFICES ASSUME IInv, [Next]_vars PROVE SocketType'
  OBVIOUS
<1>b. SocketType
  BY <1>a, TypeParts DEF IInv
<1>1. ASSUME NEW c \in Caller, DialOK(c)
      PROVE  SocketType'
  <2>1. LeastOf(Free) \in Conn
    BY <1>a, <1>1, DialFindsOne DEF DialOK
  <2> QED BY <1>b, <1>1, <2>1 DEF SocketType, DialOK
<1>2. ASSUME NEW c \in Caller, Put(c)
      PROVE  SocketType'
  BY <1>b, <1>2 DEF SocketType, Put
<1>3. ASSUME NEW c \in Caller, Fail(c)
      PROVE  SocketType'
  BY <1>b, <1>3 DEF SocketType, Fail
<1>4. CASE UNCHANGED sock /\ alive' \subseteq alive
  BY <1>b, <1>4 DEF SocketType
<1> QED
  BY <1>a, <1>1, <1>2, <1>3, <1>4
     DEF Next, Step, Get, Dial, Exchange, Script, GetPooled, GetMiss, DialFails, Send, SendFails,
         SendPanics, Read, ReadFails, ReadTimesOut, ReadParams, Branch, StoreBegin, StoreEnd,
         Stop, Start, Flush, Drop, Refuse, Fault, vars, client, caller

LEMMA InboxStep == IInv /\ [Next]_vars => InboxType'
<1>a. SUFFICES ASSUME IInv, [Next]_vars PROVE InboxType'
  OBVIOUS
<1>b. inbox \in [Conn -> Seq(Reply)]
  BY <1>a, TypeParts DEF IInv, InboxType
<1>c. <<>> \in Seq(Reply)
  OBVIOUS
<1>1. ASSUME NEW c \in Caller, Send(c) \/ Refuse(c)
      PROVE  InboxType'
  <2>1. PICK m \in Reply : \/ inbox' = inbox
                           \/ inbox' = [inbox EXCEPT ![held[c]] = Append(inbox[held[c]], m)]
    <3>1. CASE Send(c)
      <4>1. [to |-> c, kind |-> Answer(c)] \in Reply
        BY <1>a, <3>1, AnswerType DEF Send, Reply
      <4> QED BY <3>1, <4>1 DEF Send
    <3>2. CASE Refuse(c)
      <4>1. [to |-> c, kind |-> "error"] \in Reply
        BY DEF Reply
      <4> QED BY <3>2, <4>1 DEF Refuse
    <3> QED BY <1>1, <3>1, <3>2
  <2>2. held[c] \in Conn
    BY <1>a, <1>1, HeldSocket DEF Send, Refuse, InHand
  <2>3. ASSUME NEW q \in Seq(Reply) PROVE Append(q, m) \in Seq(Reply)
    BY <2>1
  <2> QED BY <1>b, <2>1, <2>2, <2>3 DEF InboxType
<1>2. ASSUME NEW c \in Caller, Read(c)
      PROVE  InboxType'
  <2>1. held[c] \in Conn
    BY <1>a, <1>2, HeldSocket DEF Read, InHand
  <2>2. /\ inbox[held[c]] # <<>>
        /\ inbox' = [inbox EXCEPT ![held[c]] = Tail(inbox[held[c]])]
    BY <1>2 DEF Read
  <2>3. ASSUME NEW q \in Seq(Reply), q # <<>> PROVE Tail(q) \in Seq(Reply)
    BY <2>3
  <2> QED BY <1>b, <2>1, <2>2, <2>3 DEF InboxType
<1>3. ASSUME NEW x, inbox' = [inbox EXCEPT ![x] = <<>>]
      PROVE  InboxType'
  BY <1>b, <1>c, <1>3 DEF InboxType
<1>4. CASE UNCHANGED inbox
  BY <1>b, <1>4 DEF InboxType
<1>5. CASE Stop
  BY <1>c, <1>5 DEF Stop, InboxType
<1>6. ASSUME NEW c \in Caller, Put(c) \/ DialOK(c) \/ Fail(c)
      PROVE  InboxType'
  BY <1>3, <1>4, <1>6 DEF Put, DialOK, Fail
<1>7. ASSUME NEW x \in Conn, Drop(x)
      PROVE  InboxType'
  BY <1>3, <1>7 DEF Drop
<1> QED
  BY <1>a, <1>1, <1>2, <1>4, <1>5, <1>6, <1>7
     DEF Next, Step, Get, Dial, Exchange, Script, GetPooled, GetMiss, DialFails, SendFails,
         SendPanics, ReadFails, ReadTimesOut, ReadParams, Branch, StoreBegin, StoreEnd,
         Start, Flush, vars, client, caller

LEMMA ServerStep == IInv /\ [Next]_vars => ServerType'
<1>a. SUFFICES ASSUME IInv, [Next]_vars PROVE ServerType'
  OBVIOUS
<1>b. ServerType
  BY <1>a, TypeParts DEF IInv
<1>c. faults \in 0 .. MaxFaults /\ MaxFaults \in Nat
  BY <1>b, ClientAssumption DEF ServerType
<1>1. ASSUME faults > 0, faults' = faults - 1
      PROVE  faults' \in 0 .. MaxFaults
  BY <1>c, <1>1
<1>2. faults' \in 0 .. MaxFaults
  BY <1>a, <1>b, <1>1
     DEF ServerType, Next, Step, Get, Dial, Exchange, Script, GetPooled, GetMiss, DialOK,
         DialFails, Send, SendFails, SendPanics, Read, ReadFails, ReadTimesOut, ReadParams,
         Branch, StoreBegin, StoreEnd, Put, Stop, Start, Flush, Drop, Refuse, Fault, vars, server
<1>3. scriptSha' \in {"", "torn", "sha"}
  BY <1>a, <1>b
     DEF ServerType, Next, Step, Get, Dial, Exchange, Script, GetPooled, GetMiss, DialOK,
         DialFails, Send, SendFails, SendPanics, Read, ReadFails, ReadTimesOut, ReadParams,
         Branch, StoreBegin, StoreEnd, Put, Stop, Start, Flush, Drop, Refuse, Fault, vars, client,
         server
<1>4. loaded' \in BOOLEAN
  BY <1>a, <1>b
     DEF ServerType, Next, Step, Get, Dial, Exchange, Script, GetPooled, GetMiss, DialOK,
         DialFails, Send, SendFails, SendPanics, Read, ReadFails, ReadTimesOut, ReadParams,
         Branch, StoreBegin, StoreEnd, Put, Stop, Start, Flush, Drop, Refuse, Fault, vars, client,
         server
<1>5. up' \in BOOLEAN /\ calm' \in BOOLEAN
  BY <1>a, <1>b
     DEF ServerType, Next, Step, Get, Dial, Exchange, Script, GetPooled, GetMiss, DialOK,
         DialFails, Send, SendFails, SendPanics, Read, ReadFails, ReadTimesOut, ReadParams,
         Branch, StoreBegin, StoreEnd, Put, Stop, Start, Flush, Drop, Refuse, Fault, vars, client,
         server
<1> QED BY <1>2, <1>3, <1>4, <1>5 DEF ServerType

LEMMA CallerStep == IInv /\ [Next]_vars => CallerType'
<1>a. SUFFICES ASSUME IInv, [Next]_vars PROVE CallerType'
  OBVIOUS
<1>b. CallerType
  BY <1>a, TypeParts DEF IInv
<1>1. ASSUME NEW c \in Caller, NEW op \in Ops, GetPooled(c, op)
      PROVE  CallerType'
  <2>1. Head(pool) \in Conn
    BY <1>a, <1>1, TypeParts DEF IInv, PoolType, GetPooled
  <2>2. op \in {"run", "ping", "del"} /\ FirstStep(op) \in Place
    BY ClientAssumption DEF FirstStep, Place
  <2> QED BY <1>b, <1>1, <2>1, <2>2 DEF CallerType, GetPooled
<1>2. ASSUME NEW c \in Caller, NEW op \in Ops, GetMiss(c, op)
      PROVE  CallerType'
  BY <1>b, <1>2, ClientAssumption DEF CallerType, GetMiss, Place
<1>3. ASSUME NEW c \in Caller, DialOK(c)
      PROVE  CallerType'
  <2>1. LeastOf(Free) \in Conn
    BY <1>a, <1>3, DialFindsOne DEF DialOK
  <2>2. FirstStep(req[c]) \in Place
    BY DEF FirstStep, Place
  <2> QED BY <1>b, <1>3, <2>1, <2>2 DEF CallerType, DialOK
<1>4. ASSUME NEW c \in Caller, DialFails(c)
      PROVE  CallerType'
  BY <1>b, <1>4 DEF CallerType, DialFails, Place
<1>5. ASSUME NEW c \in Caller, Put(c)
      PROVE  CallerType'
  BY <1>b, <1>5 DEF CallerType, Put, Place
<1>6. ASSUME NEW c \in Caller, Send(c) \/ Refuse(c)
      PROVE  CallerType'
  BY <1>b, <1>6 DEF CallerType, Send, Refuse, Place
<1>7. ASSUME NEW c \in Caller, Fail(c), UNCHANGED <<held, req, sha>>
      PROVE  CallerType'
  BY <1>b, <1>7 DEF CallerType, Fail, Place
<1>8. ASSUME NEW c \in Caller, SendPanics(c)
      PROVE  CallerType'
  BY <1>b, <1>8 DEF CallerType, SendPanics, Place
<1>9. ASSUME NEW c \in Caller, Read(c)
      PROVE  CallerType'
  <2>1. \A k : Verdict(c, k) \in {"ok", "error"}
    BY DEF Verdict
  <2> QED BY <1>b, <1>9, <2>1 DEF CallerType, Read, Place
<1>10. ASSUME NEW c \in Caller, ReadParams(c)
       PROVE  CallerType'
  <2>1. ShaSeen \subseteq {"", "torn", "sha"}
    BY <1>a, TypeParts DEF IInv, ServerType, ShaSeen
  <2> QED BY <1>b, <1>10, <2>1 DEF CallerType, ReadParams, Place
<1>11. ASSUME NEW c \in Caller, Branch(c)
       PROVE  CallerType'
  BY <1>b, <1>11 DEF CallerType, Branch, Place
<1>12. ASSUME NEW c \in Caller, StoreBegin(c) \/ StoreEnd(c)
       PROVE  CallerType'
  BY <1>b, <1>12 DEF CallerType, StoreBegin, StoreEnd, Place
<1>13. CASE UNCHANGED caller
  BY <1>b, <1>13 DEF CallerType, caller
<1> QED
  BY <1>a, <1>1, <1>2, <1>3, <1>4, <1>5, <1>6, <1>7, <1>8, <1>9, <1>10, <1>11, <1>12, <1>13
     DEF Next, Step, Get, Dial, Exchange, Script, SendFails, ReadFails, ReadTimesOut,
         Stop, Start, Flush, Drop, vars

\* What a caller carries from one place to the next.
LEMMA CommandStep == IInv /\ [Next]_vars => CommandInv'
<1>a. SUFFICES ASSUME IInv, [Next]_vars PROVE CommandInv'
  OBVIOUS
<1>b. CommandInv /\ CallerType
  BY <1>a, TypeParts DEF IInv
<1>1. ASSUME NEW c \in Caller, NEW op \in Ops, GetPooled(c, op) \/ GetMiss(c, op)
      PROVE  CommandInv'
  <2>1. pc \in [Caller -> Place] /\ req \in [Caller -> {"run", "ping", "del", "eval", "load"}]
    BY <1>b DEF CallerType
  <2>2. op \in {"run", "ping", "del"}
    BY ClientAssumption
  <2>3. /\ req' = [req EXCEPT ![c] = op]
        /\ pc' = [pc EXCEPT ![c] = "dial"] \/ pc' = [pc EXCEPT ![c] = FirstStep(op)]
    BY <1>1 DEF GetPooled, GetMiss
  <2> QED BY <1>b, <2>1, <2>2, <2>3 DEF CommandInv, FirstStep
<1>2. ASSUME NEW c \in Caller, DialOK(c)
      PROVE  CommandInv'
  BY <1>b, <1>2, ClientAssumption DEF CommandInv, CallerType, DialOK, FirstStep
<1>3. ASSUME NEW c \in Caller, DialFails(c) \/ Put(c) \/ SendPanics(c)
      PROVE  CommandInv'
  BY <1>b, <1>3 DEF CommandInv, CallerType, DialFails, Put, SendPanics
<1>4. ASSUME NEW c \in Caller, Send(c) \/ Refuse(c) \/ Read(c)
      PROVE  CommandInv'
  BY <1>b, <1>4 DEF CommandInv, CallerType, Send, Refuse, Read
<1>5. ASSUME NEW c \in Caller, Fail(c), UNCHANGED <<held, req, sha>>
      PROVE  CommandInv'
  BY <1>b, <1>5 DEF CommandInv, CallerType, Fail
<1>6. ASSUME NEW c \in Caller, Script(c)
      PROVE  CommandInv'
  <2>1. CASE ReadParams(c)
    BY <1>b, <2>1 DEF CommandInv, CallerType, ReadParams
  <2>2. CASE Branch(c)
    BY <1>b, <2>2 DEF CommandInv, CallerType, Branch
  <2>3. CASE StoreBegin(c) \/ StoreEnd(c)
    BY <1>b, <2>3 DEF CommandInv, CallerType, StoreBegin, StoreEnd
  <2> QED BY <1>6, <2>1, <2>2, <2>3 DEF Script
<1>7. CASE UNCHANGED caller
  BY <1>b, <1>7 DEF CommandInv, caller
<1> QED
  BY <1>a, <1>1, <1>2, <1>3, <1>4, <1>5, <1>6, <1>7
     DEF Next, Step, Get, Dial, Exchange, SendFails, ReadFails, ReadTimesOut,
         Stop, Start, Flush, Drop, vars

-----------------------------------------------------------------------------
(* Who owns a socket. *)

LEMMA OwnerInit == Init => OwnerInv
<1>a. SUFFICES ASSUME Init PROVE OwnerInv
  OBVIOUS
<1>1. PICK n \in 0 .. MaxActive :
        /\ pool = [i \in 1 .. n |-> i]
        /\ sock = [x \in Conn |-> IF x <= n THEN "open" ELSE "free"]
  BY <1>a DEF Init
<1>2. /\ pc = [c \in Caller |-> "idle"]
      /\ held = [c \in Caller |-> None]
  BY <1>a DEF Init
<1>3. n \in Nat /\ Len(pool) = n /\ \A i \in 1 .. n : pool[i] = i
  BY <1>1, ClientAssumption
<1>4. \A x \in Conn : x \in Nat /\ x >= 1 /\ x # None
  BY Sockets DEF Conn, None
<1>5. \A x \in Conn : Pooled(x) <=> x <= n
  BY <1>3, <1>4 DEF Pooled
<1>6. \A x \in Conn : ~Taken(x)
  BY <1>2, <1>4 DEF Taken
<1>7. \A x \in Conn : sock[x] = "free" <=> ~Pooled(x)
  BY <1>1, <1>5
<1> QED BY <1>2, <1>3, <1>5, <1>6, <1>7 DEF OwnerInv, InHand

LEMMA OwnerStep == IInv /\ [Next]_vars => OwnerInv'
<1>a. SUFFICES ASSUME IInv, [Next]_vars PROVE OwnerInv'
  OBVIOUS
<1>b. OwnerInv
  BY <1>a DEF IInv
<1>c. pc \in [Caller -> Place] /\ held \in [Caller -> Conn \cup {None}]
  BY <1>a, TypeParts DEF IInv, CallerType
<1>d. sock \in [Conn -> {"free", "open", "closed"}]
  BY <1>a, TypeParts DEF IInv, SocketType
<1>e. pool \in Seq(Conn) /\ Len(pool) \in Nat
  BY <1>a, TypeParts DEF IInv, PoolType
<1>f. None \notin Conn
  BY Sockets
\* The caller moves on with what it has.
<1>1. ASSUME NEW c \in Caller, pc[c] \in InHand, NEW p \in InHand, pc' = [pc EXCEPT ![c] = p],
             UNCHANGED <<pool, held>>,
             \A x \in Conn : sock'[x] = "free" <=> sock[x] = "free"
      PROVE  OwnerInv'
  <2>1. \A d \in Caller : pc'[d] \in InHand <=> pc[d] \in InHand
    BY <1>1, <1>c
  <2>2. \A x \in Conn : (Pooled(x)' <=> Pooled(x)) /\ (Taken(x)' <=> Taken(x))
    BY <1>1 DEF Pooled, Taken
  <2> QED BY <1>b, <1>1, <2>1, <2>2 DEF OwnerInv
<1>2. ASSUME NEW c \in Caller, Fail(c), pc[c] \in InHand, UNCHANGED <<pool, held>>
      PROVE  OwnerInv'
  <2>1. held[c] \in Conn
    BY <1>a, <1>2, HeldSocket
  <2>2. sock[held[c]] # "free"
    BY <1>b, <2>1 DEF OwnerInv, Taken
  <2>3. \A x \in Conn : sock'[x] = "free" <=> sock[x] = "free"
    BY <1>2, <1>d, <2>1, <2>2 DEF Fail
  <2>4. "put" \in InHand /\ pc' = [pc EXCEPT ![c] = "put"]
    BY <1>2 DEF Fail, InHand
  <2> QED BY <1>1, <1>2, <2>3, <2>4
<1>3. ASSUME NEW c \in Caller, NEW op \in Ops, GetPooled(c, op)
      PROVE  OwnerInv'
  <2>1. /\ pool # <<>> /\ pool' = Tail(pool)
        /\ held' = [held EXCEPT ![c] = Head(pool)]
        /\ pc' = [pc EXCEPT ![c] = FirstStep(op)]
        /\ sock' = sock
        /\ pc[c] = "idle"
    BY <1>3 DEF GetPooled
  <2>2. /\ Len(pool) >= 1 /\ Len(pool') = Len(pool) - 1 /\ Head(pool) = pool[1]
        /\ \A i \in 1 .. Len(pool') : pool'[i] = pool[i + 1] /\ i + 1 \in 1 .. Len(pool)
        /\ 1 \in 1 .. Len(pool)
        /\ pool[1] \in Conn
    BY <1>e, <2>1
  <2>3. held[c] = None
    BY <1>b, <2>1 DEF OwnerInv, InHand
  <2>4. FirstStep(op) \in InHand
    BY DEF FirstStep, InHand
  <2>5. \A x \in Conn : Pooled(x)' <=> Pooled(x) /\ x # pool[1]
    <3>1. SUFFICES ASSUME NEW x \in Conn PROVE Pooled(x)' <=> Pooled(x) /\ x # pool[1]
      OBVIOUS
    <3>2. ASSUME Pooled(x)' PROVE Pooled(x) /\ x # pool[1]
      <4>1. PICK i \in 1 .. Len(pool') : pool'[i] = x
        BY <3>2 DEF Pooled
      <4>2. i + 1 \in 1 .. Len(pool) /\ pool[i + 1] = x /\ i + 1 # 1
        BY <2>2, <4>1
      <4> QED BY <1>b, <2>2, <4>2 DEF OwnerInv, Pooled
    <3>3. ASSUME Pooled(x), x # pool[1] PROVE Pooled(x)'
      <4>1. PICK j \in 1 .. Len(pool) : pool[j] = x
        BY <3>3 DEF Pooled
      <4>2. j - 1 \in 1 .. Len(pool') /\ (j - 1) + 1 = j
        BY <1>e, <2>2, <3>3, <4>1
      <4>3. pool'[j - 1] = x
        BY <2>2, <4>1, <4>2
      <4> QED BY <4>2, <4>3 DEF Pooled
    <3> QED BY <3>2, <3>3
  <2>6. \A x \in Conn : Taken(x)' <=> Taken(x) \/ x = pool[1]
    BY <1>c, <1>f, <2>1, <2>2, <2>3 DEF Taken
  <2>7. Pooled(pool[1]) /\ ~Taken(pool[1])
    BY <1>b, <2>2 DEF OwnerInv, Pooled
  <2>8. \A i, j \in 1 .. Len(pool') : pool'[i] = pool'[j] => i = j
    <3>1. SUFFICES ASSUME NEW i \in 1 .. Len(pool'), NEW j \in 1 .. Len(pool'), pool'[i] = pool'[j]
                   PROVE  i = j
      OBVIOUS
    <3>2. pool[i + 1] = pool[j + 1] /\ i + 1 \in 1 .. Len(pool) /\ j + 1 \in 1 .. Len(pool)
      BY <2>2, <3>1
    <3>3. i + 1 = j + 1
      BY <1>b, <3>2 DEF OwnerInv
    <3> QED BY <3>3
  <2>9. \A d, e \in Caller : held'[d] = held'[e] /\ held'[d] # None => d = e
    BY <1>b, <1>c, <2>1, <2>2, <2>7 DEF OwnerInv, Taken
  <2>10. \A d \in Caller : pc'[d] \in InHand <=> held'[d] # None
    BY <1>b, <1>c, <1>f, <2>1, <2>2, <2>4 DEF OwnerInv
  <2> QED BY <1>b, <2>1, <2>5, <2>6, <2>7, <2>8, <2>9, <2>10 DEF OwnerInv
<1>4. ASSUME NEW c \in Caller, NEW op \in Ops, GetMiss(c, op)
      PROVE  OwnerInv'
  <2>1. \A d \in Caller : pc'[d] \in InHand <=> pc[d] \in InHand
    BY <1>4, <1>c DEF GetMiss, InHand
  <2>2. UNCHANGED <<pool, sock, held>>
    BY <1>4 DEF GetMiss, client
  <2> QED BY <1>b, <2>1, <2>2 DEF OwnerInv, Pooled, Taken
<1>5. ASSUME NEW c \in Caller, DialOK(c)
      PROVE  OwnerInv'
  <2> DEFINE x == LeastOf(Free)
  <2>1. x \in Conn /\ sock[x] = "free"
    BY <1>a, <1>5, DialFindsOne DEF DialOK
  <2>2. /\ sock' = [sock EXCEPT ![x] = "open"]
        /\ held' = [held EXCEPT ![c] = x]
        /\ pc' = [pc EXCEPT ![c] = FirstStep(req[c])]
        /\ pool' = pool
        /\ pc[c] = "dial"
    BY <1>5 DEF DialOK
  <2> HIDE DEF x
  <2>3. ~Pooled(x) /\ ~Taken(x) /\ x # None
    BY <1>b, <1>f, <2>1 DEF OwnerInv
  <2>4. held[c] = None
    BY <1>b, <2>2 DEF OwnerInv, InHand
  <2>5. FirstStep(req[c]) \in InHand
    BY DEF FirstStep, InHand
  <2>6. \A y \in Conn : (Pooled(y)' <=> Pooled(y)) /\ (Taken(y)' <=> Taken(y) \/ y = x)
    BY <1>c, <1>f, <2>2, <2>4 DEF Pooled, Taken
  <2>7. \A d, e \in Caller : held'[d] = held'[e] /\ held'[d] # None => d = e
    BY <1>b, <1>c, <2>2, <2>3 DEF OwnerInv, Taken
  <2>8. \A d \in Caller : pc'[d] \in InHand <=> held'[d] # None
    BY <1>b, <1>c, <2>2, <2>3, <2>5 DEF OwnerInv
  <2>9. \A y \in Conn : sock'[y] = "free" <=> sock[y] = "free" /\ y # x
    BY <1>d, <2>1, <2>2
  <2> QED BY <1>b, <2>2, <2>3, <2>6, <2>7, <2>8, <2>9 DEF OwnerInv
<1>6. ASSUME NEW c \in Caller, DialFails(c)
      PROVE  OwnerInv'
  <2>1. \A d \in Caller : pc'[d] \in InHand <=> pc[d] \in InHand
    BY <1>6, <1>c DEF DialFails, InHand
  <2>2. UNCHANGED <<pool, sock, held>>
    BY <1>6 DEF DialFails, client
  <2> QED BY <1>b, <2>1, <2>2 DEF OwnerInv, Pooled, Taken
<1>7. ASSUME NEW c \in Caller, Put(c)
      PROVE  OwnerInv'
  <2> DEFINE x == held[c]
  <2>1. x \in Conn
    BY <1>a, <1>7, HeldSocket DEF Put, InHand
  <2>2. /\ held' = [held EXCEPT ![c] = None]
        /\ pc' = [pc EXCEPT ![c] = "idle"]
    BY <1>7 DEF Put
  <2>3. /\ ~Pooled(x) /\ Taken(x) /\ sock[x] # "free" /\ x # None
        /\ \A d \in Caller : held[d] = x => d = c
    BY <1>b, <1>f, <2>1 DEF OwnerInv, Taken
  <2>4. \A y \in Conn : Taken(y)' <=> Taken(y) /\ y # x
    BY <1>c, <1>f, <2>2, <2>3 DEF Taken
  <2>5. \A d, e \in Caller : held'[d] = held'[e] /\ held'[d] # None => d = e
    BY <1>b, <1>c, <2>2 DEF OwnerInv
  <2>6. \A d \in Caller : pc'[d] \in InHand <=> held'[d] # None
    BY <1>b, <1>c, <2>2 DEF OwnerInv, InHand
  <2>7. \/ pool' = pool /\ sock' = [sock EXCEPT ![x] = "free"]
        \/ pool' = Append(pool, x) /\ sock' = sock
    BY <1>7 DEF Put
  <2>8. CASE pool' = pool /\ sock' = [sock EXCEPT ![x] = "free"]
    <3>1. \A y \in Conn : Pooled(y)' <=> Pooled(y)
      BY <2>8 DEF Pooled
    <3>2. \A y \in Conn : sock'[y] = "free" <=> sock[y] = "free" \/ y = x
      BY <1>d, <2>1, <2>8
    <3> QED BY <1>b, <2>3, <2>4, <2>5, <2>6, <2>8, <3>1, <3>2 DEF OwnerInv
  <2>9. CASE pool' = Append(pool, x) /\ sock' = sock
    <3>1. /\ Len(pool') = Len(pool) + 1
          /\ \A i \in 1 .. Len(pool) : pool'[i] = pool[i]
          /\ pool'[Len(pool) + 1] = x
      BY <1>e, <2>9, <2>1
    <3>2. \A i \in 1 .. Len(pool') : i \in 1 .. Len(pool) \/ i = Len(pool) + 1
      BY <1>e, <3>1
    <3>3. \A y \in Conn : Pooled(y)' <=> Pooled(y) \/ y = x
      BY <1>e, <3>1, <3>2 DEF Pooled
    <3>4. \A i \in 1 .. Len(pool) : pool[i] # x
      BY <2>3 DEF Pooled
    <3>5. \A i, j \in 1 .. Len(pool') : pool'[i] = pool'[j] => i = j
      BY <1>b, <3>1, <3>2, <3>4 DEF OwnerInv
    <3> QED BY <1>b, <2>3, <2>4, <2>5, <2>6, <2>9, <3>3, <3>5 DEF OwnerInv
  <2> QED BY <2>7, <2>8, <2>9
<1>8. ASSUME NEW c \in Caller, Send(c) \/ Refuse(c) \/ SendPanics(c) \/ Read(c) \/ Script(c)
      PROVE  OwnerInv'
  <2>1. /\ pc[c] \in InHand
        /\ \E p \in InHand : pc' = [pc EXCEPT ![c] = p]
        /\ UNCHANGED <<pool, held, sock>>
    BY <1>8 DEF Send, Refuse, SendPanics, Read, Script, ReadParams, Branch, StoreBegin, StoreEnd,
                InHand, client
  <2> QED BY <1>1, <2>1
<1>9. CASE UNCHANGED <<pool, sock, held, pc>>
  BY <1>b, <1>9 DEF OwnerInv, Pooled, Taken
<1> QED
  <2>1. CASE \E c \in Caller : SendFails(c) \/ ReadFails(c) \/ ReadTimesOut(c)
    BY <1>2, <2>1 DEF SendFails, ReadFails, ReadTimesOut, InHand
  <2>2. CASE Stop \/ Start \/ Flush \/ (\E x \in Conn : Drop(x)) \/ UNCHANGED vars
    BY <1>9, <2>2 DEF Stop, Start, Flush, Drop, vars, client, caller
  <2> QED
    BY <1>a, <1>3, <1>4, <1>5, <1>6, <1>7, <1>8, <2>1, <2>2 DEF Next, Step, Get, Dial, Exchange

-----------------------------------------------------------------------------
(* Replies. *)

LEMMA ReplyInit == Init => ReplyInv
<1>a. SUFFICES ASSUME Init PROVE ReplyInv
  OBVIOUS
<1>1. /\ inbox = [x \in Conn |-> <<>>]
      /\ pc = [c \in Caller |-> "idle"]
  BY <1>a DEF Init
<1> QED BY <1>1 DEF ReplyInv, RepliesMatch

LEMMA ReplyStep == IInv /\ [Next]_vars => ReplyInv'
<1>a. SUFFICES ASSUME IInv, [Next]_vars PROVE ReplyInv'
  OBVIOUS
<1>b. /\ \A x \in Conn : inbox[x] # <<>> => \E c \in Caller : held[c] = x /\ pc[c] = "await"
      /\ \A c \in Caller :
            pc[c] = "await" =>
                /\ Len(inbox[held[c]]) <= 1
                /\ \A i \in 1 .. Len(inbox[held[c]]) : inbox[held[c]][i].to = c
  BY <1>a DEF IInv, ReplyInv, RepliesMatch
<1>c. pc \in [Caller -> Place] /\ held \in [Caller -> Conn \cup {None}]
  BY <1>a, TypeParts DEF IInv, CallerType
<1>d. inbox \in [Conn -> Seq(Reply)]
  BY <1>a, TypeParts DEF IInv, InboxType
<1>e. /\ \A c \in Caller : pc[c] \in InHand <=> held[c] # None
      /\ \A c, d \in Caller : held[c] = held[d] /\ held[c] # None => c = d
  BY <1>a DEF IInv, OwnerInv
\* Inboxes are emptied, and nobody else stops or starts to wait.
<1>1. ASSUME \A x \in Conn : inbox'[x] = inbox[x] \/ inbox'[x] = <<>>,
             \A c \in Caller : pc'[c] = "await" => pc[c] = "await" /\ held'[c] = held[c],
             \A c \in Caller : pc[c] = "await" =>
                 (pc'[c] = "await" /\ held'[c] = held[c]) \/ inbox'[held[c]] = <<>>
      PROVE  ReplyInv'
  <2>1. \A x \in Conn : inbox'[x] # <<>> => \E c \in Caller : held'[c] = x /\ pc'[c] = "await"
    BY <1>b, <1>1
  <2>2. ASSUME NEW c \in Caller, pc'[c] = "await"
        PROVE  /\ Len(inbox'[held'[c]]) <= 1
               /\ \A i \in 1 .. Len(inbox'[held'[c]]) : inbox'[held'[c]][i].to = c
    <3>1. pc[c] = "await" /\ held'[c] = held[c] /\ held[c] \in Conn
      BY <1>a, <1>1, <2>2, HeldSocket DEF InHand
    <3>2. CASE inbox'[held[c]] = inbox[held[c]]
      BY <1>b, <3>1, <3>2
    <3>3. CASE inbox'[held[c]] = <<>>
      BY <3>1, <3>3
    <3> QED BY <1>1, <3>1, <3>2, <3>3
  <2> QED BY <2>1, <2>2 DEF ReplyInv, RepliesMatch
<1>2. ASSUME NEW c \in Caller, NEW op \in Ops, GetPooled(c, op) \/ GetMiss(c, op)
      PROVE  ReplyInv'
  <2>1. /\ pc[c] = "idle" /\ inbox' = inbox
        /\ \E p \in Place \ {"await"} : pc' = [pc EXCEPT ![c] = p]
        /\ \E h : held' = [held EXCEPT ![c] = h]
    <3>1. CASE GetPooled(c, op)
      BY <3>1 DEF GetPooled, FirstStep, Place
    <3>2. CASE GetMiss(c, op)
      <4>1. held' = [held EXCEPT ![c] = held[c]]
        BY <1>c, <3>2 DEF GetMiss
      <4> QED BY <3>2, <4>1 DEF GetMiss, Place
    <3> QED BY <1>2, <3>1, <3>2
  <2> QED BY <1>1, <1>c, <2>1
<1>3. ASSUME NEW c \in Caller, DialOK(c) \/ DialFails(c) \/ Put(c) \/ SendPanics(c) \/ Script(c)
      PROVE  ReplyInv'
  <2>1. pc[c] # "await" /\ \E p \in Place \ {"await"} : pc' = [pc EXCEPT ![c] = p]
    BY <1>3 DEF DialOK, DialFails, Put, SendPanics, Script, ReadParams, Branch, StoreBegin,
                StoreEnd, FirstStep, Place
  <2>2. \A d \in Caller \ {c} : held'[d] = held[d]
    BY <1>3, <1>c DEF DialOK, DialFails, Put, SendPanics, Script, ReadParams, Branch, StoreBegin,
                StoreEnd
  <2>3. inbox' = inbox \/ \E x : inbox' = [inbox EXCEPT ![x] = <<>>]
    BY <1>3 DEF DialOK, DialFails, Put, SendPanics, Script, ReadParams, Branch, StoreBegin,
                StoreEnd
  <2>4. \A x \in Conn : inbox'[x] = inbox[x] \/ inbox'[x] = <<>>
    BY <1>d, <2>3
  <2> QED BY <1>1, <1>c, <2>1, <2>2, <2>4
<1>4. ASSUME NEW c \in Caller, pc[c] \in {"send", "await"}, pc' = [pc EXCEPT ![c] = "put"]
                               \/ pc' = [pc EXCEPT ![c] = "store"],
             held' = held, inbox' = [inbox EXCEPT ![held[c]] = <<>>]
      PROVE  ReplyInv'
  <2>1. held[c] \in Conn
    BY <1>a, <1>4, HeldSocket DEF InHand
  <2> QED BY <1>1, <1>c, <1>d, <1>4, <2>1
<1>5. ASSUME NEW c \in Caller, SendFails(c) \/ ReadFails(c) \/ ReadTimesOut(c)
      PROVE  ReplyInv'
  BY <1>4, <1>5 DEF SendFails, ReadFails, ReadTimesOut, Fail
<1>6. ASSUME NEW c \in Caller, Read(c)
      PROVE  ReplyInv'
  <2>1. /\ pc[c] = "await" /\ inbox[held[c]] # <<>> /\ held' = held
        /\ inbox' = [inbox EXCEPT ![held[c]] = Tail(inbox[held[c]])]
        /\ pc' = [pc EXCEPT ![c] = "put"] \/ pc' = [pc EXCEPT ![c] = "store"]
    BY <1>6 DEF Read
  <2>2. held[c] \in Conn
    BY <1>a, <2>1, HeldSocket DEF InHand
  <2>3. inbox[held[c]] \in Seq(Reply) /\ Len(inbox[held[c]]) <= 1
    BY <1>b, <1>d, <2>1, <2>2
  <2>4. ASSUME NEW q \in Seq(Reply), q # <<>>, Len(q) <= 1 PROVE Tail(q) = <<>>
    BY <2>4
  <2>5. Tail(inbox[held[c]]) = <<>>
    BY <2>1, <2>3, <2>4
  <2> QED BY <1>4, <2>1, <2>5
<1>7. ASSUME NEW c \in Caller, Send(c) \/ Refuse(c)
      PROVE  ReplyInv'
  <2>0. PICK kind :
           \/ inbox' = inbox
           \/ inbox' = [inbox EXCEPT ![held[c]]
                           = Append(inbox[held[c]], [to |-> c, kind |-> kind])]
    BY <1>7 DEF Send, Refuse
  <2> DEFINE x == held[c]
             m == [to |-> c, kind |-> kind]
  <2>1. /\ pc[c] = "send" /\ held' = held
        /\ pc' = [pc EXCEPT ![c] = "await"]
        /\ inbox' = inbox \/ inbox' = [inbox EXCEPT ![x] = Append(inbox[x], m)]
    BY <1>7, <2>0 DEF Send, Refuse
  <2>2. x \in Conn /\ x # None
    BY <1>a, <2>1, HeldSocket, Sockets DEF InHand
  <2>3. inbox[x] = <<>>
    BY <1>b, <1>e, <2>1, <2>2
  <2>4. m.to = c
    OBVIOUS
  <2> HIDE DEF m
  <2>5. inbox'[x] = <<>> \/ inbox'[x] = <<m>>
    BY <1>d, <2>1, <2>2, <2>3
  <2>6. /\ Len(inbox'[x]) <= 1
        /\ \A i \in 1 .. Len(inbox'[x]) : inbox'[x][i].to = c
    <3>1. CASE inbox'[x] = <<>>
      BY <3>1
    <3>2. CASE inbox'[x] = <<m>>
      BY <2>4, <3>2
    <3> QED BY <2>5, <3>1, <3>2
  <2>7. \A y \in Conn : y # x => inbox'[y] = inbox[y]
    BY <1>d, <2>1, <2>2
  <2>8. \A d \in Caller \ {c} : pc'[d] = pc[d]
    BY <1>c, <2>1
  <2>9. pc'[c] = "await"
    BY <1>c, <2>1
  <2>10. \A y \in Conn : inbox'[y] # <<>> => \E d \in Caller : held'[d] = y /\ pc'[d] = "await"
    BY <1>b, <2>1, <2>7, <2>8, <2>9
  <2>11. ASSUME NEW d \in Caller, pc'[d] = "await", d # c
         PROVE  /\ Len(inbox'[held'[d]]) <= 1
                /\ \A i \in 1 .. Len(inbox'[held'[d]]) : inbox'[held'[d]][i].to = d
    <3>1. pc[d] = "await" /\ held[d] \in Conn
      BY <1>a, <2>8, <2>11, HeldSocket DEF InHand
    <3>2. held[d] # x
      BY <1>e, <2>2, <2>11
    <3> QED BY <1>b, <2>1, <2>7, <3>1, <3>2
  <2> HIDE DEF x
  <2>12. held'[c] = x
    BY <2>1 DEF x
  <2> QED BY <2>6, <2>10, <2>11, <2>12 DEF ReplyInv, RepliesMatch
<1>8. ASSUME UNCHANGED <<pc, held>>, \A x \in Conn : inbox'[x] = inbox[x] \/ inbox'[x] = <<>>
      PROVE  ReplyInv'
  BY <1>1, <1>8
<1>9. CASE Stop
  BY <1>8, <1>9 DEF Stop, caller
<1>10. ASSUME NEW x \in Conn, Drop(x)
       PROVE  ReplyInv'
  BY <1>8, <1>d, <1>10 DEF Drop, caller
<1>11. CASE UNCHANGED <<pc, held, inbox>>
  BY <1>8, <1>11
<1> QED
  BY <1>a, <1>2, <1>3, <1>5, <1>6, <1>7, <1>9, <1>10, <1>11
     DEF Next, Step, Get, Dial, Exchange, Start, Flush, vars, caller

-----------------------------------------------------------------------------
(* Results. *)

\* Every reachable state satisfies the inductive invariant.
THEOREM Invariant == Spec => []IInv
<1>1. Init => IInv
  BY TypeInit, OwnerInit, ReplyInit DEF IInv
<1>2. IInv /\ [Next]_vars => IInv'
  <2>1. SUFFICES ASSUME IInv, [Next]_vars PROVE IInv'
    OBVIOUS
  <2>2. TypeOK'
    BY <2>1, PoolStep, SocketStep, InboxStep, ServerStep, CallerStep
       DEF TypeOK, PoolType, SocketType, InboxType, ServerType, CallerType
  <2>3. CommandInv' /\ OwnerInv' /\ ReplyInv'
    BY <2>1, CommandStep, OwnerStep, ReplyStep
  <2> QED BY <2>2, <2>3 DEF IInv
<1> QED BY <1>1, <1>2, PTL DEF Spec

\* The state of the client and its environment is well typed; in particular the
\* pool never holds more than MAX_ACTIVE connections.
THEOREM TypeCorrect == Spec => []TypeOK
<1>1. IInv => TypeOK
  BY DEF IInv
<1> QED BY <1>1, Invariant, PTL

\* Each socket is in the pool once or in the hands of one caller, and none is
\* lost: through failed dials, failed exchanges, panics and a full pool.
THEOREM OneOwnerHolds == Spec => []OneOwner
<1>1. ASSUME IInv PROVE OneOwner
  <2>1. SUFFICES ASSUME NEW x \in Conn
                 PROVE  Cardinality({i \in 1 .. Len(pool) : pool[i] = x})
                            + Cardinality({c \in Caller : held[c] = x})
                        = IF sock[x] = "free" THEN 0 ELSE 1
    BY DEF OneOwner
  <2> DEFINE places == {i \in 1 .. Len(pool) : pool[i] = x}
             owners == {c \in Caller : held[c] = x}
  <2>2. Cardinality(places) = IF Pooled(x) THEN 1 ELSE 0
    <3>1. CASE Pooled(x)
      <4>1. PICK i \in 1 .. Len(pool) : pool[i] = x
        BY <3>1 DEF Pooled
      <4>2. places = {i}
        BY <1>1, <4>1 DEF IInv, OwnerInv
      <4> QED BY <3>1, <4>2, FS_Singleton
    <3>2. CASE ~Pooled(x)
      <4>1. places = {}
        BY <3>2 DEF Pooled
      <4> QED BY <3>2, <4>1, FS_EmptySet
    <3> QED BY <3>1, <3>2
  <2>3. Cardinality(owners) = IF Taken(x) THEN 1 ELSE 0
    <3>1. CASE Taken(x)
      <4>1. PICK c \in Caller : held[c] = x
        BY <3>1 DEF Taken
      <4>2. x # None
        BY Sockets
      <4>3. owners = {c}
        BY <1>1, <4>1, <4>2 DEF IInv, OwnerInv
      <4> QED BY <3>1, <4>3, FS_Singleton
    <3>2. CASE ~Taken(x)
      <4>1. owners = {}
        BY <3>2 DEF Taken
      <4> QED BY <3>2, <4>1, FS_EmptySet
    <3> QED BY <3>1, <3>2
  <2>4. /\ ~(Pooled(x) /\ Taken(x))
        /\ sock[x] = "free" <=> ~Pooled(x) /\ ~Taken(x)
    BY <1>1 DEF IInv, OwnerInv
  <2> HIDE DEF places, owners
  <2>5. Cardinality(places) + Cardinality(owners) = IF sock[x] = "free" THEN 0 ELSE 1
    BY <2>2, <2>3, <2>4
  <2> QED BY <2>5 DEF places, owners
<1> QED BY <1>1, Invariant, PTL

\* Whatever was abandoned on a connection before, the reply that a caller reads
\* is the reply to the command it sent.
THEOREM RepliesMatchHold == Spec => []RepliesMatch
<1>1. IInv => RepliesMatch
  BY DEF IInv, ReplyInv
<1> QED BY <1>1, Invariant, PTL

-----------------------------------------------------------------------------
(* A warm client. *)

LEMMA CalmInit == Init => CalmInv
<1>a. SUFFICES ASSUME Init, calm PROVE CalmInv
  BY DEF CalmInv
<1>1. PICK n \in 0 .. MaxActive :
        /\ calm = up
        /\ sock = [x \in Conn |-> IF x <= n THEN "open" ELSE "free"]
        /\ alive = 1 .. n
  BY <1>a DEF Init
<1>2. /\ scriptSha = ""
      /\ pc = [c \in Caller |-> "idle"]
      /\ sha = [c \in Caller |-> ""]
  BY <1>a DEF Init
<1>3. up
  BY <1>a, <1>1
<1>4. \A x \in Conn : sock[x] # "free" => sock[x] = "open" /\ x \in alive
  <2>1. SUFFICES ASSUME NEW x \in Conn, sock[x] # "free" PROVE sock[x] = "open" /\ x \in alive
    OBVIOUS
  <2>2. x \in Nat /\ x >= 1
    BY Sockets DEF Conn
  <2>3. x <= n /\ sock[x] = "open"
    BY <1>1, <2>1
  <2> QED BY <1>1, <2>2, <2>3
<1>5. \A c \in Caller : WarmInv(c)
  BY <1>2 DEF WarmInv
<1> QED BY <1>2, <1>3, <1>4, <1>5 DEF CalmInv

\* The callers that a step is not about.
LEMMA WarmOthers ==
    ASSUME NEW d \in Caller, WarmInv(d), loaded => loaded',
           pc'[d] = pc[d], req'[d] = req[d], sha'[d] = sha[d], outcome'[d] = outcome[d],
           held'[d] = held[d],
           pc[d] = "await" => inbox'[held[d]] = inbox[held[d]] \/ inbox'[held[d]] = <<>>
    PROVE  WarmInv(d)'
<1>1. ASSUME pc[d] = "await", sha[d] = "sha"
      PROVE  \A i \in 1 .. Len(inbox'[held'[d]]) : inbox'[held'[d]][i].kind = "array"
  <2>1. \A i \in 1 .. Len(inbox[held[d]]) : inbox[held[d]][i].kind = "array"
    BY <1>1 DEF WarmInv
  <2>2. CASE inbox'[held[d]] = inbox[held[d]]
    BY <2>1, <2>2
  <2>3. CASE inbox'[held[d]] = <<>>
    BY <2>3
  <2> QED BY <1>1, <2>2, <2>3
<1> QED BY <1>1 DEF WarmInv

LEMMA CalmStep ==
    ASSUME Spread
    PROVE  IInv /\ CalmInv /\ [Next]_vars => CalmInv'
<1>a. SUFFICES ASSUME IInv, CalmInv, [Next]_vars, calm' PROVE CalmInv'
  BY DEF CalmInv
<1>b. calm
  BY <1>a DEF Next, Step, Get, Dial, Exchange, Script, GetPooled, GetMiss, DialOK,
         DialFails, Send, SendFails, SendPanics, Read, ReadFails, ReadTimesOut, ReadParams,
         Branch, StoreBegin, StoreEnd, Put, Stop, Start, Flush, Drop, Refuse, Fault, vars, server
<1>c. /\ up
      /\ \A x \in Conn : sock[x] # "free" => sock[x] = "open" /\ x \in alive
      /\ scriptSha # "" => loaded
      /\ \A c \in Caller : WarmInv(c)
  BY <1>a, <1>b DEF CalmInv
<1>d. CallerType /\ InboxType /\ SocketType
  BY <1>a, TypeParts DEF IInv
<1>e. /\ \A c, d \in Caller : held[c] = held[d] /\ held[c] # None => c = d
      /\ \A c \in Caller : pc[c] \in InHand => held[c] \in Conn /\ held[c] # None
      /\ \A c \in Caller : pc[c] \in InHand => sock[held[c]] # "free"
  <2>1. \A c \in Caller : pc[c] \in InHand => held[c] \in Conn /\ held[c] # None
    BY <1>a, HeldSocket, Sockets
  <2> QED BY <1>a, <2>1 DEF IInv, OwnerInv, Taken
<1>f. \A c \in Caller : pc[c] \in InHand => sock[held[c]] = "open" /\ held[c] \in alive
  BY <1>c, <1>e
\* What is left to show of a step of c.
<1>1. ASSUME NEW c \in Caller, up', loaded => loaded',
             \A x \in Conn : sock'[x] # "free" => sock'[x] = "open" /\ x \in alive',
             scriptSha' # "" => loaded',
             WarmInv(c)',
             \A d \in Caller \ {c} :
                 /\ pc'[d] = pc[d] /\ req'[d] = req[d] /\ sha'[d] = sha[d]
                 /\ outcome'[d] = outcome[d] /\ held'[d] = held[d]
                 /\ pc[d] = "await" => inbox'[held[d]] = inbox[held[d]] \/ inbox'[held[d]] = <<>>
      PROVE  CalmInv'
  <2>1. \A d \in Caller \ {c} : WarmInv(d)'
    BY <1>c, <1>1, WarmOthers
  <2> QED BY <1>1, <2>1 DEF CalmInv
<1>2. ASSUME NEW c \in Caller, NEW op \in Ops, GetPooled(c, op) \/ GetMiss(c, op)
      PROVE  CalmInv'
  <2>1. /\ up' = up /\ loaded' = loaded /\ sock' = sock /\ alive' = alive /\ scriptSha' = scriptSha
        /\ inbox' = inbox /\ sha' = sha /\ outcome' = outcome /\ pc[c] = "idle"
    BY <1>2 DEF GetPooled, GetMiss, client, server
  <2>2. pc'[c] \in {"params", "send", "dial"}
    BY <1>2, <1>d DEF GetPooled, GetMiss, FirstStep, CallerType
  <2>3. WarmInv(c)'
    <3>1. sha'[c] = ""
      BY <1>c, <2>1 DEF WarmInv
    <3> QED BY <2>2, <3>1 DEF WarmInv
  <2>4. \A d \in Caller \ {c} : pc'[d] = pc[d] /\ req'[d] = req[d] /\ held'[d] = held[d]
    BY <1>2, <1>d DEF GetPooled, GetMiss, CallerType
  <2> QED BY <1>1, <1>c, <2>1, <2>3, <2>4
<1>3. ASSUME NEW c \in Caller, DialOK(c)
      PROVE  CalmInv'
  <2> DEFINE x == LeastOf(Free)
  <2>1. x \in Conn /\ sock[x] = "free"
    BY <1>a, <1>3, DialFindsOne DEF DialOK
  <2>2. /\ sock' = [sock EXCEPT ![x] = "open"]
        /\ alive' = alive \cup {x}
        /\ inbox' = [inbox EXCEPT ![x] = <<>>]
        /\ held' = [held EXCEPT ![c] = x]
        /\ pc' = [pc EXCEPT ![c] = FirstStep(req[c])]
        /\ pc[c] = "dial"
        /\ up' = up /\ loaded' = loaded /\ scriptSha' = scriptSha
        /\ sha' = sha /\ outcome' = outcome /\ req' = req
    BY <1>3 DEF DialOK, server
  <2> HIDE DEF x
  <2>3. WarmInv(c)'
    <3>1. sha'[c] = ""
      BY <1>c, <2>2 DEF WarmInv
    <3>2. pc'[c] \in {"params", "send"}
      BY <1>d, <2>2 DEF FirstStep, CallerType
    <3> QED BY <3>1, <3>2 DEF WarmInv
  <2>4. \A y \in Conn : sock'[y] # "free" => sock'[y] = "open" /\ y \in alive'
    BY <1>c, <1>d, <2>1, <2>2 DEF SocketType
  <2>5. \A d \in Caller \ {c} : pc'[d] = pc[d] /\ held'[d] = held[d]
    BY <1>d, <2>2 DEF CallerType
  <2>6. \A d \in Caller : pc[d] = "await" => inbox'[held[d]] = inbox[held[d]] \/ inbox'[held[d]] = <<>>
    BY <1>d, <1>e, <2>2 DEF InboxType, InHand
  <2> QED BY <1>1, <1>c, <2>2, <2>3, <2>4, <2>5, <2>6
<1>4. ASSUME NEW c \in Caller, DialFails(c) \/ SendFails(c) \/ ReadFails(c)
      PROVE  FALSE
  BY <1>c, <1>f, <1>4 DEF DialFails, SendFails, ReadFails, InHand
<1>5. ASSUME NEW c \in Caller, Put(c)
      PROVE  CalmInv'
  <2>1. /\ pc[c] = "put"
        /\ pc' = [pc EXCEPT ![c] = "idle"]
        /\ held' = [held EXCEPT ![c] = None]
        /\ sha' = [sha EXCEPT ![c] = ""]
        /\ up' = up /\ loaded' = loaded /\ scriptSha' = scriptSha
        /\ outcome' = outcome /\ req' = req
        /\ \/ /\ sock' = [sock EXCEPT ![held[c]] = "free"]
              /\ alive' = alive \ {held[c]}
              /\ inbox' = [inbox EXCEPT ![held[c]] = <<>>]
           \/ UNCHANGED <<sock, alive, inbox>>
    BY <1>5 DEF Put, server
  <2>2. WarmInv(c)'
    BY <1>d, <2>1 DEF WarmInv, CallerType
  <2>3. \A y \in Conn : sock'[y] # "free" => sock'[y] = "open" /\ y \in alive'
    BY <1>c, <1>d, <1>e, <2>1 DEF SocketType, InHand
  <2>4. \A d \in Caller \ {c} : pc'[d] = pc[d] /\ held'[d] = held[d] /\ sha'[d] = sha[d]
    BY <1>d, <2>1 DEF CallerType
  <2>5. \A d \in Caller : pc[d] = "await" => inbox'[held[d]] = inbox[held[d]] \/ inbox'[held[d]] = <<>>
    BY <1>d, <1>e, <2>1 DEF InboxType, InHand
  <2> QED BY <1>1, <1>c, <2>1, <2>2, <2>3, <2>4, <2>5
<1>6. ASSUME NEW c \in Caller, Send(c)
      PROVE  CalmInv'
  <2> DEFINE x == held[c]
             m == [to |-> c, kind |-> Answer(c)]
  <2>1. /\ pc[c] = "send" /\ sha[c] # "torn"
        /\ inbox' = [inbox EXCEPT ![x] = Append(inbox[x], m)]
        /\ loaded' = (loaded \/ req[c] = "load")
        /\ pc' = [pc EXCEPT ![c] = "await"]
        /\ up' = up /\ scriptSha' = scriptSha /\ sock' = sock /\ alive' = alive
        /\ outcome' = outcome /\ req' = req /\ sha' = sha /\ held' = held
    BY <1>6, <1>f DEF Send, InHand, client
  <2>2. x \in Conn /\ x # None
    BY <1>e, <2>1 DEF InHand
  <2>3. inbox[x] = <<>>
    BY <1>a, <1>e, <2>1, <2>2 DEF IInv, ReplyInv
  <2>4. sha[c] = "sha" => m.kind = "array" /\ req[c] = "eval"
    <3>1. sha[c] = "sha" => req[c] = "eval" /\ loaded
      BY <1>c, <2>1 DEF WarmInv
    <3> QED BY <3>1 DEF Answer
  <2>5. pc'[c] = "await" /\ \A d \in Caller \ {c} : pc'[d] = pc[d]
    BY <1>d, <2>1 DEF CallerType
  <2> HIDE DEF m
  <2>6. inbox'[x] = <<m>>
    BY <1>d, <2>1, <2>2, <2>3 DEF InboxType
  <2>7. sha[c] = "sha" => \A i \in 1 .. Len(inbox'[held'[c]]) : inbox'[held'[c]][i].kind = "array"
    BY <2>1, <2>4, <2>6
  <2>8. WarmInv(c)'
    <3>1. sha[c] # "" => loaded
      BY <1>c DEF WarmInv
    <3> QED BY <2>1, <2>4, <2>5, <2>7, <3>1 DEF WarmInv
  <2>9. \A d \in Caller \ {c} : pc[d] = "await" => inbox'[held[d]] = inbox[held[d]]
    BY <1>d, <1>e, <2>1, <2>2 DEF InboxType, InHand
  <2> HIDE DEF x
  <2> QED BY <1>1, <1>c, <2>1, <2>5, <2>8, <2>9
<1>7. ASSUME NEW c \in Caller, SendPanics(c)
      PROVE  CalmInv'
  <2>1. /\ pc[c] = "send" /\ sha[c] = "torn"
        /\ pc' = [pc EXCEPT ![c] = "put"]
        /\ outcome' = [outcome EXCEPT ![c] = "panic"]
        /\ up' = up /\ scriptSha' = scriptSha /\ sock' = sock /\ alive' = alive
        /\ inbox' = inbox /\ req' = req /\ sha' = sha /\ held' = held /\ loaded' = loaded
    BY <1>7 DEF SendPanics, client, server
  <2>2. pc'[c] = "put" /\ \A d \in Caller \ {c} : pc'[d] = pc[d] /\ outcome'[d] = outcome[d]
    BY <1>d, <2>1 DEF CallerType
  <2>3. WarmInv(c)'
    <3>1. loaded
      BY <1>c, <2>1 DEF WarmInv
    <3> QED BY <2>1, <2>2, <3>1 DEF WarmInv
  <2> QED BY <1>1, <1>c, <2>1, <2>2, <2>3
<1>8. ASSUME NEW c \in Caller, Read(c)
      PROVE  CalmInv'
  <2> DEFINE x == held[c]
  <2>1. /\ pc[c] = "await" /\ inbox[x] # <<>>
        /\ inbox' = [inbox EXCEPT ![x] = Tail(inbox[x])]
        /\ \/ /\ req[c] = "load"
              /\ pc' = [pc EXCEPT ![c] = "store"]
              /\ outcome' = outcome
           \/ /\ pc' = [pc EXCEPT ![c] = "put"]
              /\ outcome' = [outcome EXCEPT ![c] = Verdict(c, Head(inbox[x]).kind)]
        /\ up' = up /\ scriptSha' = scriptSha /\ sock' = sock /\ alive' = alive
        /\ req' = req /\ sha' = sha /\ held' = held /\ loaded' = loaded
    BY <1>8 DEF Read, client, server
  <2>2. x \in Conn /\ x # None
    BY <1>e, <2>1 DEF InHand
  <2>3. sha[c] = "sha" => req[c] = "eval" /\ Verdict(c, Head(inbox[x]).kind) = "ok"
    <3>1. SUFFICES ASSUME sha[c] = "sha"
                   PROVE  req[c] = "eval" /\ Verdict(c, Head(inbox[x]).kind) = "ok"
      OBVIOUS
    <3>2. req[c] = "eval" /\ \A i \in 1 .. Len(inbox[x]) : inbox[x][i].kind = "array"
      BY <1>c, <2>1, <3>1 DEF WarmInv
    <3>3. inbox[x] \in Seq(Reply)
      BY <1>d, <2>2 DEF InboxType
    <3>4. 1 \in 1 .. Len(inbox[x]) /\ Head(inbox[x]) = inbox[x][1]
      BY <2>1, <3>3
    <3>5. Head(inbox[x]).kind = "array"
      BY <3>2, <3>4
    <3> QED BY <3>2, <3>5 DEF Verdict
  <2>4. \A d \in Caller \ {c} : pc'[d] = pc[d] /\ outcome'[d] = outcome[d]
    BY <1>d, <2>1 DEF CallerType
  <2>5. WarmInv(c)'
    <3>1. sha[c] # "" => loaded
      BY <1>c DEF WarmInv
    <3>2. CASE req[c] = "load" /\ pc' = [pc EXCEPT ![c] = "store"]
      <4>1. pc'[c] = "store"
        BY <1>d, <3>2 DEF CallerType
      <4>2. loaded
        BY <1>c, <2>1, <3>2 DEF WarmInv
      <4> QED BY <2>1, <4>1, <4>2 DEF WarmInv
    <3>3. CASE /\ pc' = [pc EXCEPT ![c] = "put"]
               /\ outcome' = [outcome EXCEPT ![c] = Verdict(c, Head(inbox[x]).kind)]
      <4>1. pc'[c] = "put" /\ outcome'[c] = Verdict(c, Head(inbox[x]).kind)
        BY <1>d, <3>3 DEF CallerType
      <4> QED BY <2>1, <2>3, <3>1, <4>1 DEF WarmInv
    <3> QED BY <2>1, <3>2, <3>3
  <2>6. \A d \in Caller \ {c} : pc[d] = "await" => inbox'[held[d]] = inbox[held[d]]
    BY <1>d, <1>e, <2>1, <2>2 DEF InboxType, InHand
  <2> HIDE DEF x
  <2> QED BY <1>1, <1>c, <2>1, <2>4, <2>5, <2>6
<1>9. ASSUME NEW c \in Caller, Script(c)
      PROVE  CalmInv'
  <2>1. /\ up' = up /\ sock' = sock /\ alive' = alive /\ inbox' = inbox /\ held' = held
        /\ loaded' = loaded /\ outcome' = outcome
    BY <1>9 DEF Script, ReadParams, Branch, StoreBegin, StoreEnd, client, server
  <2>2. \A d \in Caller \ {c} : pc'[d] = pc[d] /\ req'[d] = req[d] /\ sha'[d] = sha[d]
    BY <1>9, <1>d DEF Script, ReadParams, Branch, StoreBegin, StoreEnd, CallerType
  <2>3. CASE ReadParams(c)
    <3>1. pc'[c] = "branch" /\ scriptSha' = scriptSha /\ sha'[c] \in ShaSeen
      BY <1>d, <2>3 DEF ReadParams, client, CallerType
    <3>2. sha'[c] # "" => loaded
      BY <1>c, <3>1 DEF ShaSeen
    <3>3. WarmInv(c)'
      BY <2>1, <3>1, <3>2 DEF WarmInv
    <3> QED BY <1>1, <1>c, <2>1, <2>2, <3>1, <3>3
  <2>4. CASE Branch(c)
    <3>1. /\ pc'[c] = "send" /\ scriptSha' = scriptSha
          /\ \/ req'[c] = "load" /\ sha'[c] = ""
             \/ req'[c] = "eval" /\ sha'[c] = sha[c]
      BY <1>d, <2>4 DEF Branch, client, CallerType
    <3>2. sha[c] # "" => loaded
      BY <1>c DEF WarmInv
    <3>3. WarmInv(c)'
      BY <2>1, <3>1, <3>2 DEF WarmInv
    <3> QED BY <1>1, <1>c, <2>1, <2>2, <3>1, <3>3
  <2>5. CASE StoreBegin(c)
    <3>1. /\ pc[c] = "store" /\ pc'[c] = "stored" /\ sha' = sha
      BY <1>d, <2>5 DEF StoreBegin, CallerType
    <3>2. loaded
      BY <1>c, <3>1 DEF WarmInv
    <3>3. WarmInv(c)'
      BY <2>1, <3>1, <3>2 DEF WarmInv
    <3> QED BY <1>1, <1>c, <2>1, <2>2, <3>2, <3>3
  <2>6. CASE StoreEnd(c)
    <3>1. /\ pc[c] = "stored" /\ pc'[c] = "send" /\ req'[c] = "eval"
      BY <1>d, <2>6 DEF StoreEnd, CallerType
    <3>2. loaded
      BY <1>c, <3>1 DEF WarmInv
    <3>3. WarmInv(c)'
      BY <2>1, <3>1, <3>2 DEF WarmInv
    <3> QED BY <1>1, <1>c, <2>1, <2>2, <3>2, <3>3
  <2> QED BY <1>9, <2>3, <2>4, <2>5, <2>6 DEF Script
<1>10. ASSUME NEW kind, Fault(kind)
       PROVE  FALSE
  BY <1>a, <1>10 DEF Fault
<1>11. CASE \E c \in Caller : ReadTimesOut(c)
  BY <1>a, <1>11 DEF ReadTimesOut
<1>12. CASE Stop \/ Flush \/ (\E x \in Conn : Drop(x)) \/ \E c \in Caller : Refuse(c)
  BY <1>10, <1>12 DEF Stop, Flush, Drop, Refuse
<1>13. CASE Start
  BY <1>c, <1>13 DEF Start
<1>14. CASE UNCHANGED vars
  <2>1. \A c \in Caller : WarmInv(c)'
    BY <1>c, <1>14 DEF vars, caller, server, client, WarmInv
  <2> QED BY <1>c, <1>14, <2>1 DEF vars, server, client, CalmInv
<1> QED
  BY <1>a, <1>2, <1>3, <1>4, <1>5, <1>6, <1>7, <1>8, <1>9, <1>11, <1>12, <1>13, <1>14
     DEF Next, Step, Get, Dial, Exchange

\* While Redis is up and undisturbed, a call that sends the sha succeeds, however
\* many callers race with it; given that the build passes the script's arguments
\* one by one (a build that does not is the business of the run client_args).
THEOREM WarmNeverErrorsHolds ==
    ASSUME Spread
    PROVE  Spec => []WarmNeverErrors
<1>1. Init => CalmInv
  BY CalmInit
<1>2. IInv /\ CalmInv /\ [Next]_vars => CalmInv'
  BY CalmStep
<1>3. CalmInv => WarmNeverErrors
  BY DEF CalmInv, WarmInv, WarmNeverErrors
<1> QED BY <1>1, <1>2, <1>3, Invariant, PTL DEF Spec

=============================================================================
