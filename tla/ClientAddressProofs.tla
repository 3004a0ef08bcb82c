------------------------ MODULE ClientAddressProofs ------------------------
(***************************************************************************)
(* Theorems about ClientAddress: the walk over X-Forwarded-For, the depth, *)
(* the pool and the aggregation, for chains of any length and any rules.   *)
(***************************************************************************)
EXTENDS ClientAddress, WellFoundedInduction, TLAPS

LEMMA Least ==
    ASSUME NEW T \in SUBSET Nat, T # {}
    PROVE  \E x \in T : \A y \in T : x <= y
<1>1. PICK x \in T : \A y \in T : ~(<<y, x>> \in OpToRel(<, Nat))
  BY NatLessThanWellFounded, WFMin
<1>2. \A y \in T : ~(y < x)
  BY <1>1 DEF OpToRel
<1> QED BY <1>2

\* A nonempty set of positions has a last one.
LEMMA Greatest ==
    ASSUME NEW n \in Nat, NEW T \in SUBSET (1 .. n), T # {}
    PROVE  \E x \in T : \A y \in T : y <= x
<1> DEFINE U == {m \in Nat : \E y \in T : m = n - y}
<1>1. U # {}
  <2>1. PICK y \in T : TRUE
    OBVIOUS
  <2>2. n - y \in Nat /\ n - y \in U
    BY <2>1
  <2> QED BY <2>2
<1>2. PICK u \in U : \A v \in U : u <= v
  <2> HIDE DEF U
  <2>1. U \in SUBSET Nat
    BY DEF U
  <2> QED BY <1>1, <2>1, Least
<1>3. PICK x \in T : u = n - x
  OBVIOUS
<1>4. ASSUME NEW y \in T PROVE y <= x
  <2>1. n - y \in U
    OBVIOUS
  <2> QED BY <2>1, <1>2, <1>3
<1> QED BY <1>4

-----------------------------------------------------------------------------
(* Where the walk stops. *)

\* X-Forwarded-For, split and trimmed.
Chains == Seq(Texts)


\* The walk stops if it meets anything that is not ours.
LEMMA StopExists ==
    ASSUME NEW rules, NEW xff \in Chains,
           NEW e \in 1 .. Len(xff), ~Ours(rules, xff[e])
    PROVE  \E i \in 1 .. Len(xff) : WalkStopsAt(rules, xff, i)
<1> DEFINE foreign == {i \in 1 .. Len(xff) : ~Ours(rules, xff[i])}
<1>1. PICK i \in foreign : \A j \in foreign : j <= i
  <2>1. foreign \in SUBSET (1 .. Len(xff)) /\ foreign # {}
    OBVIOUS
  <2>2. Len(xff) \in Nat
    BY DEF Chains
  <2> HIDE DEF foreign
  <2> QED BY <2>1, <2>2, Greatest
<1>2. \A j \in (i + 1) .. Len(xff) : Ours(rules, xff[j])
  <2> SUFFICES ASSUME NEW j \in (i + 1) .. Len(xff), ~Ours(rules, xff[j]) PROVE FALSE
    OBVIOUS
  <2>1. j \in foreign
    OBVIOUS
  <2> QED BY <1>1, <2>1
<1> QED BY <1>1, <1>2 DEF WalkStopsAt

\* It stops in one place only.
LEMMA StopUnique ==
    ASSUME NEW rules, NEW xff \in Chains,
           NEW i, WalkStopsAt(rules, xff, i), NEW j, WalkStopsAt(rules, xff, j)
    PROVE  i = j
BY DEF WalkStopsAt, Chains

LEMMA ExitAtStop ==
    ASSUME NEW rules, NEW xff \in Chains, NEW peer,
           NEW i, WalkStopsAt(rules, xff, i)
    PROVE  Exit(rules, peer, xff) =
               IF Normalises(xff[i]) THEN Derived(NormaliseEntry(xff[i]), "xff")
               ELSE Derived(peer, "peer-malformed")
<1>1. i \in 1 .. Len(xff)
  BY DEF WalkStopsAt
<1>2. (CHOOSE j \in 1 .. Len(xff) : WalkStopsAt(rules, xff, j)) = i
  BY <1>1, StopUnique
<1> QED BY <1>1, <1>2 DEF Exit

\* The last entries of long are those of xff, after k others.
EndsWith(long, k, xff) ==
    /\ Len(long) = k + Len(xff)
    /\ \A i \in 1 .. Len(xff) : long[k + i] = xff[i]

LEMMA Concatenation ==
    ASSUME NEW s \in Chains, NEW t \in Chains
    PROVE  /\ s \o t \in Chains
           /\ Len(s) \in Nat
           /\ EndsWith(s \o t, Len(s), t)
BY DEF Chains, EndsWith

\* What is written in front of a chain does not move the stop.
LEMMA StopShifts ==
    ASSUME NEW rules, NEW long \in Chains, NEW xff \in Chains, NEW k \in Nat,
           EndsWith(long, k, xff),
           NEW i \in 1 .. Len(xff), WalkStopsAt(rules, xff, i)
    PROVE  WalkStopsAt(rules, long, k + i) /\ long[k + i] = xff[i]
<1>1. Len(xff) \in Nat
  BY DEF Chains
<1>2. ASSUME NEW j \in (k + i + 1) .. Len(long) PROVE Ours(rules, long[j])
  <2>1. j - k \in (i + 1) .. Len(xff) /\ j - k \in 1 .. Len(xff)
    BY <1>1 DEF EndsWith
  <2>2. long[k + (j - k)] = xff[j - k]
    BY <2>1 DEF EndsWith
  <2>3. k + (j - k) = j
    BY <1>1
  <2> QED BY <2>1, <2>2, <2>3 DEF WalkStopsAt
<1> QED BY <1>1, <1>2 DEF WalkStopsAt, EndsWith

LEMMA NotBlankStays ==
    ASSUME NEW long \in Chains, NEW xff \in Chains, NEW k \in Nat, EndsWith(long, k, xff),
           xff # <<>>, xff # <<Blank>>
    PROVE  long # <<Blank>>
<1> SUFFICES ASSUME long = <<Blank>> PROVE FALSE
  OBVIOUS
<1>1. Len(long) = 1 /\ long[1] = Blank
  OBVIOUS
<1>2. Len(xff) \in Nat /\ Len(xff) # 0
  BY DEF Chains
<1>3. Len(xff) = 1 /\ k = 0
  <2>1. Len(long) = k + Len(xff)
    BY DEF EndsWith
  <2>2. \A m, n \in Nat : 1 = m + n /\ n # 0 => n = 1 /\ m = 0
    OBVIOUS
  <2>3. 1 = k + Len(xff)
    BY <1>1, <2>1, Zenon
  <2> QED BY <1>2, <2>2, <2>3, Zenon
<1>4. long[0 + 1] = xff[1]
  BY <1>3 DEF EndsWith
<1>5. xff = <<Blank>>
  BY <1>1, <1>3, <1>4 DEF Chains
<1> QED BY <1>5

\* The same for what the loop returns.
LEMMA ExitShifts ==
    ASSUME NEW rules, NEW peer, NEW long \in Chains, NEW xff \in Chains, NEW k \in Nat,
           EndsWith(long, k, xff),
           NEW e \in 1 .. Len(xff), ~Ours(rules, xff[e])
    PROVE  Exit(rules, peer, long) = Exit(rules, peer, xff)
<1>1. PICK i \in 1 .. Len(xff) : WalkStopsAt(rules, xff, i)
  BY StopExists
<1>2. WalkStopsAt(rules, long, k + i) /\ long[k + i] = xff[i]
  BY <1>1, StopShifts
<1> QED BY <1>1, <1>2, ExitAtStop

\* Once the chain holds anything that is not ours, or the peer is not, nothing
\* that a client writes in front of the chain changes what Resolve returns, as long
\* as the chain stays within maxXFFEntries.
THEOREM PrependedToWalk ==
    ASSUME NEW rules, NEW remote,
           NEW extra \in Chains, NEW xff \in Chains,
           xff # <<>>, xff # <<Blank>>, Len(extra) + Len(xff) <= MaxXFFEntries,
           \/ ~Contains(rules, HostOf(remote))
           \/ \E e \in 1 .. Len(xff) : ~Ours(rules, xff[e])
    PROVE  Resolve(rules, remote, extra \o xff) = Resolve(rules, remote, xff)
<1>1. CASE ~Contains(rules, HostOf(remote))
  BY <1>1 DEF Resolve
<1>2. CASE \E e \in 1 .. Len(xff) : ~Ours(rules, xff[e])
  <2>1. PICK long, k : long = extra \o xff /\ k = Len(extra)
    OBVIOUS
  <2>2. long \in Chains /\ k \in Nat /\ EndsWith(long, k, xff)
    BY <2>1, Concatenation
  <2>3. Len(long) <= MaxXFFEntries /\ Len(xff) <= MaxXFFEntries
    BY <2>1, <2>2, EntriesAssumption DEF EndsWith, Chains
  <2>4. Exit(rules, HostOf(remote), long) = Exit(rules, HostOf(remote), xff)
    BY <1>2, <2>2, ExitShifts
  <2>5. long # <<Blank>>
    BY <2>2, NotBlankStays
  <2>6. Resolve(rules, remote, long) = Resolve(rules, remote, xff)
    BY <2>3, <2>4, <2>5, EntriesAssumption DEF Resolve
  <2> QED BY <2>1, <2>6
<1> QED BY <1>1, <1>2

-----------------------------------------------------------------------------
(* The depth and the pool. *)

\* A chain that is long enough for the depth is not affected by what is in front.
THEOREM PrependedToDepth ==
    ASSUME NEW depth \in Nat \ {0}, NEW extra \in Chains, NEW xff \in Chains,
           Len(xff) >= depth
    PROVE  Depth(depth, extra \o xff) = Depth(depth, xff)
<1>1. PICK long, k : long = extra \o xff /\ k = Len(extra)
  OBVIOUS
<1>2. k \in Nat /\ EndsWith(long, k, xff) /\ Len(xff) \in Nat
  BY <1>1, Concatenation DEF Chains
<1>3. Len(xff) - depth + 1 \in 1 .. Len(xff)
  BY <1>2
<1>4. PICK e \in 1 .. Len(xff) : e = Len(xff) - depth + 1
  BY <1>3, Zenon
<1>5. Len(long) = k + Len(xff) /\ long[k + e] = xff[e]
  BY <1>2 DEF EndsWith
<1>6. Len(long) - depth + 1 = k + e /\ ~(Len(long) < depth)
  BY <1>2, <1>4, <1>5
<1>7. Depth(depth, long) = long[k + e]
  BY <1>6 DEF Depth
<1>8. Depth(depth, xff) = xff[e]
  BY <1>2, <1>4 DEF Depth
<1> QED BY <1>1, <1>5, <1>7, <1>8

\* An entry of the pool, or an empty one.
Passed(rules, entry) == entry = Blank \/ Contains(rules, entry)

LEMMA PoolUnique ==
    ASSUME NEW rules, NEW xff \in Chains,
           NEW i \in 1 .. Len(xff), PoolStopsAt(rules, xff, i)
    PROVE  Pool(rules, xff) = xff[i]
<1>1. ASSUME NEW j \in 1 .. Len(xff), PoolStopsAt(rules, xff, j) PROVE j = i
  BY <1>1 DEF PoolStopsAt, Chains
<1>2. (CHOOSE j \in 1 .. Len(xff) : PoolStopsAt(rules, xff, j)) = i
  BY <1>1
<1> QED BY <1>2 DEF Pool

\* If the pool strategy finds an address, it finds the same whatever is in front.
THEOREM PrependedToPool ==
    ASSUME NEW rules, NEW extra \in Chains, NEW xff \in Chains, Pool(rules, xff) # Blank
    PROVE  Pool(rules, extra \o xff) = Pool(rules, xff)
<1>1. PICK long, k : long = extra \o xff /\ k = Len(extra)
  OBVIOUS
<1>2. long \in Chains /\ k \in Nat /\ EndsWith(long, k, xff) /\ Len(xff) \in Nat
  BY <1>1, Concatenation DEF Chains
<1>3. PICK i \in 1 .. Len(xff) : PoolStopsAt(rules, xff, i)
  BY DEF Pool
<1>4. long[k + i] = xff[i] /\ k + i \in 1 .. Len(long)
  BY <1>2 DEF EndsWith
<1>5. PoolStopsAt(rules, long, k + i)
  <2>1. ASSUME NEW j \in (k + i + 1) .. Len(long) PROVE Passed(rules, long[j])
    <3>1. j - k \in (i + 1) .. Len(xff) /\ j - k \in 1 .. Len(xff)
      BY <1>2 DEF EndsWith
    <3>2. long[k + (j - k)] = xff[j - k]
      BY <1>2, <3>1 DEF EndsWith
    <3>3. k + (j - k) = j
      BY <1>2
    <3> QED BY <1>3, <3>1, <3>2, <3>3 DEF PoolStopsAt, Passed
  <2> QED BY <1>3, <1>4, <2>1 DEF PoolStopsAt, Passed
<1>6. Pool(rules, long) = long[k + i] /\ Pool(rules, xff) = xff[i]
  BY <1>2, <1>3, <1>4, <1>5, PoolUnique
<1> QED BY <1>1, <1>4, <1>6

-----------------------------------------------------------------------------
(* Aggregation. *)

\* The masked addresses of one family are equal exactly if the groups of bits
\* inside the prefix are.
LEMMA MaskedEqual ==
    ASSUME NEW a \in Addresses, NEW b \in Addresses, a.fam = b.fam, NEW bits
    PROVE  Masked(a, bits) = Masked(b, bits)
               <=> \A i \in 1 .. 4 : Ends[a.fam][i] <= bits => a.part[i] = b.part[i]
<1> DEFINE part(x) == [i \in 1 .. 4 |-> IF Ends[x.fam][i] <= bits THEN x.part[i] ELSE 0]
<1>1. ASSUME NEW x \in Addresses PROVE Masked(x, bits) = [fam |-> x.fam, part |-> part(x)]
  BY DEF Masked, Addresses
<1>2. Masked(a, bits) = Masked(b, bits) <=> part(a) = part(b)
  BY <1>1
<1>3. part(a) = part(b) <=> \A i \in 1 .. 4 : part(a)[i] = part(b)[i]
  OBVIOUS
<1>4. \A i \in 1 .. 4 : part(a)[i] = part(b)[i]
                        <=> (Ends[a.fam][i] <= bits => a.part[i] = b.part[i])
  OBVIOUS
<1> QED BY <1>2, <1>3, <1>4

\* Two IPv6 texts have one aggregate exactly if they are in one network of the
\* configured size, however they are spelled.
THEOREM OneNetworkOneSubnet ==
    ASSUME NEW t \in Texts, NEW u \in Texts, NEW bits,
           ParsesIP(t), ParsesIP(u), t.addr.fam = "v6", u.addr.fam = "v6"
    PROVE  Subnet(t, bits) = Subnet(u, bits)
               <=> \A i \in 1 .. 4 :
                       Ends.v6[i] <= bits => t.addr.part[i] = u.addr.part[i]
<1>1. /\ Subnet(t, bits) = Text("plain", Masked(t.addr, bits))
      /\ Subnet(u, bits) = Text("plain", Masked(u.addr, bits))
  BY DEF Subnet
<1>2. Subnet(t, bits) = Subnet(u, bits) <=> Masked(t.addr, bits) = Masked(u.addr, bits)
  BY <1>1 DEF Text
<1>3. t.addr \in Addresses /\ u.addr \in Addresses
  BY DEF Texts
<1> QED BY <1>2, <1>3, MaskedEqual

-----------------------------------------------------------------------------
(* One hop further in. *)

\* A peer that is an address is an entry that normalises to itself.
LEMMA PeerAsEntry ==
    ASSUME NEW peer, ParsesIP(peer)
    PROVE  NormaliseEntry(peer) = peer /\ Normalises(peer) /\ peer # Blank
BY DEF ParsesIP, NormaliseEntry, Normalises, HostOf, Blank, Text

\* The chain as a hop with this peer sends it on.
Forwarded(xff, peer) == IF xff = <<Blank>> THEN <<peer>> ELSE Append(xff, peer)

\* A hop behind the edge appends the edge's peer and finds the client that the edge
\* found, if the edge found it in its chain or at its peer.
THEOREM OneHopFurtherIn ==
    ASSUME NEW rules, NEW remote, NEW hop,
           NEW xff \in Chains, xff # <<>>, HostOf(remote) \in Texts,
           Contains(rules, HostOf(hop)), ParsesIP(HostOf(remote)),
           Len(xff) < MaxXFFEntries,
           Resolve(rules, remote, xff).source \in {"xff", "peer-untrusted"}
    PROVE  Resolve(rules, hop, Forwarded(xff, HostOf(remote))).ip
               = Resolve(rules, remote, xff).ip
<1> DEFINE peer == HostOf(remote)
           inner == Forwarded(xff, peer)
           n == Len(inner)
<1>0. inner = IF xff = <<Blank>> THEN <<peer>> ELSE Append(xff, peer)
  BY DEF Forwarded
<1> HIDE DEF inner
<1>1. /\ inner \in Chains
      /\ n \in 1 .. MaxXFFEntries
      /\ inner[n] = peer
      /\ xff # <<Blank>> => /\ n = Len(xff) + 1
                            /\ \A i \in 1 .. Len(xff) : inner[i] = xff[i]
  <2>3. peer \in Texts
    OBVIOUS
  <2>1. CASE xff = <<Blank>>
    <3>1. inner = <<peer>>
      BY <1>0, <2>1
    <3>2. n = 1 /\ inner[1] = peer
      BY <3>1
    <3>3. inner \in Chains
      <4> HIDE DEF peer
      <4> QED BY <3>1, <2>3 DEF Chains
    <3> QED BY <2>1, <3>2, <3>3, EntriesAssumption
  <2>2. CASE xff # <<Blank>>
    <3>1. Len(xff) \in Nat /\ inner = Append(xff, peer)
      BY <1>0, <2>2 DEF Chains
    <3>2. /\ inner \in Chains /\ Len(inner) = Len(xff) + 1
          /\ inner[Len(xff) + 1] = peer
          /\ \A i \in 1 .. Len(xff) : inner[i] = xff[i]
      BY <3>1 DEF Chains
    <3> QED BY <3>1, <3>2, EntriesAssumption DEF Chains
  <2> QED BY <2>1, <2>2
<1>2. NormaliseEntry(peer) = peer /\ Normalises(peer) /\ peer # Blank
  BY PeerAsEntry
<1>3. inner # <<Blank>>
  BY <1>1, <1>2
<1>4. Resolve(rules, hop, inner) = Exit(rules, HostOf(hop), inner)
  BY <1>1, <1>3, EntriesAssumption DEF Resolve
<1> HIDE DEF n
<1>5. CASE ~Contains(rules, peer)
  <2>1. WalkStopsAt(rules, inner, n)
    BY <1>1, <1>2, <1>5 DEF WalkStopsAt, Ours, n
  <2>2. Exit(rules, HostOf(hop), inner) = Derived(peer, "xff")
    <3>1. inner[n] = peer
      BY <1>1
    <3>2. Exit(rules, HostOf(hop), inner) =
              IF Normalises(inner[n]) THEN Derived(NormaliseEntry(inner[n]), "xff")
              ELSE Derived(HostOf(hop), "peer-malformed")
      BY <2>1, <1>1, ExitAtStop, Zenon
    <3> QED BY <3>1, <3>2, <1>2
  <2>3. Resolve(rules, remote, xff) = Derived(peer, "peer-untrusted")
    BY <1>5 DEF Resolve
  <2> QED BY <1>4, <2>2, <2>3 DEF Derived, inner
<1>6. CASE Contains(rules, peer)
  <2>1. /\ xff # <<Blank>>
        /\ Resolve(rules, remote, xff) = Exit(rules, peer, xff)
        /\ Exit(rules, peer, xff).source = "xff"
    <3>1. CASE xff = <<Blank>>
      BY <1>6, <3>1 DEF Resolve, Derived
    <3>2. CASE xff # <<Blank>>
      <4>1. ~(Len(xff) > MaxXFFEntries)
        BY EntriesAssumption DEF Chains
      <4>2. Resolve(rules, remote, xff) = Exit(rules, peer, xff)
        BY <1>6, <3>2, <4>1 DEF Resolve
      <4>3. Exit(rules, peer, xff).source # "peer-untrusted"
        BY DEF Exit, Derived
      <4> QED BY <3>2, <4>2, <4>3
    <3> QED BY <3>1, <3>2
  <2>2. PICK i : WalkStopsAt(rules, xff, i)
    BY <2>1 DEF Exit, Derived
  <2>3. Normalises(xff[i]) /\ Exit(rules, peer, xff) = Derived(NormaliseEntry(xff[i]), "xff")
    <3>1. Exit(rules, peer, xff) =
              IF Normalises(xff[i]) THEN Derived(NormaliseEntry(xff[i]), "xff")
              ELSE Derived(peer, "peer-malformed")
      BY <2>2, ExitAtStop
    <3> QED BY <2>1, <3>1 DEF Derived
  <2>4. i \in 1 .. Len(xff) /\ Len(xff) \in Nat
    BY <2>2 DEF WalkStopsAt
  <2>5. Ours(rules, inner[n])
    BY <1>1, <1>2, <1>6 DEF Ours
  <2>6. WalkStopsAt(rules, inner, i) /\ inner[i] = xff[i]
    <3>1. i \in 1 .. n /\ n = Len(xff) + 1 /\ inner[i] = xff[i]
      BY <1>1, <2>1, <2>4
    <3>2. ASSUME NEW j \in (i + 1) .. n PROVE Ours(rules, inner[j])
      <4>1. CASE j = n
        BY <4>1, <2>5
      <4>2. CASE j # n
        <5>1. j \in 1 .. Len(xff) /\ j \in (i + 1) .. Len(xff)
          BY <4>2, <3>1, <2>4
        <5> QED BY <5>1, <1>1, <2>1, <2>2 DEF WalkStopsAt
      <4> QED BY <4>1, <4>2
    <3> QED BY <3>1, <3>2, <2>2 DEF WalkStopsAt, n
  <2>7. Exit(rules, HostOf(hop), inner) = Derived(NormaliseEntry(xff[i]), "xff")
    <3>1. Exit(rules, HostOf(hop), inner) =
              IF Normalises(inner[i]) THEN Derived(NormaliseEntry(inner[i]), "xff")
              ELSE Derived(HostOf(hop), "peer-malformed")
      BY <2>6, <1>1, ExitAtStop, Zenon
    <3> QED BY <2>3, <2>6, <3>1
  <2> QED BY <1>4, <2>1, <2>3, <2>7 DEF inner
<1> QED BY <1>5, <1>6 DEF inner
=============================================================================
