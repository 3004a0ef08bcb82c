-------------------------- MODULE MiddlewareProofs --------------------------
(***************************************************************************)
(* Theorems about Middleware, for any configurations and requests of the   *)
(* types that MiddlewareAssumption gives them.                             *)
(***************************************************************************)
EXTENDS Middleware, ClientAddressProofs

\* A configuration that New accepts, for one environment.
Built(p) == \E c \in Config, env \in Env : Accepts(c, env) /\ p = New(c)

Serving == {"arrived", "asked", "answered"}

\* What ServeHTTP has done to a request at each stage.
IInv ==
    /\ stage \in {"unbuilt", "written", "ready"} \cup Serving
    /\ stage = "written" => config \in Config
    /\ stage \in {"ready"} \cup Serving => Built(plugin)
    /\ stage \in Serving => request \in Request
    /\ stage \in {"asked", "answered"} => headers = Published(plugin, request)
    /\ stage = "asked" => key = Key(plugin, request) /\ ~Bypasses(plugin, request)
    /\ status \in {Unanswered, "forwarded", "429", "503"}
    /\ wait \in Nat

\* What New makes of numbers.
LEMMA BuiltNumbers ==
    ASSUME NEW p, Built(p)
    PROVE  /\ p.average \in Nat
           /\ {p.burst, p.period, p.threshold, p.retryAfter, p.timeout} \subseteq Positive
           /\ p.ipv6Subnet \in MinIPv6Subnet .. MaxIPv6Subnet
           /\ p.failureMode \in {"open", "closed"}
<1>1. PICK c \in Config, env \in Env : Accepts(c, env) /\ p = New(c)
  BY DEF Built
<1>2. c \in Configs
  BY MiddlewareAssumption
<1>3. {c.average, c.burst, c.period, c.breakerThreshold, c.breakerReattempt,
       c.redisConnectionTimeout, c.ipv6Subnet} \subseteq Int
  BY <1>2 DEF Configs
<1>4. ASSUME NEW n \in Int, NEW default \in Positive PROVE OrDefault(n, default) \in Positive
  BY DEF OrDefault, Positive
<1>5. p.average \in Nat /\ p.burst \in Positive
  <2>1. p.average = c.average /\ p.burst = c.burst
    BY <1>1 DEF New
  <2>2. c.average >= 0 /\ c.burst >= 1
    BY <1>1 DEF Accepts
  <2> QED BY <2>1, <2>2, <1>3 DEF Positive
<1>6. p.period \in Positive /\ p.threshold \in Positive /\ p.retryAfter \in Positive
      /\ p.timeout \in Positive
  <2>1. {1, 2, 3, 15} \subseteq Positive
    BY DEF Positive
  <2> QED BY <1>1, <1>3, <1>4, <2>1 DEF New
<1>7. p.ipv6Subnet \in MinIPv6Subnet .. MaxIPv6Subnet
  BY <1>1, <1>3 DEF New, Accepts
<1>8. p.failureMode \in {"open", "closed"}
  BY <1>1 DEF New, Accepts
<1> QED BY <1>5, <1>6, <1>7, <1>8

LEMMA NextIInv == IInv /\ [Next]_vars => IInv'
<1> SUFFICES ASSUME IInv, [Next]_vars PROVE IInv'
  OBVIOUS
<1> USE DEF IInv, Serving
<1>1. ASSUME NEW c \in Config, Write(c) PROVE IInv'
  BY <1>1 DEF Write
<1>2. ASSUME NEW env \in Env, NewRefuses(env) PROVE IInv'
  BY <1>2 DEF NewRefuses
<1>3. ASSUME NEW env \in Env, NewBuilds(env) PROVE IInv'
  BY <1>3 DEF NewBuilds, Built
<1>4. ASSUME NEW r \in Request, Arrive(r) PROVE IInv'
  BY <1>4 DEF Arrive, Built
<1>5. CASE Bypass
  BY <1>5 DEF Bypass, Answer, Built
<1>6. CASE Ask
  BY <1>6 DEF Ask, Built
<1>7. CASE Admit
  BY <1>7 DEF Admit, Answer, Built
<1>8. ASSUME NEW seconds \in 0 .. MaxWait, TooMany(seconds) PROVE IInv'
  BY <1>8, MiddlewareAssumption DEF TooMany, Answer, Built
<1>9. CASE FailOpen
  BY <1>9 DEF FailOpen, Answer, Built
<1>10. CASE FailClosed
  <2>1. plugin.retryAfter \in Nat
    <3>1. Built(plugin)
      BY <1>10 DEF FailClosed
    <3> QED BY <3>1, BuiltNumbers DEF Positive
  <2> QED BY <1>10, <2>1 DEF FailClosed, Answer, Built
<1>11. CASE Finish
  BY <1>11 DEF Finish, Built, Unanswered
<1>12. CASE UNCHANGED vars
  BY <1>12 DEF vars, Built
<1> QED BY <1>1, <1>2, <1>3, <1>4, <1>5, <1>6, <1>7, <1>8, <1>9, <1>10, <1>11, <1>12 DEF Next

\* The inductive invariant holds in every reachable state.
THEOREM InductiveInvariant == Spec => []IInv
<1>1. Init => IInv
  BY DEF Init, IInv, Serving, Unanswered
<1> QED BY <1>1, NextIInv, PTL DEF Spec

\* Whatever configuration New accepts, the limiter's rate, burst and period and the
\* breaker's threshold and period are in the ranges that AllowScript and Breaker
\* assume, and the limiter is never asked with a rate of 0.
THEOREM TypeCorrect == Spec => []TypeOK
<1>1. IInv => TypeOK
  <2> SUFFICES ASSUME IInv PROVE TypeOK
    OBVIOUS
  <2>1. stage \in {"ready"} \cup Serving => Built(plugin)
    BY DEF IInv
  <2>2. stage = "asked" => plugin.average # 0
    BY DEF IInv, Bypasses
  <2> QED BY <2>1, <2>2, BuiltNumbers DEF IInv, TypeOK, Serving
<1> QED BY <1>1, InductiveInvariant, PTL

-----------------------------------------------------------------------------
(* Loading. *)

\* Which of the two secrets is configured is decided on the values as written, so
\* the environment does not decide whether a configuration is accepted.
THEOREM AcceptanceIgnoresEnvironmentHolds == Spec => []AcceptanceIgnoresEnvironment
<1>1. ASSUME NEW c, NEW env, NEW other PROVE OneSecret(c, env) => OneSecret(c, other)
  BY DEF OneSecret, Indirect
<1>2. AcceptanceIgnoresEnvironment
  BY <1>1 DEF AcceptanceIgnoresEnvironment, Accepts
<1> QED BY <1>2, PTL

\* Without trusted proxies nothing says how the client address is derived, because
\* with them nothing else could.
THEOREM DeletingIsLoudHolds == Spec => []DeletingIsLoud
<1>1. IInv => DeletingIsLoud
  <2> SUFFICES ASSUME IInv, stage = "written", config.trustedProxies # {},
                      NEW env \in Env, Accepts(config, env)
               PROVE  ~Accepts([config EXCEPT !.trustedProxies = {}], env)
    BY DEF DeletingIsLoud
  <2> DEFINE without == [config EXCEPT !.trustedProxies = {}]
  <2>1. config \in Configs
    BY MiddlewareAssumption DEF IInv
  <2>2. without.trustedProxies = {} /\ without.ipStrategy = config.ipStrategy
    BY <2>1 DEF Configs
  <2>3. ~config.ipStrategy.given
    BY DEF Accepts
  <2>4. ~DerivationBuilds(without)
    BY <2>2, <2>3 DEF DerivationBuilds
  <2> QED BY <2>4 DEF Accepts
<1> QED BY <1>1, InductiveInvariant, PTL

\* Any TLS setting makes every dial a TLS dial that verifies a name.
THEOREM NeverDowngradesHolds == Spec => NeverDowngrades
<1>1. ASSUME NEW c, NEW env, Accepts(c, env), TLSRequested(c)
      PROVE  New(c).tls.on /\ New(c).tls.name # ""
  BY <1>1 DEF New, TLSConfig, Accepts, TLSBuilds
<1>2. [\A env \in Env :
           NewBuilds(env) /\ ( \/ config.redisTls
                              \/ config.redisCaCertFile # "" \/ config.redisServerName # ""
                              \/ config.redisClientCertFile # ""
                              \/ config.redisClientKeyFile # "" )
           => plugin'.tls.on /\ plugin'.tls.name # ""]_vars
  BY <1>1 DEF NewBuilds, TLSRequested
<1> QED BY <1>2, PTL DEF NeverDowngrades

-----------------------------------------------------------------------------
(* Headers. *)

\* The client address depends on the peer and the chain alone.
LEMMA RequestFields ==
    ASSUME NEW r \in Request
    PROVE  /\ r.remote \in Texts /\ r.xff \in Chains /\ r.xff # <<>>
           /\ r.headers \in [HeaderName -> Texts]
           /\ HostOf(r.remote) \in Texts /\ HostOf(r.remote) # Blank
           /\ HostOf(r.remote).suffix = <<>>
<1>1. r \in [remote : Peers, xff : Seq(Texts) \ {<<>>},
             headers : [HeaderName -> Texts], host : Texts]
  BY MiddlewareAssumption
<1>2. r.remote \in Texts /\ ParsesAddr(HostOf(r.remote))
  BY <1>1 DEF Peers
<1>3. r.xff \in Chains /\ r.xff # <<>> /\ r.headers \in [HeaderName -> Texts]
  BY <1>1 DEF Chains
<1>4. HostOf(r.remote) \in Texts
  BY <1>2 DEF HostOf, Texts
<1>5. HostOf(r.remote) # Blank /\ HostOf(r.remote).suffix = <<>>
  BY <1>2 DEF ParsesAddr, Blank, Text
<1> QED BY <1>2, <1>3, <1>4, <1>5

\* Destruction comes first and is unconditional, so nothing downstream of it, the
\* backend, the publication and the bucket key, depends on a destroyed header.
THEOREM ForgeryIgnoredHolds == Spec => []ForgeryIgnored
<1>1. IInv => ForgeryIgnored
  <2> SUFFICES ASSUME IInv, stage \in {"asked", "answered"},
                      NEW H \in SUBSET destroyedHeaders, NEW other,
                      other = [request EXCEPT !.headers =
                                 [h \in DOMAIN @ |-> IF h \in H THEN Text("junk", Zero)
                                                     ELSE IF h \in destroyedHeaders THEN Blank
                                                     ELSE @[h]]]
               PROVE  /\ Published(plugin, other) = headers
                      /\ stage = "asked" => Key(plugin, other) = key
    BY DEF ForgeryIgnored
  <2>1. request \in Request
    BY DEF IInv, Serving
  <2>2. request \in [remote : Peers, xff : Seq(Texts) \ {<<>>},
                     headers : [HeaderName -> Texts], host : Texts]
    BY <2>1, MiddlewareAssumption
  <2>3. /\ other.remote = request.remote /\ other.xff = request.xff
        /\ other.host = request.host
        /\ other.headers = [h \in DOMAIN request.headers |->
                              IF h \in H THEN Text("junk", Zero)
                              ELSE IF h \in destroyedHeaders THEN Blank
                              ELSE request.headers[h]]
    BY <2>2
  <2>4. ClientOf(plugin, other) = ClientOf(plugin, request)
    BY <2>3 DEF ClientOf
  <2>5. Destroy(plugin, other.headers) = Destroy(plugin, request.headers)
    BY <2>3 DEF Destroy
  <2>6. Published(plugin, other) = Published(plugin, request)
    BY <2>4, <2>5 DEF Published
  <2>7. Key(plugin, other) = Key(plugin, request)
    BY <2>3, <2>4, <2>6 DEF Key
  <2> QED BY <2>6, <2>7 DEF IInv
<1> QED BY <1>1, InductiveInvariant, PTL

\* The walk returns an address, and one without a suffix.
LEMMA WalkFinds ==
    ASSUME NEW r \in Request, NEW p, p.strategy.kind = "walk"
    PROVE  /\ ClientOf(p, r) = Resolve(p.strategy.rules, r.remote, r.xff)
           /\ ClientOf(p, r).ip # Blank
           /\ ClientOf(p, r).ip \in Texts
           /\ ClientOf(p, r).ip.suffix = <<>>
           /\ ClientOf(p, r).source \in {"xff", "peer-untrusted", "peer-no-xff",
                                         "peer-malformed", "peer-all-trusted"}
<1> DEFINE rules == p.strategy.rules
           peer == HostOf(r.remote)
           xff == r.xff
<1>1. ClientOf(p, r) = Resolve(rules, r.remote, xff)
  BY DEF ClientOf, Derive
<1>2. peer \in Texts /\ peer # Blank /\ peer.suffix = <<>> /\ xff \in Chains
  BY RequestFields
<1>3. ASSUME NEW text \in Texts, Normalises(text)
      PROVE  /\ NormaliseEntry(text) \in Texts /\ NormaliseEntry(text) # Blank
             /\ NormaliseEntry(text).suffix = <<>>
  BY <1>3 DEF Normalises, ParsesIP, NormaliseEntry, HostOf, Texts, Blank, Text
<1>4. \/ \E source \in {"peer-untrusted", "peer-no-xff", "peer-malformed", "peer-all-trusted"} :
             Resolve(rules, r.remote, xff) = Derived(peer, source)
      \/ \E text \in Texts :
             Normalises(text) /\ Resolve(rules, r.remote, xff) = Derived(NormaliseEntry(text), "xff")
  <2>1. CASE Resolve(rules, r.remote, xff) # Exit(rules, peer, xff)
    BY <2>1 DEF Resolve
  <2>2. CASE /\ Resolve(rules, r.remote, xff) = Exit(rules, peer, xff)
             /\ \E i \in 1 .. Len(xff) : WalkStopsAt(rules, xff, i)
    <3>1. PICK i \in 1 .. Len(xff) : WalkStopsAt(rules, xff, i)
      BY <2>2
    <3>2. xff[i] \in Texts
      BY <1>2 DEF Chains
    <3>3. Exit(rules, peer, xff) =
              IF Normalises(xff[i]) THEN Derived(NormaliseEntry(xff[i]), "xff")
              ELSE Derived(peer, "peer-malformed")
      <4> HIDE DEF rules, peer, xff
      <4> QED BY <1>2, <3>1, ExitAtStop
    <3> QED BY <2>2, <3>2, <3>3
  <2>3. CASE /\ Resolve(rules, r.remote, xff) = Exit(rules, peer, xff)
             /\ ~\E i \in 1 .. Len(xff) : WalkStopsAt(rules, xff, i)
    BY <2>3 DEF Exit
  <2> QED BY <2>1, <2>2, <2>3
<1> HIDE DEF rules, peer, xff
<1>5. ASSUME NEW ip \in Texts, ip # Blank, ip.suffix = <<>>,
             NEW source \in {"xff", "peer-untrusted", "peer-no-xff", "peer-malformed",
                             "peer-all-trusted"},
             ClientOf(p, r) = Derived(ip, source)
      PROVE  /\ ClientOf(p, r).ip # Blank
             /\ ClientOf(p, r).ip \in Texts
             /\ ClientOf(p, r).ip.suffix = <<>>
             /\ ClientOf(p, r).source \in {"xff", "peer-untrusted", "peer-no-xff",
                                           "peer-malformed", "peer-all-trusted"}
  BY <1>5 DEF Derived
<1> QED BY <1>1, <1>2, <1>3, <1>4, <1>5 DEF rules, xff

\* What Publish writes for a walk.
LEMMA WalkPublishes ==
    ASSUME NEW r \in Request, NEW p, p.strategy.kind = "walk"
    PROVE  /\ Published(p, r)[HeaderClientIP] = ClientOf(p, r).ip
           /\ Published(p, r)[HeaderClientSubnet] = SubnetCIDR(ClientOf(p, r).ip, p.ipv6Subnet)
           /\ Published(p, r)[HeaderClientIPSource] = Text(ClientOf(p, r).source, Zero)
<1> DEFINE hs == Destroy(p, r.headers)
           client == ClientOf(p, r)
<1>1. DOMAIN hs = HeaderName
  <2>1. r.headers \in [HeaderName -> Texts]
    BY RequestFields
  <2> QED BY <2>1 DEF Destroy
<1>2. {HeaderClientIP, HeaderClientSubnet, HeaderClientIPSource} \subseteq HeaderName
  BY MiddlewareAssumption DEF destroyedHeaders
<1>3. client.ip # Blank /\ client.source # NoSource
  BY WalkFinds DEF NoSource
<1>4. Published(p, r) = Publish(p, client, hs)
  BY DEF Published
<1> HIDE DEF hs, client
<1>5. /\ Publish(p, client, hs)[HeaderClientIP] = client.ip
      /\ Publish(p, client, hs)[HeaderClientSubnet] = SubnetCIDR(client.ip, p.ipv6Subnet)
      /\ Publish(p, client, hs)[HeaderClientIPSource] = Text(client.source, Zero)
  BY <1>1, <1>2, <1>3 DEF Publish, HeaderClientIP, HeaderClientSubnet, HeaderClientIPSource
<1> QED BY <1>4, <1>5 DEF client

LEMMA KeyedByWalkWalks ==
    ASSUME IInv, stage = "asked", KeyedByWalk
    PROVE  plugin.strategy.kind = "walk" /\ request \in Request
<1>1. PICK c \in Config : plugin = New(c)
  BY DEF IInv, Serving, Built
<1>2. c.trustedProxies # {}
  BY <1>1 DEF KeyedByWalk, New, KeyedBy
<1> QED BY <1>1, <1>2 DEF New, IInv, Serving

\* The published aggregate is the bucket that is charged.
THEOREM KeyIsPublishedSubnetHolds == Spec => []KeyIsPublishedSubnet
<1>1. IInv => KeyIsPublishedSubnet
  <2> SUFFICES ASSUME IInv, stage = "asked", KeyedByWalk
               PROVE  key = [headers[HeaderClientSubnet] EXCEPT !.suffix = <<>>]
    BY DEF KeyIsPublishedSubnet
  <2> DEFINE ip == ClientOf(plugin, request).ip
             bits == plugin.ipv6Subnet
  <2>1. plugin.strategy.kind = "walk" /\ request \in Request
    BY KeyedByWalkWalks
  <2>2. headers[HeaderClientSubnet] = SubnetCIDR(ip, bits)
    BY <2>1, WalkPublishes DEF IInv
  <2>3. key = Subnet(ip, bits)
    BY DEF IInv, Key, KeyedByWalk
  <2>4. ip \in Texts /\ ip.suffix = <<>>
    BY <2>1, WalkFinds
  <2> HIDE DEF ip, bits
  <2>5. Subnet(ip, bits) = [SubnetCIDR(ip, bits) EXCEPT !.suffix = <<>>]
    <3>1. CASE ~ParsesIP(ip)
      BY <2>4, <3>1 DEF Subnet, SubnetCIDR, Texts
    <3>2. CASE ParsesIP(ip) /\ ip.addr.fam = "v4"
      BY <2>4, <3>2 DEF Subnet, SubnetCIDR, Slash, Texts
    <3>3. CASE ParsesIP(ip) /\ ip.addr.fam = "v6"
      <4>1. /\ Subnet(ip, bits) = Text("plain", Masked(ip.addr, bits))
            /\ SubnetCIDR(ip, bits) = Slash(Text("plain", Masked(ip.addr, bits)), bits)
        BY <3>3 DEF Subnet, SubnetCIDR
      <4>2. ASSUME NEW addr PROVE [Slash(Text("plain", addr), bits) EXCEPT !.suffix = <<>>]
                                      = Text("plain", addr)
        <5>1. Text("plain", addr) = [spell |-> "plain", addr |-> addr, suffix |-> <<>>]
          BY DEF Text
        <5>2. Slash(Text("plain", addr), bits)
                  = [spell |-> "plain", addr |-> addr, suffix |-> <<"/", bits>>]
          BY <5>1 DEF Slash
        <5> QED BY <5>1, <5>2
      <4> QED BY <4>1, <4>2
    <3> QED BY <2>4, <3>1, <3>2, <3>3 DEF Texts, Addresses
  <2> QED BY <2>2, <2>3, <2>5
<1> QED BY <1>1, InductiveInvariant, PTL

\* With trusted proxies every request has a bucket, and its backend an address, an
\* aggregate and a source.
THEOREM NeverTheEmptyKeyHolds == Spec => []NeverTheEmptyKey
<1>1. IInv => NeverTheEmptyKey
  <2> SUFFICES ASSUME IInv, stage = "asked", Walking PROVE NeverTheEmptyKey
    BY DEF NeverTheEmptyKey
  <2> DEFINE client == ClientOf(plugin, request)
             bits == plugin.ipv6Subnet
  <2>1. plugin.strategy.kind = "walk" /\ request \in Request
    BY DEF IInv, Serving, Walking
  <2>2. /\ client.ip \in Texts /\ client.ip # Blank
        /\ client.source \in {"xff", "peer-untrusted", "peer-no-xff",
                              "peer-malformed", "peer-all-trusted"}
    BY <2>1, WalkFinds
  <2>3. /\ headers[HeaderClientIP] = client.ip
        /\ headers[HeaderClientSubnet] = SubnetCIDR(client.ip, bits)
        /\ headers[HeaderClientIPSource] = Text(client.source, Zero)
    BY <2>1, WalkPublishes DEF IInv
  <2>4. KeyedByWalk => key = Subnet(client.ip, bits)
    BY DEF IInv, Key, KeyedByWalk
  <2> HIDE DEF client, bits
  <2>5. ASSUME NEW addr, NEW b
        PROVE  Text("plain", addr) # Blank /\ Slash(Text("plain", addr), b) # Blank
    BY DEF Slash, Text, Blank
  <2>6. Subnet(client.ip, bits) # Blank
    BY <2>2, <2>5 DEF Subnet
  <2>7. SubnetCIDR(client.ip, bits) # Blank
    <3>1. CASE ParsesIP(client.ip) /\ client.ip.addr.fam = "v4"
      <4>1. SubnetCIDR(client.ip, bits) = Slash(client.ip, 32)
        BY <3>1 DEF SubnetCIDR
      <4>2. Slash(client.ip, 32).suffix # <<>>
        BY <2>2 DEF Slash, Texts
      <4> QED BY <4>1, <4>2 DEF Blank, Text
    <3>2. CASE ~(ParsesIP(client.ip) /\ client.ip.addr.fam = "v4")
      BY <3>2, <2>2, <2>5 DEF SubnetCIDR
    <3> QED BY <3>1, <3>2
  <2>8. Text(client.source, Zero) # Blank
    BY <2>2 DEF Text, Blank
  <2> QED BY <2>2, <2>3, <2>4, <2>6, <2>7, <2>8 DEF NeverTheEmptyKey
<1> QED BY <1>1, InductiveInvariant, PTL

\* Two IPv6 clients share a bucket exactly if they are in one network of the
\* configured size.
THEOREM OneNetworkOneBucketHolds == Spec => []OneNetworkOneBucket
<1>1. IInv => OneNetworkOneBucket
  <2> SUFFICES ASSUME IInv, stage = "asked", KeyedByWalk, NEW r \in Single,
                      NEW mine, mine = ClientOf(plugin, request).ip,
                      NEW theirs, theirs = ClientOf(plugin, r).ip,
                      ParsesIP(mine), mine.addr.fam = "v6",
                      ParsesIP(theirs), theirs.addr.fam = "v6"
               PROVE  Key(plugin, r) = key
                          <=> SameNetwork(mine.addr, theirs.addr, plugin.ipv6Subnet)
    BY DEF OneNetworkOneBucket
  <2>1. plugin.strategy.kind = "walk" /\ request \in Request /\ r \in Request
    BY KeyedByWalkWalks DEF Single
  <2>2. mine \in Texts /\ theirs \in Texts
    BY <2>1, WalkFinds
  <2>3. /\ key = Subnet(mine, plugin.ipv6Subnet)
        /\ Key(plugin, r) = Subnet(theirs, plugin.ipv6Subnet)
    BY DEF IInv, Key, KeyedByWalk
  <2> QED BY <2>2, <2>3, OneNetworkOneSubnet DEF SameNetwork
<1> QED BY <1>1, InductiveInvariant, PTL

-----------------------------------------------------------------------------
(* The derivation. *)

\* The hop behind the edge finds the client that the edge finds.
THEOREM PositionIndependentHolds == Spec => []PositionIndependent
<1>1. IInv => PositionIndependent
  <2> SUFFICES ASSUME IInv, stage = "arrived", Walking, NEW q \in Request,
                      NEW hop, hop = q.remote,
                      Contains(plugin.strategy.rules, HostOf(hop)),
                      ClientOf(plugin, request).source \in {"xff", "peer-untrusted"},
                      ParsesIP(HostOf(request.remote)),
                      Len(request.xff) < MaxXFFEntries
               PROVE  ClientOf(plugin, OneHopIn(request, hop)).ip
                          = ClientOf(plugin, request).ip
    BY DEF PositionIndependent
  <2> DEFINE rules == plugin.strategy.rules
             inner == OneHopIn(request, hop)
  <2>1. request \in Request /\ plugin.strategy.kind = "walk"
    BY DEF IInv, Serving, Walking
  <2>2. request \in [remote : Peers, xff : Seq(Texts) \ {<<>>},
                     headers : [HeaderName -> Texts], host : Texts]
    BY <2>1, MiddlewareAssumption
  <2>3. /\ inner.remote = hop
        /\ inner.xff = Forwarded(request.xff, HostOf(request.remote))
    BY <2>2 DEF OneHopIn, Forwarded
  <2>4. /\ ClientOf(plugin, request) = Resolve(rules, request.remote, request.xff)
        /\ ClientOf(plugin, inner) = Resolve(rules, inner.remote, inner.xff)
    BY <2>1 DEF ClientOf, Derive
  <2>5. /\ request.xff \in Chains /\ request.xff # <<>>
        /\ HostOf(request.remote) \in Texts
    BY <2>1, RequestFields
  <2>6. Resolve(rules, request.remote, request.xff).source \in {"xff", "peer-untrusted"}
    BY <2>4
  <2>7. Contains(rules, HostOf(hop))
    OBVIOUS
  <2> HIDE DEF inner, rules
  <2>8. Resolve(rules, hop, Forwarded(request.xff, HostOf(request.remote))).ip
            = Resolve(rules, request.remote, request.xff).ip
    BY <2>5, <2>6, <2>7, OneHopFurtherIn
  <2> QED BY <2>3, <2>4, <2>8 DEF inner
<1> QED BY <1>1, InductiveInvariant, PTL

LEMMA BuiltStrategy ==
    ASSUME NEW p, Built(p)
    PROVE  /\ p.strategy.kind \in {"walk", "depth", "pool", "remote"}
           /\ p.strategy.kind = "depth" => p.strategy.depth \in Nat \ {0}
<1>1. PICK c \in Config : p = New(c)
  BY DEF Built
<1>2. c.ipStrategy.depth \in Int
  <2>1. c \in Configs
    BY MiddlewareAssumption
  <2>2. c.ipStrategy \in IPStrategy
    BY <2>1 DEF Configs
  <2> QED BY <2>2 DEF IPStrategy
<1>3. p.strategy = IF c.trustedProxies # {}
                   THEN [kind |-> "walk", depth |-> 0, rules |-> c.trustedProxies]
                   ELSE StrategyOf(c.ipStrategy)
  BY <1>1 DEF New
<1> QED BY <1>2, <1>3 DEF StrategyOf

\* What a client writes in front of a chain that decides by itself never matters,
\* with any strategy.
THEOREM PrependingChangesNothingHolds == Spec => []PrependingChangesNothing
<1>1. IInv => PrependingChangesNothing
  <2> SUFFICES ASSUME IInv, stage = "arrived", NEW r \in Single,
                      request.xff # <<Blank>>, Len(request.xff) < MaxXFFEntries,
                      Decided(plugin, request)
               PROVE  ClientOf(plugin, [request EXCEPT !.xff = r.xff \o @])
                          = ClientOf(plugin, request)
    BY DEF PrependingChangesNothing
  <2> DEFINE long == [request EXCEPT !.xff = r.xff \o @]
             s == plugin.strategy
  <2>1. request \in Request /\ r \in Request /\ Built(plugin)
    BY DEF IInv, Serving, Single
  <2>2. request \in [remote : Peers, xff : Seq(Texts) \ {<<>>},
                     headers : [HeaderName -> Texts], host : Texts]
    BY <2>1, MiddlewareAssumption
  <2>3. long.remote = request.remote /\ long.xff = r.xff \o request.xff
    BY <2>2
  <2>4. /\ request.xff \in Chains /\ request.xff # <<>> /\ r.xff \in Chains
        /\ Len(r.xff) = 1
    BY <2>1, RequestFields DEF Single
  <2>5. Len(r.xff) + Len(request.xff) <= MaxXFFEntries
    BY <2>4, EntriesAssumption DEF Chains
  <2>6. /\ s.kind \in {"walk", "depth", "pool", "remote"}
        /\ s.kind = "depth" => s.depth \in Nat \ {0}
    BY <2>1, BuiltStrategy
  <2>7. /\ ClientOf(plugin, request) = Derive(s, request.remote, request.xff)
        /\ ClientOf(plugin, long) = Derive(s, request.remote, r.xff \o request.xff)
    BY <2>3 DEF ClientOf
  <2>8. Derive(s, request.remote, r.xff \o request.xff)
            = Derive(s, request.remote, request.xff)
    <3>1. CASE s.kind = "walk"
      <4>1. \/ ~Contains(s.rules, HostOf(request.remote))
            \/ \E e \in 1 .. Len(request.xff) : ~Ours(s.rules, request.xff[e])
        BY <3>1 DEF Decided
      <4>2. Resolve(s.rules, request.remote, r.xff \o request.xff)
                = Resolve(s.rules, request.remote, request.xff)
        BY <4>1, <2>4, <2>5, PrependedToWalk
      <4> QED BY <3>1, <4>2 DEF Derive
    <3>2. CASE s.kind = "depth"
      <4>1. Len(request.xff) >= s.depth
        BY <3>2 DEF Decided
      <4>2. Depth(s.depth, r.xff \o request.xff) = Depth(s.depth, request.xff)
        BY <3>2, <4>1, <2>4, <2>6, PrependedToDepth
      <4> QED BY <3>2, <4>2 DEF Derive
    <3>3. CASE s.kind = "pool"
      <4>1. Derive(s, request.remote, request.xff)
                = Derived(Pool(s.rules, request.xff), NoSource)
        BY <3>3 DEF Derive
      <4>2. Pool(s.rules, request.xff) # Blank
        BY <3>3, <4>1, <2>7 DEF Decided, Derived
      <4>3. Pool(s.rules, r.xff \o request.xff) = Pool(s.rules, request.xff)
        BY <4>2, <2>4, PrependedToPool
      <4> QED BY <3>3, <4>3 DEF Derive
    <3>4. CASE s.kind = "remote"
      BY <3>4 DEF Derive
    <3> QED BY <2>6, <3>1, <3>2, <3>3, <3>4
  <2> QED BY <2>7, <2>8
<1> QED BY <1>1, InductiveInvariant, PTL
=============================================================================
