---------------------------- MODULE MCMiddleware ----------------------------
(***************************************************************************)
(* An instance of Middleware for TLC: configurations that differ from a    *)
(* base in the fields that are checked together, and requests through      *)
(* chains of up to three entries.                                          *)
(***************************************************************************)
EXTENDS Middleware

V4(a, b, c, d) == [fam |-> "v4", part |-> <<a, b, c, d>>]
V6(a, b, c, d) == [fam |-> "v6", part |-> <<a, b, c, d>>]

\* Two proxies of ours; three IPv6 clients, of which the first two share a /64
\* and all share a /48; an IPv4 client.
Proxy == Text("plain", V4(10, 0, 0, 1))
LinkLocal == Text("zoned", V6(9, 0, 0, 1))
Client1 == Text("plain", V6(1, 1, 1, 1))
Client2 == Text("alias", V6(1, 1, 1, 2))
Client3 == Text("plain", V6(1, 1, 2, 1))
Client4 == Text("plain", V4(4, 0, 0, 1))
Junk == Text("junk", Zero)

OurProxies == {Rule(V4(10, 0, 0, 0), 8), Rule(V6(9, 0, 0, 0), 32)}

-----------------------------------------------------------------------------
NoStrategy == [given |-> FALSE, depth |-> 0, excludedIPs |-> {}]
Strategy(depth, excluded) == [given |-> TRUE, depth |-> depth, excludedIPs |-> excluded]

Base ==
    [redisAddress |-> "", redisPassword |-> "", redisPasswordFile |-> "",
     average |-> 1, burst |-> 1, period |-> 1, breakerThreshold |-> 3,
     breakerReattempt |-> 15, redisConnectionTimeout |-> 2, whitelistIPs |-> {},
     redisTls |-> FALSE, redisCaCertFile |-> "", redisClientCertFile |-> "",
     redisClientKeyFile |-> "", redisServerName |-> "", failureMode |-> "",
     trustedProxies |-> OurProxies, ipv6Subnet |-> 0,
     ipStrategy |-> NoStrategy, requestHeaderName |-> "", requestHost |-> FALSE]

Numbers ==
    {[Base EXCEPT !.average = a, !.burst = b, !.period = p] :
        a \in {-1, 1}, b \in {0, 1}, p \in {-1, 0, 1}}
    \cup {[Base EXCEPT !.breakerThreshold = n, !.breakerReattempt = n,
                       !.redisConnectionTimeout = n] : n \in {-1, 0}}
    \cup {[Base EXCEPT !.ipv6Subnet = bits] : bits \in {31, 48, 64, 65, 128}}

Choices ==
    {[Base EXCEPT !.failureMode = mode] : mode \in {"open", "closed", "half"}}
    \cup {[Base EXCEPT !.redisPassword = p, !.redisPasswordFile = f] :
            p \in {"secret", "$VAR"}, f \in {"", "file"}}
    \cup {[Base EXCEPT !.average = a, !.whitelistIPs = w] :
            a \in {0, 1}, w \in {{}, {BadRule}, {Rule(Client1.addr, 128)}}}

Derivations ==
    {[Base EXCEPT !.trustedProxies = t, !.ipStrategy = s, !.requestHeaderName = h,
                  !.requestHost = b] :
        t \in {{}, OurProxies, {BadRule}},
        s \in {NoStrategy, Strategy(0, {}), Strategy(2, {}), Strategy(0, OurProxies),
               Strategy(-1, {BadRule})},
        h \in {"", "X-Tenant", HeaderClientSubnet}, b \in BOOLEAN}

TLSSettings ==
    {[Base EXCEPT !.redisTls = t, !.redisCaCertFile = ca, !.redisClientCertFile = cert,
                  !.redisClientKeyFile = k, !.redisServerName = n, !.redisAddress = a] :
        t \in BOOLEAN, ca \in {"", "good", "bad"}, cert \in {"", "good", "bad"},
        k \in {"", "good"}, n \in {"", "redis"}, a \in {"", ":6379"}}

MCConfig == Numbers \cup Choices \cup Derivations \cup TLSSettings

-----------------------------------------------------------------------------
Entry == {Proxy, WithPort(Proxy), Client1, Client2, Client3, Client4, Junk, Blank}
Hop == {Proxy, Client1, Client4, Junk}

Chain == {<<e>> : e \in Entry} \cup {<<e, f>> : e, f \in Entry}
         \cup {<<e, f, g>> : e, f, g \in Hop}
         \cup {<<Client1, Proxy, Proxy, Proxy>>}

MCHeaderName == destroyedHeaders \cup {"X-Tenant"}

Arrival == {[h \in MCHeaderName |-> Blank],
            [h \in MCHeaderName |-> IF h = "X-Tenant" THEN Client4 ELSE Client3]}

MCRequest ==
    [remote : {WithPort(Proxy), WithPort(LinkLocal), WithPort(Client1)},
     xff : Chain, headers : Arrival, host : {Client4}]
=============================================================================
