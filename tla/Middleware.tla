----------------------------- MODULE Middleware -----------------------------
(***************************************************************************)
(* The middleware of ratelimit.go: New builds it from a configuration and  *)
(* ServeHTTP runs every request through it.  The limiter is seen from      *)
(* outside: it is asked about a key, and admits, refuses with a wait, or   *)
(* fails.                                                                  *)
(*                                                                         *)
(* A request is served in up to two steps: up to the call of the limiter,  *)
(* and after it.  Requests share nothing in the middleware, so one at a    *)
(* time is enough.                                                         *)
(***************************************************************************)
EXTENDS Configuration

CONSTANTS Config,      \* the configurations an operator may write
          Env,         \* what the environment variable of a '$' value may hold
          HeaderName,  \* the headers of a request, present or blank
          Request,     \* the requests that may arrive
          MaxWait      \* bound on the limiter's wait, in whole seconds

HeaderClientIP == "Gateway-Connecting-IP"
HeaderClientIPSource == "Gateway-Connecting-IP-Source"
HeaderClientSubnet == "Gateway-Connecting-Subnet"
destroyedHeaders ==
    {"Forwarded", "X-Real-IP", HeaderClientIP, HeaderClientIPSource, HeaderClientSubnet}

\* net/http sets RemoteAddr to the address of a socket.
Peers == {t \in Texts : ParsesAddr(HostOf(t))}

ASSUME MiddlewareAssumption ==
    /\ Config \subseteq Configs
    /\ destroyedHeaders \subseteq HeaderName
    /\ Request \subseteq [remote : Peers, xff : Seq(Texts) \ {<<>>},
                          headers : [HeaderName -> Texts], host : Texts]
    /\ MaxWait \in Nat

VARIABLES config,   \* the configuration being loaded
          plugin,   \* the ClusterRateLimit
          request,  \* the request in ServeHTTP
          headers,  \* its headers as ServeHTTP has left them
          key,      \* the key the limiter is asked about
          status,   \* what ServeHTTP did: "forwarded", "429", "503"
          wait,     \* the retry-after of the answer
          stage     \* where the plugin and its request are

vars == <<config, plugin, request, headers, key, status, wait, stage>>

Nothing == [none |-> TRUE]
Unanswered == "none"

-----------------------------------------------------------------------------
(* Loading. *)

\* An operator writes a configuration.
Write(c) ==
    /\ stage = "unbuilt"
    /\ config' = c
    /\ stage' = "written"
    /\ UNCHANGED <<plugin, request, headers, key, status, wait>>

\* New returns an error: the router is dropped.
NewRefuses(env) ==
    /\ stage = "written"
    /\ ~Accepts(config, env)
    /\ config' = Nothing
    /\ stage' = "unbuilt"
    /\ UNCHANGED <<plugin, request, headers, key, status, wait>>

NewBuilds(env) ==
    /\ stage = "written"
    /\ Accepts(config, env)
    /\ plugin' = New(config)
    /\ config' = Nothing
    /\ stage' = "ready"
    /\ UNCHANGED <<request, headers, key, status, wait>>

-----------------------------------------------------------------------------
(* ServeHTTP. *)

Arrive(r) ==
    /\ stage = "ready"
    /\ request' = r
    /\ headers' = r.headers
    /\ stage' = "arrived"
    /\ UNCHANGED <<config, plugin, key, status, wait>>

ClientOf(p, r) == Derive(p.strategy, r.remote, r.xff)

\* A destruction that an unlimited route does without.
DestroyWhenLimited(p, hs) ==
    IF p.average = 0 THEN hs
    ELSE [h \in DOMAIN hs |-> IF h \in destroyedHeaders THEN Blank ELSE hs[h]]

\* req.Header.Del of every destroyed header, whatever the plugin p.
Destroy(p, hs) == [h \in DOMAIN hs |-> IF h \in destroyedHeaders THEN Blank ELSE hs[h]]

\* Publication of the derived address, its aggregate and its source.
Publish(p, client, hs) ==
    IF client.ip = Blank THEN hs
    ELSE [h \in DOMAIN hs |->
            CASE h = HeaderClientIP -> client.ip
              [] h = HeaderClientSubnet -> SubnetCIDR(client.ip, p.ipv6Subnet)
              [] h = HeaderClientIPSource /\ client.source # NoSource ->
                     Text(client.source, Zero)
              [] OTHER -> hs[h]]

\* The headers of request r on their way to the backend.
Published(p, r) == Publish(p, ClientOf(p, r), Destroy(p, r.headers))

\* average = 0, or the full address is whitelisted.
Bypasses(p, r) == p.average = 0 \/ Contains(p.whitelist, ClientOf(p, r).ip)

\* A key that is the address itself.
KeyUnaggregated(p, r) ==
    CASE p.keyedBy = "walk"     -> ClientOf(p, r).ip
      [] p.keyedBy = "strategy" -> ClientOf(p, r).ip
      [] p.keyedBy = "host"     -> r.host
      [] p.keyedBy = "header"   -> Published(p, r)[p.headerName]

\* sourceMatcher.Extract, which none of the extractors that New builds fails.  A
\* header is read after the destruction and the publication.
Key(p, r) ==
    CASE p.keyedBy = "walk"     -> Subnet(ClientOf(p, r).ip, p.ipv6Subnet)
      [] p.keyedBy = "strategy" -> ClientOf(p, r).ip
      [] p.keyedBy = "host"     -> r.host
      [] p.keyedBy = "header"   -> Published(p, r)[p.headerName]

Answer(what, seconds) ==
    /\ status' = what
    /\ wait' = seconds
    /\ stage' = "answered"
    /\ UNCHANGED <<config, plugin, request>>

Bypass ==
    /\ stage = "arrived"
    /\ Bypasses(plugin, request)
    /\ headers' = Published(plugin, request)
    /\ Answer("forwarded", 0)
    /\ UNCHANGED key

\* rl.limiter.Allow is called.
Ask ==
    /\ stage = "arrived"
    /\ ~Bypasses(plugin, request)
    /\ headers' = Published(plugin, request)
    /\ key' = Key(plugin, request)
    /\ stage' = "asked"
    /\ UNCHANGED <<config, plugin, request, status, wait>>

\* res.Allowed > 0.
Admit == stage = "asked" /\ Answer("forwarded", 0) /\ UNCHANGED <<headers, key>>

\* res.Allowed <= 0, with a RetryAfter of so many whole seconds and a fraction.
TooMany(seconds) ==
    stage = "asked" /\ Answer("429", seconds + 1) /\ UNCHANGED <<headers, key>>

\* err != nil, by failure mode.
FailOpen ==
    /\ stage = "asked"
    /\ plugin.failureMode = "open"
    /\ Answer("forwarded", 0)
    /\ UNCHANGED <<headers, key>>

FailClosed ==
    /\ stage = "asked"
    /\ plugin.failureMode # "open"
    /\ Answer("503", plugin.retryAfter)
    /\ UNCHANGED <<headers, key>>

\* The request is over.
Finish ==
    /\ stage = "answered"
    /\ request' = Nothing /\ headers' = Nothing /\ key' = Nothing
    /\ status' = Unanswered /\ wait' = 0
    /\ stage' = "ready"
    /\ UNCHANGED <<config, plugin>>

Init == /\ config = Nothing /\ plugin = Nothing
        /\ request = Nothing /\ headers = Nothing /\ key = Nothing
        /\ status = Unanswered /\ wait = 0
        /\ stage = "unbuilt"

Next == \/ \E c \in Config : Write(c)
        \/ \E env \in Env : NewRefuses(env) \/ NewBuilds(env)
        \/ \E r \in Request : Arrive(r)
        \/ Bypass \/ Ask
        \/ Admit \/ \E seconds \in 0 .. MaxWait : TooMany(seconds)
        \/ FailOpen \/ FailClosed
        \/ Finish

Spec == Init /\ [][Next]_vars

-----------------------------------------------------------------------------
(* Properties. *)

Positive == Nat \ {0}

\* The types, and with them what the other modules assume of a plugin: whatever
\* configuration was accepted, the limiter divides by a positive rate and a
\* positive period, and the breaker's threshold and period are positive.
TypeOK ==
    /\ stage \in {"unbuilt", "written", "ready", "arrived", "asked", "answered"}
    /\ stage = "written" => config \in Config
    /\ stage \in {"ready", "arrived", "asked", "answered"} =>
           /\ plugin.average \in Nat
           /\ {plugin.burst, plugin.period, plugin.threshold, plugin.retryAfter,
                plugin.timeout} \subseteq Positive
           /\ plugin.ipv6Subnet \in MinIPv6Subnet .. MaxIPv6Subnet
           /\ plugin.failureMode \in {"open", "closed"}
    /\ stage \in {"arrived", "asked", "answered"} => request \in Request
    /\ stage = "asked" => plugin.average # 0
    /\ status \in {Unanswered, "forwarded", "429", "503"}
    /\ wait \in Nat

\* "Destroying them is what makes the published values trustworthy ... a client
\* cannot supply them": on every path, limited, unlimited or whitelisted, which
\* of the destroyed headers a request arrived with changes neither what the
\* backend sees nor the bucket, also when the source criterion names one.
ForgeryIgnored ==
    stage \in {"asked", "answered"} =>
        \A H \in SUBSET destroyedHeaders :
            LET other == [request EXCEPT !.headers =
                            [h \in DOMAIN @ |-> IF h \in H THEN Text("junk", Zero)
                                                ELSE IF h \in destroyedHeaders THEN Blank
                                                ELSE @[h]]]
            IN  /\ Published(plugin, other) = headers
                /\ stage = "asked" => Key(plugin, other) = key

Walking == plugin.strategy.kind = "walk"
KeyedByWalk == plugin.keyedBy = "walk"

\* "HeaderClientSubnet carries the aggregate the limiter keys on": what a backend
\* reads, without its prefix length, is the bucket that was charged.
KeyIsPublishedSubnet ==
    stage = "asked" /\ KeyedByWalk =>
        key = [headers[HeaderClientSubnet] EXCEPT !.suffix = <<>>]

\* Requests through a single hop.
Single == {r \in Request : Len(r.xff) = 1}

\* The first bits of two IPv6 addresses agree.
SameNetwork(a, b, bits) ==
    \A i \in 1 .. 4 : Ends.v6[i] <= bits => a.part[i] = b.part[i]

\* "Aggregation is UNCONDITIONAL": two IPv6 clients share a bucket if and only
\* if they are in one network of the configured size, however their addresses
\* are written and whatever host bits they use.
OneNetworkOneBucket ==
    stage = "asked" /\ KeyedByWalk =>
        \A r \in Single :
            LET mine   == ClientOf(plugin, request).ip
                theirs == ClientOf(plugin, r).ip
            IN  (\A t \in {mine, theirs} : ParsesIP(t) /\ t.addr.fam = "v6")
                => (Key(plugin, r) = key
                    <=> SameNetwork(mine.addr, theirs.addr, plugin.ipv6Subnet))

\* Resolve "never returns an empty string": with trusted proxies every request
\* has a bucket, and its backend an address, an aggregate and a source.
NeverTheEmptyKey ==
    stage = "asked" /\ Walking =>
        /\ KeyedByWalk => key # Blank
        /\ \A h \in {HeaderClientIP, HeaderClientIPSource, HeaderClientSubnet} :
               headers[h] # Blank

\* Request r after one more hop of ours has forwarded it: the hop appends its
\* own peer to the chain.
OneHopIn(r, hop) ==
    [r EXCEPT !.xff = IF r.xff = <<Blank>> THEN <<HostOf(r.remote)>>
                      ELSE Append(r.xff, HostOf(r.remote)),
              !.remote = hop]

\* The walk "is position-independent: the same configuration is correct at the
\* edge ... and at a backend one hop further in": where the edge finds a client,
\* the hop behind it finds the same.  (Not when the edge's own peer has an IPv6
\* zone: Contains takes it, normaliseEntry does not.)
PositionIndependent ==
    stage = "arrived" /\ Walking =>
        LET edge == ClientOf(plugin, request)
        IN  \A hop \in {r.remote : r \in Request} :
                /\ Contains(plugin.strategy.rules, HostOf(hop))
                /\ edge.source \in {"xff", "peer-untrusted"}
                /\ ParsesIP(HostOf(request.remote))
                /\ Len(request.xff) < MaxXFFEntries
                => ClientOf(plugin, OneHopIn(request, hop)).ip = edge.ip

\* The chain alone decides: for the walk, some entry or the peer is not one of
\* ours; for the depth, the chain is that long; for the pool, something was found.
Decided(p, r) ==
    CASE p.strategy.kind = "walk"   ->
             \/ ~Contains(p.strategy.rules, HostOf(r.remote))
             \/ \E i \in 1 .. Len(r.xff) : ~Ours(p.strategy.rules, r.xff[i])
      [] p.strategy.kind = "depth"  -> Len(r.xff) >= p.strategy.depth
      [] p.strategy.kind = "pool"   -> ClientOf(p, r).ip # Blank
      [] p.strategy.kind = "remote" -> TRUE

\* What a client writes at the left end of a chain never matters once the chain
\* decides, garbage included: "Skipping a malformed entry would let a client hide
\* a hop behind garbage and shift which address the walk lands on".
PrependingChangesNothing ==
    stage = "arrived" =>
        \A r \in Single :
            /\ request.xff # <<Blank>>
            /\ Len(request.xff) < MaxXFFEntries
            /\ Decided(plugin, request)
            => ClientOf(plugin, [request EXCEPT !.xff = r.xff \o @])
                   = ClientOf(plugin, request)

\* The two secrets are "checked BEFORE the '$' indirection", or "the same config
\* would be rejected on one box and silently accepted on another".
AcceptanceIgnoresEnvironment ==
    stage = "written" => \A e, f \in Env : Accepts(config, e) <=> Accepts(config, f)

\* TLS "is also implied by any of the four settings", half a key pair "is a
\* mistake, not a downgrade signal": a plugin built from any TLS setting dials
\* with TLS and verifies a name.
NeverDowngrades ==
    [][\A env \in Env :
           NewBuilds(env) /\ ( \/ config.redisTls
                              \/ config.redisCaCertFile # "" \/ config.redisServerName # ""
                              \/ config.redisClientCertFile # ""
                              \/ config.redisClientKeyFile # "" )
           => plugin'.tls.on /\ plugin'.tls.name # ""]_vars

\* "Requiring the choice means deleting trustedProxies is loud": an accepted
\* configuration with trusted proxies is refused without them.
DeletingIsLoud ==
    stage = "written" /\ config.trustedProxies # {} =>
        \A env \in Env : Accepts(config, env) =>
            ~Accepts([config EXCEPT !.trustedProxies = {}], env)
=============================================================================
