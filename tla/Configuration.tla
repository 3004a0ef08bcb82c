--------------------------- MODULE Configuration ---------------------------
(***************************************************************************)
(* What New of ratelimit.go makes of a configuration: defaults, checks,    *)
(* the choice of the address strategy and of the bucket key (with          *)
(* utils.GetSourceExtractor and IPStrategy.Get), and the TLS part of       *)
(* redis.NewClient.                                                        *)
(*                                                                         *)
(* A configuration is a record with the fields of Config.  Lists of        *)
(* addresses are sets of rules; a file name is "" or what the file holds,  *)
(* "good" or "bad".  A nil sourceCriterion is one whose three criteria are *)
(* absent: New and GetSourceExtractor treat the two alike.                 *)
(***************************************************************************)
EXTENDS ClientAddress

FileName == {"", "good", "bad"}
IPStrategy == [given : BOOLEAN, depth : Int, excludedIPs : SUBSET Rules]

\* Config.
Configs ==
    [redisAddress : STRING, redisPassword : STRING, redisPasswordFile : STRING,
     average : Int, burst : Int, period : Int, breakerThreshold : Int,
     breakerReattempt : Int, redisConnectionTimeout : Int,
     whitelistIPs : SUBSET Rules,
     redisTls : BOOLEAN, redisCaCertFile : FileName, redisClientCertFile : FileName,
     redisClientKeyFile : FileName, redisServerName : STRING, failureMode : STRING,
     trustedProxies : SUBSET Rules, ipv6Subnet : Int,
     ipStrategy : IPStrategy, requestHeaderName : STRING, requestHost : BOOLEAN]

MinIPv6Subnet == 32
MaxIPv6Subnet == 64
DefaultIPv6Subnet == 64

\* A default for the value that was left out only: what a zero test would do.
OrDefaultIfZero(value, default) == IF value = 0 THEN default ELSE value

\* Numbers below 1 take their default.
OrDefault(value, default) == IF value < 1 THEN default ELSE value

\* '$' indirection: env is the value of the variable named, "" if it is unset.
Indirect(value, env) == IF value = "$VAR" THEN env ELSE value

IPv6SubnetOf(c) == IF c.ipv6Subnet = 0 THEN DefaultIPv6Subnet ELSE c.ipv6Subnet

-----------------------------------------------------------------------------
(* TLS: tlsRequested, buildTLSConfig. *)

\* A flag that the operator has to remember beside the CA.
OnlyTheFlag(c) == c.redisTls

TLSRequested(c) ==
    \/ c.redisTls
    \/ \E file \in {c.redisCaCertFile, c.redisClientCertFile, c.redisClientKeyFile,
                    c.redisServerName} : file # ""

\* hostFromAddr, after New has filled in an empty address.
HostFromAddr(addr) == IF addr = "" THEN "redis" ELSE IF addr = ":6379" THEN "" ELSE addr

ServerName(c) ==
    IF c.redisServerName # "" THEN c.redisServerName ELSE HostFromAddr(c.redisAddress)

\* buildTLSConfig succeeds.
TLSBuilds(c) ==
    /\ c.redisClientCertFile = "" <=> c.redisClientKeyFile = ""
    /\ ServerName(c) # ""
    /\ c.redisCaCertFile # "bad"
    /\ c.redisClientCertFile # "" =>
           c.redisClientCertFile = "good" /\ c.redisClientKeyFile = "good"

\* The tls.Config of the client, or nil, which is off.  There is no way to skip
\* the verification.
TLSConfig(c) == [on |-> TLSRequested(c), name |-> IF TLSRequested(c) THEN ServerName(c) ELSE ""]

-----------------------------------------------------------------------------
(* The source criterion. *)

\* IPStrategy.Get: depth overrides excludedIPs.
StrategyOf(s) ==
    IF s.depth > 0 THEN [kind |-> "depth", depth |-> s.depth, rules |-> {}]
    ELSE IF s.excludedIPs # {} THEN [kind |-> "pool", depth |-> 0, rules |-> s.excludedIPs]
    ELSE [kind |-> "remote", depth |-> 0, rules |-> {}]
StrategyBuilds(s) == s.depth > 0 \/ s.excludedIPs = {} \/ CheckerBuilds(s.excludedIPs)

\* GetSourceExtractor succeeds: at most one criterion, and a strategy that
\* builds.
ExtractorBuilds(c) ==
    /\ ~(c.ipStrategy.given /\ c.requestHeaderName # "")
    /\ ~(c.ipStrategy.given /\ c.requestHost)
    /\ ~(c.requestHeaderName # "" /\ c.requestHost)
    /\ c.ipStrategy.given => StrategyBuilds(c.ipStrategy)

\* Which extractor the plugin ends up with: the trusted-proxy walk replaces the
\* default one.
KeyedBy(c) ==
    IF c.requestHeaderName # "" THEN "header"
    ELSE IF c.requestHost THEN "host"
    ELSE IF c.trustedProxies # {} THEN "walk"
    ELSE "strategy"

\* A switch whose default is RemoteAddr, like upstream's.
DerivationWithFallback(c) ==
    c.trustedProxies # {} => CheckerBuilds(c.trustedProxies)

\* The switch that initialises ipStrategy takes one of its two good branches.
DerivationBuilds(c) ==
    IF c.trustedProxies # {} THEN CheckerBuilds(c.trustedProxies)
    ELSE c.ipStrategy.given /\ StrategyBuilds(c.ipStrategy)

-----------------------------------------------------------------------------
(* New. *)

\* The check made after the indirection, on what the variable holds.
OneSecretResolved(c, env) ==
    Indirect(c.redisPassword, env) = "" \/ c.redisPasswordFile = ""

\* redisPassword and redisPasswordFile exclude each other as written, and again
\* in NewClient as resolved.
OneSecret(c, env) ==
    /\ c.redisPassword = "" \/ c.redisPasswordFile = ""
    /\ Indirect(c.redisPassword, env) = "" \/ c.redisPasswordFile = ""

\* New returns no error.
Accepts(c, env) ==
    /\ c.average >= 0
    /\ c.burst >= 1
    /\ c.failureMode \in {"", "open", "closed"}
    /\ OneSecret(c, env)
    /\ IPv6SubnetOf(c) \in MinIPv6Subnet .. MaxIPv6Subnet
    /\ ~(c.trustedProxies # {} /\ c.ipStrategy.given)
    /\ ExtractorBuilds(c)
    /\ c.whitelistIPs # {} => CheckerBuilds(c.whitelistIPs)
    /\ DerivationBuilds(c)
    /\ TLSRequested(c) => TLSBuilds(c)

\* The ClusterRateLimit that New returns.  An empty whitelist is a nil checker.
New(c) ==
    [average     |-> c.average,
     burst       |-> c.burst,
     period      |-> OrDefault(c.period, 1),
     threshold   |-> OrDefault(c.breakerThreshold, 3),
     retryAfter  |-> OrDefault(c.breakerReattempt, 15),
     timeout     |-> OrDefault(c.redisConnectionTimeout, 2),
     failureMode |-> IF c.failureMode = "" THEN "closed" ELSE c.failureMode,
     ipv6Subnet  |-> IPv6SubnetOf(c),
     strategy    |-> IF c.trustedProxies # {}
                     THEN [kind |-> "walk", depth |-> 0, rules |-> c.trustedProxies]
                     ELSE StrategyOf(c.ipStrategy),
     keyedBy     |-> KeyedBy(c),
     headerName  |-> c.requestHeaderName,
     whitelist   |-> c.whitelistIPs,
     tls         |-> TLSConfig(c)]
=============================================================================
