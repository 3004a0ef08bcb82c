# TLA+ specifications of traefik-cluster-ratelimit

This directory holds the specifications of the cluster rate limit plugin: TLA+
modules, the TLC configurations that check them, and proofs for the TLA+ proof
system (TLAPS).  Every definition is translated from the Go and Lua source in
`src/`; where a comment or the documentation says something else, the code is
what is modelled and the difference is a finding (last section).

## The system

A request enters `ClusterRateLimit.ServeHTTP`, which destroys address headers a
client could have forged, derives the client address, publishes it, lets
whitelisted and unlimited requests pass, and otherwise asks the `Limiter` whether
the request's source is within its rate.  The limiter runs a Lua script in Redis
through a circuit breaker, a script runner and a connection pool.  Many request
goroutines run this path at once; several Traefik instances share one Redis.

New turns a configuration into a plugin once; every dial of the pool reads the
secret again.

    ServeHTTP --> Limiter --> breaker --> script runner --> pool, RESP --> Redis
    ratelimit.go  rate.go     script_     script.go         redis.go       lua.go
                              breaker.go

| Part | State | Operations | What is hard | What makes it correct |
|---|---|---|---|---|
| Limiter scripts (`lua.go`, `rate.go`) | one arrival time (TAT) per key, with an expiry, in Redis | `AllowN`, `AllowAtMost`, `Reset` | rounding of the expiry, a TAT in the past, fractional credit, numbers truncated on the way out | it is a token bucket; never more than the burst plus the refill between any two admissions; the numbers of the reply are right |
| Circuit breaker (`script_breaker.go`) | `errorCount`, `nextAttempt`, without a lock | `Run` | data races: lost increments, a late failure over a success, racing probes; a literal 3 beside the threshold | opens after the configured failures, re-arms after each failed probe, never inert in an outage, closes after it |
| Script runner (`script.go`) | `scriptSha`, without a lock | `Run` | the sha is read twice, stored as two words, and outlives Redis' script cache | a caller never gets another's reply; loads the script once and serves |
| Redis client (`redis.go`) | the channel of pooled connections; a mutex around `put` | `NewClient`, `get`, `put`, `newConn`, `sendCommand`, `Ping`, `Del`, `Close` | broken, late and half-used connections; more callers than pool places | no socket shared or leaked, no caller blocked, recovers when Redis does |
| Dial (`redis.go`: `newConn`, `authSecret`, `buildTLSConfig`) | a secret file that rotates; nothing cached | connect, TLS, AUTH, SELECT | rotation between the read and the AUTH, half-written file, start before the first render | a dial after a rotation uses the new secret; a failed step closes the socket |
| Client address (`internal/ip`) | none | trusted-proxy walk, depth, pool, remote address, `Subnet`, `Checker` | malformed entries, chain length, spellings of one address | nothing left of the first untrusted entry decides; never the empty key |
| Source extractors (`internal/utils`) | none | `GetSourceExtractor`, `Extract` | which criterion wins | exactly one criterion; one key per source |
| Middleware (`ratelimit.go`) | none per request | `ServeHTTP` | order of destruction, publication, whitelist, limiter and failure posture | no forged header reaches the backend; 429 and 503 advertise a wait that is true |
| Configuration (`ratelimit.go`: `New`) | none | validation, defaults | exclusions, defaults applied before or after a check | whatever is accepted can be run |

## Modules

| Module | Models | State and actions |
|---|---|---|
| `TokenBucket` | what the limiter promises: the bucket of the plugin's README, without TAT, expiry or Redis | `level`, `grant`; `Refill`, `Take`, `TakeUpTo`, `Refuse`, `Forget` |
| `AllowScript` | `allowNLua`, `allowAtMostLua`, `Limiter.AllowN` / `AllowAtMost` / `Reset`, the key space and clock of Redis, and the retry-after of a 429 | `now` is `TIME`; `store[k]` the value and expiry of the key; `reply` the last `Result`.  Each script is one action split into its refused and granted branch, because Redis runs scripts atomically.  `admitted` and `grants` are history |
| `Breaker` | `NewScriptWithBreaker`, `ScriptImplWithBreaker.Run` for any number of goroutines | one action per unsynchronised access: `ReadCount` and `ReadTime` (the two operands of the condition), `ScriptReturns`, `ResetCount`, `BumpRead` and `BumpWrite` (the `++`), `Check`, `ReadClock` and `Arm` (the next attempt is computed in `due[c]`, then stored); `Tick` and `Turn` are time and Redis.  `streak` and `sinceRound` are history |
| `RedisClient` | the pool and exchange of `redis.go` and `ScriptImpl.Run`, together because they share the connection and its error paths | per caller `pc`, the connection `held`, the command `req` and the `sha` in it; `pool` is the channel; `GetPooled`/`GetMiss`, `DialOK`/`DialFails`, `Send`/`SendFails`/`SendPanics`, `Read`/`ReadFails`/`ReadTimesOut`, `ReadParams`/`Branch`/`StoreBegin`/`StoreEnd`, `Put`; `Stop`, `Start`, `Drop`, `Flush`, `Refuse` are Redis and the network |
| `Dial` | `newConn`, `authSecret`, `readPasswordFile` step by step, which `RedisClient` takes as one step | per dialer `pc`, the `secret` of the dial, whether it holds a socket (`sock`); `SecretFails`/`SecretRead`, `ConnectFails`/`Connected`, `HandshakeFails`/`HandshakeDone`, `ExchangeFails`, `AuthRefused`/`AuthAccepted`, `SelectRefused`/`Selected`, `Retire`; `Rotate`, `RenderBegins`, `RenderEnds`, `Turn` are the server and the sidecar.  `authed` and `stale` are history |
| `ClientAddress` | `internal/ip`: parsing, `Checker`, the trusted-proxy walk with its five exits, depth, pool, remote address, `Subnet`, `SubnetCIDR` | operators only |
| `Configuration` | `New`'s checks and defaults, `GetSourceExtractor`, `IPStrategy.Get`, `tlsRequested`, `buildTLSConfig` | operators only: `Accepts(c, env)` is "`New` returns no error" and `New(c)` the plugin it returns |
| `Middleware` | loading a configuration, and `ServeHTTP` on every path, with the limiter seen from outside | `Write`, `NewRefuses`, `NewBuilds`; `Arrive`, `Bypass`, `Ask`, `Admit`, `TooMany`, `FailOpen`, `FailClosed`, `Finish` |
| `System` | one gateway through an outage: `ServeHTTP` and `Limiter.AllowN` over `Breaker` and `AllowScript`, while other gateways charge the same keys | instances of both with a variable for each of theirs; `Begin`, `Gate`, `Execute`, `Unserved`, `Lose`, `Return`, `Count` are the steps of a call, each with the action of the instance it takes; `Other`, `Tick`, `RedisTick`, `Turn`, and `Wear` and `Mend`, what becomes of the pool and of the loaded script (`sound`).  `source[c]` is the key of a caller's request; `passed`, `lost` and `others`, the ledger of each source, and `trouble` are history |
| `MCRedisClient`, `MCMiddleware` | the symmetry of the callers; the configurations and requests of the run | |
| `AllowScriptProofs`, `BreakerProofs`, `RedisClientProofs`, `DialProofs`, `ClientAddressProofs`, `MiddlewareProofs`, `SystemProofs` | theorems about the module of the name | |
| `AllowReplyProofs` | theorems about the replies of `AllowScript` | |

Definitions whose comment describes a bug that the code does *not* have
(`TatNoMax`, `UnservedAllows`, `TripsOnce`, `PutLeaks`, `ExitSkipping`,
`SecretCaptured` and so on, each in front of the definition it would replace) are mutations: replacing the definition by it must break the
property `PROJECT.json` pairs it with, which is how each property is shown to
constrain the code.

### Decisions of the models

*Time of the scripts.*  The scripts divide seconds by `rate`.  The model counts
in ticks of 1 / (Rate * Res) second, in which the emission interval (Period *
Res), the burst offset and a second (Rate * Res) are integers.  The expiry is
rounded up to whole seconds as in the Lua; the two leading numbers of a reply are
truncated as Redis truncates Lua numbers.  The rounding of doubles is left out.

*Reset.*  `Reset` also stands for eviction and for a Redis that comes back
without its data: each forgets the key.

*Races in Go.*  An unsynchronised read-modify-write is a read step and a write
step; so is `nextAttempt = time.Now().Add(...)`, whose clock is read before the
store (`ReadClock`, `Arm`): a caller held up between the two stores an older
attempt over a newer one.  `time.Now().After(nextAttempt)` reads a clock and a
field in one step (`ReadTime`).  Two steps would add one outcome: a caller whose
clock is old is refused by a value that was already past when another caller
stored it.  One more refusal in an outage touches none of the properties of
`breaker_racing`, which speak of when the window opens and closes.  A torn
`time.Time` behaves as the old or the new value, because `After` compares one
word.  In `RedisClient` a string is stored as
length, then pointer: while `scriptSha` is half stored a read may give the empty
string, the whole one, or one that panics when it is formatted (`"torn"`).

*The deferred put.*  `defer rs.client.put(conn)` evaluates `conn` when it is
executed, so `conn = nil` on the error paths has no effect on it.  `Put` is
therefore a step of every path after a successful `get`, with the connection as
it was.

*Exchange.*  A live Redis carries out a command when it is sent, or refuses it
with an error (`Refuse`: LOADING, NOPERM).  A connection that breaks afterwards
loses the reply and not the effect.  `Run` tells the sha that SCRIPT LOAD answers
from an error by its 40 characters; the errors of the model have another length.

*The client in `System`.*  A call is carried out or not, and its reply is lost or
not.  What `client_poisoned` and `client_flushed` show is a flag, `sound`: whether
every pooled connection works and Redis has the script.  It is lost at any time
(`Wear`: a failed call puts a closed connection back, an outage breaks idle ones,
a restart forgets the script), while it is lost each call may fail although Redis
is up, and it may stay lost for ever; `Mend` (a full pool drops the last closed
connection, another gateway loads the script) is possible and never assumed.

*Variadic arguments.*  `convertToStringArray(args)` hands over a slice as one
element.  By the Go specification the script receives one argument; an
interpreter may spread it.  `Spread` says which.  The runs about other questions
take `Spread = TRUE`, the reading under which the plugin works at all, and
`client_args` shows the other.

*One step for a dial.*  `RedisClient` dials in one step that succeeds or fails.
`Dial` is what allows it: a dial that fails leaves no socket behind (`NoLeak`)
and every dial ends (`EveryDialEnds`).  A server whose certificate does not
verify looks to a dial like one that does not answer the handshake: both are
`server = "hole"`.

*Secrets.*  The secret of the server and the content of the file are version
numbers; an absent file, an empty one and one in the middle of being rendered
(also empty) are told apart from them, a file with part of a secret is not: it
is a wrong secret, and refused like a stale one.

*Texts.*  A header, `RemoteAddr` or `Host` is a record of how it is spelled, the
address it spells and what follows it.  The spellings are those that
`net.ParseIP`, `netip.ParseAddr` and `IP.String` treat differently.  An address
has four groups of bits, which end at 8, 16, 24, 32 (IPv4) and at 32, 48, 64, 128
(IPv6): prefix lengths between them are not told apart, and 32, 48, 64 are the
ones that the accepted range of `ipv6Subnet` makes different.

*Requests.*  `X-Forwarded-For` is its first line, split and trimmed; an absent
one and an empty one are `<<Blank>>`, because `strings.Split` never returns an
empty list.  One request at a time is in `Middleware`, because requests share
nothing there; what they share is in `RedisClient`, `Breaker` and `AllowScript`.

*Configurations.*  A list of addresses is a set of rules; a file name is `""` or
what the file holds.  A nil `sourceCriterion` and one with no criterion are the
same record: `New` and `GetSourceExtractor` treat them alike.

*Time in `System`.*  A step that does not wait for Redis takes no time, so the
gateway's clock (`Tick`) ticks only when every caller is idle or in its script
call.  The clock of Redis (`RedisTick`) is another machine's: it runs at its own
pace, and no property compares the two.  Redis keeps its data through an
outage; `AllowScript` has the loss of a key.

*Saturation.*  `errorCount` is only compared with 3 and the threshold and
saturates above both; distances in time saturate once they are past.

## What the runs show

| Run | Question | Bounds, and why they are enough |
|---|---|---|
| `allow_one_key` | Is GCRA with expiring keys the token bucket (`ImplementsTokenBucket`)?  Is the long-run bound kept (`RateBound`), is it inductive (`IInv`), and is each number of a reply exact in both directions (`RetryAfterExact`, `RetryAfterHeaderEnough`, `RemainingExact`, `ResetAfterExact`)? | 2 events per second, burst 2, calls for 0 to 3 events (none, some, all, more than the burst), clock twice as fine as the emission interval, 9 ticks = 2.25 s: buckets empty, refill partly and fully, and keys expire (after 1 s and 2 s) and are used again.  One key: keys never interact, and the proofs are for any set of keys |
| `breaker_racing` | Does it re-arm (`ReArmed`), keep protecting in a lasting outage (`KeepsProtecting`) and close after it (`Recovers`) although increments get lost and stale attempts are stored over newer ones? | two callers are what a lost update and a stale store need, one failure may be written over one success; a period of 2 s, so that a store can be late by a part of it or by all of it; `ReArmed` is proved for any number of callers |
| `client_faults` | Is a socket ever shared or lost (`OneOwner`), can a caller read another's reply (`RepliesMatch`), does anyone block (`EveryCallReturns`)? | two callers and a pool of one, so that the pool runs empty and full; any two faults among stop, drop, flush, refused command and late reply |
| `client_cold_start` | Does the client end up serving when callers race through the first load, with Redis up or down at the start (`KeepsServing`, `WarmNeverErrors`)? | two racing callers, no fault after the start |
| `dial` | Does a dial that fails in any of its steps close its socket (`NoLeak`), is AUTH ever skipped (`NeverSkipsAuth`), does a rotation break more than the dials it falls into (`RefusedOnlyWhenStale`, `Heals`), and can a peer hang a dial (`EveryDialEnds`)? | two dialers, so that one rotation finds them in different steps; two versions of the secret, enough for one to be stale; the server turns up, down or silent at any time and any number of times |
| `gateway` | Is what `New` accepts safe to run (`TypeOK`, `AcceptanceIgnoresEnvironment`, `DeletingIsLoud`, `NeverDowngrades`), do forged headers change nothing (`ForgeryIgnored`), and is the client derived from the chain the right one (`PrependingChangesNothing`, `PositionIndependent`, `NeverTheEmptyKey`, `KeyIsPublishedSubnet`, `OneNetworkOneBucket`)? | some 240 configurations: the fields that are checked together vary together, around a valid base; 900 requests each: chains of one to three entries and one of four, of every spelling, from three peers, with all destroyed headers forged or none.  `MaxXFFEntries` = 3, so that chains reach and pass the cap (32 in the code).  Longer chains and other rules: the theorems |
| `outage` | Is every charge in Redis one request that was forwarded, is under way, was lost, or belongs to another gateway (`Conserved`)?  With `failureMode` closed, do all gateways together forward no more than one bucket admits (`LimitHolds`)?  Is a 503's retry-after long enough (`RetryAfterEnough`), does the breaker open after exactly the configured failures (`StopsAfterThreshold`, `NeverOpensEarly`), and do verdicts come back once Redis is up and the client sound (`Decides`)? | one caller here and any number of requests elsewhere, one key, burst 1; threshold 4, above the literal 3, so that the two differ; a period of 2 s; 3 s of Redis' clock, which runs at any pace beside the gateway's; one lost call, Redis and the soundness of the client going and coming at any time; both failure modes.  More callers and sources: the theorems |
| `breaker_threshold_two`, `client_poisoned`, `client_flushed`, `client_racing_load`, `client_args` | findings: TLC must find the violation | the smallest instance that shows it |

A passing run explores its whole state space; there is no state constraint.  The
bounds are `MaxTime` and `Cost` (AllowScript), saturation (Breaker), `MaxFaults`,
`MaxActive` and the callers (RedisClient), `MaxVersion` (Dial), `MaxWait`,
`MaxXFFEntries` and the sets of configurations and requests (Middleware), and
`MaxLosses` (System).

`outage` has one caller because `StopsAfterThreshold` and `NeverOpensEarly` hold
for calls one at a time (see *Also seen*); racing callers are in
`breaker_racing`.

Deadlock is not disabled in any run.  In `AllowScript` calls remain possible when
the clock has reached `MaxTime`.

### Fairness

`Breaker!FairSpec` is weak fairness of time and of each caller's steps:
goroutines are scheduled, a call to Redis returns because the connection has
deadlines, and requests keep coming.  Without the last there would be no probe,
and indeed nothing in the code probes by itself.  `Turn` is not fair: Redis may
stay as it is for ever, and the properties say what happens when it does.

`RedisClient!FairSpec` is the same for its callers, and a Redis that stopped is
started again.  A late reply is not fair, a fault is never forced to happen.  No
fairness is assumed between callers for a connection: `get` never waits.

`Dial!FairSpec` lets every step of a dial end, which the connect timeout, the
deadline of the handshake and those of AUTH and SELECT guarantee; requests that
miss the pool keep coming; and a sidecar finishes the file it began.  The server
may stay silent for ever, and `Rotate` is never forced.

`KeepsProtecting` has a hypothesis on the scheduler, `Prompt`: from some point on no
goroutine is held up between computing a next attempt and storing it until that
attempt is past.  Without it one caller after the other could store a time that is
over, and the breaker would stay open to all.  `Recovers` needs no such thing.

`Decides` assumes that from some point on Redis is up *and* the client sound.
That Redis stays up is not enough: by findings 2 and 3 calls may go on failing for
ever after an outage or a restart, and the fairness does not mend them.  What
`Decides` adds is that the breaker is no further obstacle, whatever it counted and
armed before.

`System!FairSpec` adds time: strong fairness of `Tick`, because a tick is
disabled whenever a caller is between two of its own steps.  Nothing is assumed of
Redis' clock.  Real time passes
whatever the callers do; weak fairness would let callers that are always on the
move stop the clock.

## What is proved

All with TLAPS, for every value of the constants that the modules' assumptions
admit: `LimitAssumption` and `BreakerAssumption` (what `New` guarantees, as
`MiddlewareProofs!TypeCorrect` shows in turn, and no bound but `MaxTime` as the
name of a natural number), `ClientAssumption` (finitely many callers, a pool of
at least one), `SystemAssumption` (the first two, one event per request as
`Limiter.Allow` asks for, finitely many callers),
`DialAssumption`, `EntriesAssumption`, and `MiddlewareAssumption` (configurations
and requests are any records of the right fields, a peer is an address).

`AllowScriptProofs`
- `TypeCorrect`: `Spec => []TypeOK`.
- `InductiveInvariant`: `Spec => []IInv`.  `RateBound` alone is not inductive: it
  compares admissions with each other, and says nothing of the stored TAT that
  decides the next one.  `StoreInv` ties the TAT to the clock (a key outlives its
  TAT, so a key that has expired owes nothing; the TAT is at most a burst ahead)
  and `HistoryInv` ties it to the admissions (it has moved an emission interval
  past any admission for each event admitted since).  A granted call adds an
  admission whose TAT, by the guard of the script, is within a burst of now:
  with `HistoryInv` that is `RateBound` for the new pair.
- `RateBoundHolds`: `Spec => []RateBound`.
- `TokenBucketImplemented`: `Spec => Bucket!Spec`, the refinement, with the level
  of the bucket defined from the stored TAT.  `StoreInv` makes the mapping work
  at expiry: dropping an expired key leaves the level full, as it was.

`AllowReplyProofs`, for every limit, set of keys and cost
- `RepliesAreTrue`: `Spec => []ReplyInv`.  The exactness of a reply compares it
  with the store at a later time, when the key may have expired, so none of the
  four properties is inductive.  `ReplyInv` says what a reply determines for good:
  the arrival time of its key (the later of the stored one and the moment of the
  reply is the reply's own moment plus `reset_after`), and on a refusal the wait, on
  an admission the whole events that fit (truncation as two bounds).
- `RetryAfterExactHolds`, `RetryAfterHeaderEnoughHolds`, `RemainingExactHolds` and
  `ResetAfterExactHolds` follow from it and `StoreInv`.

`BreakerProofs`
- `TypeCorrect`: `Spec => []TypeOK`.
- `ReArmedHolds`: `Spec => []ReArmed`, for any set of callers: a count at the
  threshold that no caller is still deciding about implies that the next attempt is
  a whole period after the round of failures began.  A round is what overlaps: from
  the first raised count until every caller that raised one has moved on.  After its
  *last* failure the claim would be false, since an attempt computed early in the
  round may be stored last.  `ReArmed` is not inductive: it does not say what a
  caller that is about to store has in its hands.  `DueInv` does: it was computed in
  the round that is going on.
- `NeverOpensEarlyHolds` and, for a threshold not below the literal 3,
  `StopsAfterThresholdHolds`, for one caller (`Caller = {only}`).  `SoleInv` says
  that the count is then the number of failures in a row, and that a caller whose
  call succeeds never finds the breaker armed.  The hypotheses are what the code
  needs: racing increments get lost, and finding 1 is a threshold below 3.

`RedisClientProofs`, for any number of callers, size of the pool and faults
- `TypeCorrect`, `OneOwnerHolds` and `RepliesMatchHold`, from
  `IInv == TypeOK /\ CommandInv /\ OwnerInv /\ ReplyInv`.  The three need each
  other: `RepliesMatch` needs that a connection with a reply in it belongs to the
  one caller that waits for it (`ReplyInv`), which needs that no other caller has
  it (`OwnerInv`), and a reply has the right type because the command is known
  where it is read (`CommandInv`).  `OwnerInv` restates `OneOwner`, which counts, by
  quantifiers; the proof of the theorem goes back to the cardinalities.
- `DialFindsOne` counts: the pool has at most `MaxActive` sockets and the other
  callers one each, so of `MaxActive + |Caller|` names one is free and the model
  never blocks a dial that the code would make.
- `WarmNeverErrorsHolds`: with `Spread`, the reading of Go under which the script
  gets its arguments at all.  `CalmInv` says that until the first fault every
  connection works, a known sha means a loaded script, and who sends the sha gets
  an array.

`SystemProofs`, for any number of callers, sources and lost calls
- `ScriptRefined`: `Spec => S!Spec`: every behaviour of the gateways is one of the
  script, so the theorems above hold of it.  `RateBoundCarriesOver` is the one
  that matters.
- `Invariant` and `TypeCorrect`.  The inductive invariant has the script's and the
  breaker's (whose steps here are its own, but the composition decides how a script
  call ends: `BreakerMoves`), and five parts of the composition.
- `ConservedHolds`.  `FlowInv` says when a caller has the result of a script call
  in its hands, so that a charge is counted exactly when it leaves them.
- `LimitHoldsAlways`.  By `ChargedInv` every event ever admitted has moved the
  stored arrival time an emission interval, and by `StoreInv` that is at most a
  burst ahead of the clock; with `Conserved` what is forwarded is no more than what
  was admitted.  `ClosedInv`: nobody passes for free.
- `RetryAfterEnoughHolds`, also for racing callers: what is left of the window and
  what has passed since a call last failed are together at most a period
  (`TroubleInv`), since arming follows a failure in no time.
- `NeverOpensEarlyHolds`, `StopsAfterThresholdHolds`: as for the breaker, for one
  caller.

`DialProofs`, for any number of dialers and rotations
- `TypeCorrect`, `NoLeakHolds`, `NeverSkipsAuthHolds` and
  `RefusedOnlyWhenStaleHolds`.  The inductive invariant adds `SecretInv`, which
  follows the secret through a dial: between its read and the SELECT it is empty
  only if nothing was configured, it is the server's unless it went stale, and a
  connection past AUTH was accepted with one.

`ClientAddressProofs`, for chains of any length up to `maxXFFEntries`, any rules
and addresses
- `PrependedToWalk`, `PrependedToDepth`, `PrependedToPool`: what is in front of a
  chain that decides never matters; `OneHopFurtherIn`: the hop behind the edge
  derives the same client; `OneNetworkOneSubnet`: one aggregate is one network.
  The loop of `Resolve` is modelled by where it stops (`WalkStopsAt`), so the
  proofs need no induction over the chain: the last entry that is not ours
  exists, is unique, and shifts with what is prepended.

`MiddlewareProofs`, for any configurations, requests and headers
- a theorem for `TypeOK` and for each of the nine other properties of `gateway`.
  The inductive invariant says that a plugin was built from an accepted
  configuration, that the headers are the published ones of the request and that
  the limiter is only asked about its key; the properties are consequences of it
  and of the theorems of `ClientAddressProofs`.

Model-checked only:
- liveness, which is out of the prover's reach, as is ENABLED: `KeepsProtecting`,
  `Recovers`, `EveryCallReturns`, `KeepsServing`, `EveryDialEnds`, `Heals` and
  `Decides`;
- that `StopsAfterThreshold`, `KeepsServing` and `HealthyNeverErrors` fail where the
  findings say so: a counterexample, not a theorem.

Each safety property of a passing run is a theorem.

The modules with proofs use no recursion.

## Findings

Each is a disagreement between the code and a sentence of the repository, shown
by a run whose property is violated.

1. `breaker_threshold_two` (`script_breaker.go:27`): `Run` compares `errorCount`
   with the literal 3, so a `breakerThreshold` below 3 is not obeyed.
2. `client_poisoned` (`script.go:33`, `:49`): the deferred `put` returns the
   closed connection to the pool.  With no other traffic every later call takes
   it, fails, and puts it back.  Nothing discards it while the pool has room.
3. `client_flushed` (`script.go:60`): `NOSCRIPT` is an error and the script is
   never loaded again; a restart of Redis needs a restart of the plugin.
4. `client_racing_load` (`script.go:40`): two reads of `scriptSha` around another
   caller's store send `EVALSHA` with an empty sha.
5. `client_args` (`script.go:35`): see *Variadic arguments*.

Also seen, without a run:

- Racing increments of `errorCount` can let calls through after
  `breakerThreshold` failures (`StopsAfterThreshold` fails with two callers; what
  survives is `ReArmed` and `KeepsProtecting`).
- A caller held up between `time.Now()` and the store in `script_breaker.go:39`
  stores an older `nextAttempt` over a newer one, so the window after the last
  failure can be shorter than `breakerReattempt`, and none at all if the caller was
  held up that long.  `ReArmed` and `Prompt` say what remains.
- An error of exactly 40 characters in answer to SCRIPT LOAD would be kept as the
  sha (`script.go:77`).
- A refused `AllowN` for two events or more answers `remaining` 0 though fewer
  events would fit.  The plugin asks for one.
- `Del` takes Redis' integer answer for an error (`redis.go:556`), which nothing
  in the plugin reaches.
- IPv6 addresses are aggregated for the key only with `trustedProxies`
  (`ratelimit.go:270`); with `ipStrategy` every address has a bucket of its own,
  although the comment on `IPv6Subnet` (`ratelimit.go:125`) calls aggregation
  unconditional.  `OneNetworkOneBucket` is therefore stated for the walk.
- `Contains` accepts a peer with an IPv6 zone and `normaliseEntry` does not, so a
  hop behind an edge whose peer is link-local stops at that entry:
  `PositionIndependent` has the hypothesis that excludes it.
- The plugin's README (`README.md:171`) says that an outage lets requests pass; the
  default `failureMode` is `closed` and answers 503 (`ratelimit.go`, `FailureMode`).
- A 503 carries the whole `breakerReattempt` also when the breaker has not opened,
  or will probe sooner: `RetryAfterEnough` bounds it from one side only, by the failures, and with the
  time that goroutines lose between their own steps left out.

## Not modelled

- Doubles, `strconv` and `time.Duration` rounding in the scripts' numbers.
- RESP framing: a reply is one value of a RESP type.  Replies cut in the middle
  are those of a connection that broke.
- `Close` of the client: nothing calls it.
- Certificates and the TLS protocol: files and cryptography.  Which settings ask
  for TLS and which are refused is in `Configuration`.
- `X-Forwarded-For` lines after the first: `Header.Get` never reads them.
- `IsAuthorized` and `extractClientIP`: nothing the plugin builds calls them.  The
  500 of `ServeHTTP`: no extractor that `New` builds fails.
- `redisDb` and `redisUsername`: passed on as they are, with no check and no branch
  but the form of the AUTH command.
- The example deployment: configuration only.

## Plan

1. (done) `TokenBucket`, `AllowScript`, `AllowScriptProofs`: the decision.
2. (done) `Breaker`, `BreakerProofs`: the races of the breaker.
3. (done) `RedisClient`: the pool, the exchange and the script runner.
4. (done) `ClientAddress`, `ClientAddressProofs`: who the client is.
5. (done) `Configuration`, `Middleware`, `MiddlewareProofs`: what is accepted and
   what a request meets.
6. (done) `Dial`, `DialProofs`: rotating secrets and failing steps.
7. (done) `System`: what an outage does to the charges and to the waits.
8. (done) `AllowReplyProofs`, `RedisClientProofs`, `SystemProofs`: the safety
   properties that were only model-checked.
9. For `RedisClient` and `Dial`, that the pool's single step for a dial is a
   refinement of the steps of `Dial`; what racing callers keep of
   `StopsAfterThreshold` (how many calls a lost increment lets through).
10. A Redis clock that steps back.
