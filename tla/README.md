# Silver Gateway in TLA+

A model of Silver Gateway's own logic: what it keeps in memory, in Redis and in
MongoDB, and what happens to it while requests, administrators, timers, hooks and
failing calls interleave. TLC checks the models on small instances; TLAPS proves
the theorems in the `*Proofs` modules for every value of the constants. Paths
below are relative to the repository's `src/`.

## The system

One Node.js process per gateway; code between two `await`s runs without
interruption, so a step of a model is the code from one await to the next.
Processes share MongoDB (`routes`, `api_keys`, `usage_logs`) and Redis (rate-limit
buckets) and nothing else.

| Component | State | Operations | What is hard |
|---|---|---|---|
| Usage log (`analytics/usage-log.service.ts`) | `queue`, `flushing`, `flushTimer` | `enqueueUsageLog`, the interval, `flushQueue` | entries arriving while a batch is in flight; `insertMany` failing after storing part of it; batches of one |
| Route cache (`proxy/route.cache.ts`) and route administration (`proxy/route.service.ts`, `routes/admin.ts`) | `cache`, `loadedAt` per process; the `routes` collection | `resolveRoute`, `getCompiledRoutes`, `invalidateRouteCache`; create, update, delete | fetches overtaken by writes, invalidations and other fetches; other processes' caches; patterns that do not compile; writes whose answer is lost |
| Gateway pipeline (`routes/gateway.ts`, `http/app.ts`, `proxy/proxy.server.ts`) | the handler's locals, the response | match, authenticate, limit, hooks, proxy, report | client, upstream, two timers and hooks, all independent; errors before and after headers; `finish` |
| Authentication (`auth/auth.middleware.ts`, `auth/jwt.service.ts`, `auth/principal.ts`) | `req.principal` | `resolvePrincipalForRoute` | two checks in a row, either of which throws |
| API keys (`auth/api-key.service.ts`) | the `api_keys` collection | issue, update, rotate, revoke, verify | argon2 between reading and writing |
| Rate limiter (`ratelimit/rate-limiter.ts`) | a bucket per client and route in Redis | `consumeRateLimit` | clocks that differ, calls delayed, reordered, run twice |
| Plugins (`plugins/registry.ts`, `plugins/executor.ts`) | `registry`, `loaded` | `loadPlugins`, hook chains with timeouts | imports in any order, duplicate names; hooks that run on after their timeout |
| Server lifecycle (`server.ts`, `database/*.ts`) | `server`, the clients of MongoDB and Redis, `commandDefined` | start, graceful shutdown | flush and disconnects in parallel while requests come in; signals during startup, and second signals; disconnects and binds that fail |
| Route input (`proxy/route.validation.ts`, `updateRoute`) | none | normalise a create or a patch, build the update document | partial and overlapping patches |

A request goes through the pipeline: route cache, authentication (which verifies
API keys), rate limiter, hooks, http-proxy. Its `finish` event enqueues a usage
entry. Administrators write routes and keys; a write of a route invalidates the
cache of the process that served it.

`PROJECT.json` lists every component with its status, the hazards by source line,
and the source lines of every definition.

## Modules

**UsageLog** models the buffer. An entry is its arrival number. `Enqueue`, `Tick`
and `InsertSucceeds`/`InsertFails` are `enqueueUsageLog`, the interval's callback
and the two outcomes of the awaited `insertMany`; `FlushQueue` and `EndFlush` are
the code before and after that await. `USAGE_LOG_BATCH_SIZE` may be any positive
number B: `FlushAt` = ceil(B) and `BatchLimit` = floor(B) are what the comparison
and `splice` make of it. **DurablePrefix** is what the buffer promises: a growing
prefix of the entries is durable. The refinement maps the prefix to everything
that is neither queued nor in flight.

**RouteTable** has the pure part of routing: which documents the query returns,
whether they compile, the sort, the match. A pattern is the set of targets it serves
and whether path-to-regexp accepts it. **RouteInput** says what the body of a POST or
PATCH makes of a route: `Created` and `Normalized` are the two normalisations,
`Patched` is the document after `findByIdAndUpdate` with the `$set` and `$unset` that
`updateRoute` builds. **RouteCache** models any number of processes with a cache
each, requests that hit or start fetches of their own (`Hit`, `Miss`, `Find`, `Fill`,
`Reject`), and administrators (`Issue`, `Apply`, `Acknowledge`, `NotFound`,
`AdminFails`), whose writes MongoDB applies to the document it finds then. The
collection is remembered as a history of tables, each with the write that led to it,
and a cache is a place in that history. **BoundedStaleness** is the promise, without
cache or fetch: a request is routed by a table that was current less than
`MaxStaleness` before it arrived, or refused. The refinement sets `MaxStaleness` to
`CACHE_TTL_MS`.

**RateLimiter** models one bucket and the gateways' calls, each with the limit and
window of the route its gateway has cached, or of the defaults, which `config/env.ts`
lets be any positive numbers. Tokens are counted in units of 1/`Scale` and times in
units of 1/`Milli` of a millisecond, so fine that limits, windows and what accrues in
a unit of time are whole: finitely many positive fractions can always be scaled so.
`Found`, `Refilled`, `Enough` and `Expiry` are the script's paragraphs, `Consume` the
script. PEXPIRE rejects a window that is no whole number of milliseconds
(`Expirable`): HMSET has then been done, the expiry stays what it was, and the call
is answered by an error, so that a run may take a token (`Spent`) without granting it
(`Granted`). `Send` reads the gateway's clock; `Decide` runs the script later;
`DecideUnheard` runs it and loses the answer, after which ioredis sends it again.
**IdealBucket** is refilled all the time and forgets nothing. The script implements
it when the gateways' clocks agree, scripts are not delayed and all use one policy:
`Level`, what the bucket's hash has come to be worth by now, is the ideal level.

**ApiKeys** models one key. `BeginIssue` ... `BeginEdit` are the operations up to
their await, `Write` the write, `Acknowledge` the answer that hands out a token;
`Present`, `Find`, `NotFound` and `Compare` are `verifyApiKeyToken`. The document's
history is kept, so that a property can say what it was while a verification ran.
**AtomicKeys** is the promise, with nothing ever suspended: `Issue`, `Rotate` and
`Edit` change the key in one step and put no secret in force twice, `HandOut` gives
out each secret once, and only after it came into force, and `Verify` judges a token
by the key as it is then. In the refinement the key is the document, an operation
takes effect when MongoDB applies it, and a verification when it finds the document:
`Decisions` is what the verdict will be from then on, whatever is written while
argon2 is awaited.

**Gateway** models one request. `stage` says at which await its handler is
suspended, `response` what the client has received, `upstream` the other side.
Handlers of different requests share only what the modules above model, so one
request is the whole of it. http-proxy, Node's HTTP server, client and upstream
are external: `UpstreamAnswers`, `Relay`, `UpstreamEnds` and `UpstreamBreaksOff`
pipe or cut an answer, `Abandon` is http-proxy's silence about a request whose
client has gone. Which route is found, and whether a check or the limiter says
yes, is nondeterministic here and decided in the modules above. Every pre hook
makes one edit of the request; one that `runWithTimeout` gives up (`HookTimesOut`)
makes it later, beside the rest of the chain (`LateEdit`), or never. `principal` is
`req.principal`, set once all checks have passed, and what the usage entry names.

**PluginRegistry** models `loadPlugins`: the scan, and one `Import` per file, in any
order. `Exports` is what a file exports: a plugin's name, or nothing, which stands
for an import that throws and for whatever `normalizeModule` turns away.

**Server** models one process from start to exit and composes the registry
(`Registry`) and the usage log (`Log`), instances of their modules. `Connected`,
`ConnectFails`, `Load` and `Listen` are `startServer`; `Signal`, `Disconnected`,
`DisconnectFails`, `CloseServer` and `Closed` are `gracefulShutdown` with what it
calls. Each signal starts a shutdown of its own, so `shutdowns` is a sequence: what
its `Promise.all` still awaits, and whether `closeServer` has been called. Requests
are counted by where they are: before the rate limiter's answer, or on their way to
`finish`, which enqueues an entry. `stores` is the state of a client; after
`disconnectRedis`, `getRedisClient` makes a new one, which is "bare" (without the
limiter's command) if `commandDefined` is set already. External, from Node and
Express: `server.close` calls back once the last connection has ended, however many
calls are made, and reports an error for a server that is not listening; Express
passes an error to bind to the `listen` callback, which ignores it.

## Runs

| Run | Shows |
|---|---|
| `usage_log` | order, no loss, at most one duplicate per failed flush, the interval armed behind pending entries, and the refinement with its liveness |
| `usage_log_batch_of_one` (violation) | with batches of one, an entry that arrives during a flush is not stored until another request comes |
| `route_cache` | `loadedAt` honest whatever overtakes what, refusals only for enabled ill-formed routes, and the refinement: staleness below the TTL on all processes, every request answered |
| `route_choice` | the route chosen was enabled and of the highest priority in a table less than the TTL old; every field of a route is what the last write that names it says, however patches overlap |
| `route_cache_read_your_writes` (violation) | a fetch begun before a POST refills the cache with the old table after the POST's invalidation: the new route is not served at once |
| `route_cache_bad_pattern` (violation) | one ill-formed pattern, which validation lets through, makes good routes answer 500 |
| `rate_limiter` | what the bucket grants and refuses with clocks that differ, with limits and windows that change and need not be whole, and that waiting the announced window out helps whenever the limit is at least one |
| `api_keys` | verification is as good as an atomic look at the key; a token that was handed out stops working only by a later write; the refinement: every operation takes effect in one step |
| `gateway` | no forwarding or charging without authentication, exactly one usage entry of a complete response, with the status sent and the principal admitted, no truncated answer completed, no second answer, pre hooks' edits in order but for those given up, error and post hooks where they belong, every request ends |
| `gateway_timeout` (violation) | the client's timer may beat the upstream's: the waiting client gets no 502 |
| `server` | until a signal comes, a listening server has its stores, all plugins and a working rate limiter; it never exits under a request; a shutdown keeps the batch it flushed; a signal that meets a server ends the process, whatever fails |
| `server_shutdown` (violation) | entries of answered requests are lost by a shutdown in which nothing failed |

### Bounds

- `usage_log`: five entries and batches of two are two full batches and a rest;
  two failures let one batch fail twice or two batches once.
- `route_cache`: two requests on one gateway are two overlapping fetches; a second
  gateway writes without invalidating the first. Two tables are a before and an
  after; the first is arbitrary. `TTL` = `MaxTime` = 2 puts the expiry inside and
  at the end of the horizon.
- `route_choice`: two routes that serve the same requests, of two priorities; two
  patches, one of a priority and a field of `upstream`, one of a plugin list and
  the limit; two writes, so that both patches of one route, or a patch and its
  deletion, overlap; a `TTL` of 1, so that a stale table is one step away. The two
  requests, and the two administrators, are interchangeable: no property tells them
  apart, which is what `SYMMETRY` uses.
- `route_cache_read_your_writes`: two routes, so that one can be created while a
  fetch of the other is under way, and nothing is ever patched.
- `rate_limiter`: two calls in flight can be swapped; clocks one millisecond apart and
  a delay of one make a drift of a whole window. The policies are 1 per 2 ms; 0.5 per
  1 ms, which never grants a token; and 1.5 per 1.5 ms, whose window PEXPIRE rejects
  and whose limit takes one token and then refuses. They share the bucket, so that
  each meets what the others leave: four runs within two milliseconds contain a full
  bucket, a refusal whose window is the shorter one, an expiry and a second full
  bucket. The bound of `GrantsBounded` is attained.
- `api_keys`: two administrators overlap; four writes are an issue and three
  others in every order, and one call may fail. Requests do not affect each other
  or the key, so one is enough.
- `gateway`: every authentication mode, credential and outcome; no hooks, or three
  before the request (one given up, one that fails, and one that must keep its
  place) and two after; an upstream's own 502 beside 200.
- `server`: three requests are a batch of two and a rest that waits for it; a
  second signal may come at any point of the first one's shutdown; one `insertMany`
  may fail with MongoDB there, and as many as needed without it; two of the three
  plugin files export the same name and one exports nothing.

`CHECK_DEADLOCK FALSE` is set where a behaviour ends at its bounds (no more entries,
time, writes or runs) and where the process exits. In `gateway` a finished request
stutters (`Over`).

### Fairness

- `UsageLog`: the armed interval fires and `insertMany` settles. Requests need
  not arrive, which is what the batch-of-one run is about.
- `RouteCache`: MongoDB answers or fails a query, and compiling ends.
- `Gateway`: the handler's steps run; hooks settle or are given up by
  `runWithTimeout`; MongoDB and Redis answer (with `maxRetriesPerRequest: null` a
  request waits as long as Redis is away); http-proxy's timer on a silent client
  connection expires, which `timeoutMs`, always set by validation, justifies, and
  a request whose client has gone is abandoned. Nothing is assumed of client or
  upstream, except that an answer does not trickle for ever.
- `Server`: Redis answers the limiter's calls, or refuses them; `insertMany` and
  disconnects settle; requests get their answers, which `EveryRequestEnds` of Gateway
  shows; Node runs what is due. Clients do not for ever send requests on the
  kept-alive connections of a closing server, which would keep it from closing;
  `MaxEntries` stands for that. That `Closed` comes also takes the connections that
  are open without a request, silent or with half of one sent, to end, which Node's
  own timeouts (keep-alive, headers, request) see to. No signal, request, connection
  or port is assumed.

## Proofs

Every invariant and every action property a passing run checks is proved, for all
values of the constants that satisfy the modules' named ASSUMEs (TLC evaluates these
in each run), and so are the refinements: `AtomicKeys`, `IdealBucket`, and the safety
parts of `DurablePrefix` and `BoundedStaleness`. Each proof module has an inductive
invariant `IInv`, which TLC found to hold on the small instance before it was
proved: the checked properties and what they rest on.

`UsageLogProofs`, for any batch size. `PendingInOrder` makes the batch in flight
the oldest entries and `TypeOK` ties `flushing` to a non-empty batch, which is what
the re-queue of a failed batch and `NothingLost` need. `CopiesBounded` needs that
an entry in flight is not yet in the durable prefix, again by order. `FlushIInv`
is about a flush at any time, not only the interval's, since signals flush, too.

`RouteCacheProofs`, for any processes, requests, routes and TTL. `IInv` adds `Past`
(no stamp, arrival or write lies in the future, and no operation claims a table
that has not been written) and `Linked` (what a request's phase says of its other
fields). Staleness follows since a cache that is used is less than the TTL past a
stamp at which its table was current, and with it, as history only grows,
`RefusedForEnabledOnly` and `HighestPriorityWins`. `WritesMerge` is about the
history alone: a write adds a table in which only its own route differs, by the
fields the patch names (`PatchedField`). Of bodies and patches nothing is
assumed but that definitions have the schema's fields and `Definitions` is closed
under them.

`GatewayProofs`, for any routes, status codes and chains of hooks. `LoggedExactly` is
what the code logs to the letter, from which `LoggedAsSent` and half of
`AnsweredOnce` follow. `Authenticated` (the principal is what the checks done so far
establish), `Staged` (what is settled when the handler reaches a stage), `Exchanged`
(how far the response and the exchange with the upstream have come by then) and
`Edited` (which pre hooks have edited, failed or are late after the first n). That
the status logged is the one sent rests on no step leading back from a response's
last byte to a stage that writes one. `AnsweredOnce` adds `OnTheWire`: the status of
an answer under way is the one that was sent, so that going on with it changes
nothing.

`ApiKeysProofs`, for any finite number of administrators and any number of
verifications, writes and failures. `WritesSound` says that secrets are replaced by
rotations only and come into force active, `OperationsSound` that a key is issued
once and that an operation's secret is in the history when it answers, `Looked`
what a verification knows between its read and its comparison, and `Bounded` keeps
the writes under way within the model's bound.

`AtomicKeysProofs` shows that every step of ApiKeys is a step of AtomicKeys or changes
none of it. To `IInv` it adds `Fresh`: a secret under way has never been in force,
has not been handed out and is no other operation's, which is what makes rotations
that overlap one rotation after the other; and a request that is under way has no
verdict and carries a secret that was handed out, or none. TLC checked `Fresh` on the
run's instance before it was proved. The theorem needs no invariant about the
comparison: what `Compare` concludes had been decided by `Find`.

`RateLimiterProofs`, for any policies, whole or not, delays, and clocks that differ
by a bounded amount. Two potentials are kept at every run of the script, for every
earlier run and moment: what has been granted and is left never exceeds a full
bucket, what accrued, and a drift per expiry (`NeverTooMany`, hence `GrantsBounded`),
and what was taken never falls short of what accrued or a full bucket (`NeverTooFew`,
hence `RefusalsJustified`). They are stated for every limit and window that bound the
ones used, so that a policy may change from call to call. A window that PEXPIRE
rejects may leave the key with an expiry sooner than a window from now:
`NeverTooMany` therefore says not only that what was granted and is left has been
paid for by the last run (`Paid`), but also that what was granted will have been paid
for, one more expiry counted, when the key expires (`PaidInTime`; `PayAhead`, `Lasts`
and `PaidAhead` carry this from run to run). `CallsSound` and `BucketSound` tie the
bucket's timestamp to Redis's clock within the drift. Units of tokens and of time are
such that `limit % window = 0`, so division is exact; the script's doubles are not
modelled. `Ideality` assumes `InStep` (one policy, a drift of zero). The bucket's
timestamp is then that of the last run (`LevelIs`), an expired bucket would have been
full (`AccruedEvenly`), and a run finds the bucket at its level (`RunFindsLevel`). No
run of the list above repeats it; `tlc -config MCRateLimiterInStep.cfg MCRateLimiter`
does on an instance: 2.5 tokens per three milliseconds, which do not divide evenly,
and time for an emptied bucket, a partial refill, an expiry and a full bucket.

`ServerProofs`, for any plugin files, batch sizes, requests, failures and signals.
It instantiates `UsageLogProofs`, whose invariant holds in the process as a whole,
and proves the safety part of `DurablePrefix` there (`LogRefinement`).
`RegistryInv` is how far the import of plugins has come, `Stages` the order in
which the process comes up and goes down, `Calm` that nothing is disconnected
without a signal, `Draining` what the first shutdown still awaits, and `Pledged`
where the entries are that a shutdown owes: stored, or in the batch it awaits.

Only model-checked: the liveness properties `EveryRequestEnds` and
`SignalEndsProcess` and the fairness parts of `DurablePrefix` and `BoundedStaleness`
(liveness and ENABLED are out of TLAPS's reach), and the violation runs.

## Findings

The five violation runs are disagreements with the repository's README;
`PROJECT.json` quotes the lines. More things that the models have as the code
does:

- A signal before `app.listen` disconnects both stores, finds no server to close,
  and is gone: startup goes on, and the server listens without its stores.
  `SignalEndsProcess` is about signals that meet a server.
- A port that is taken leaves the process up without one.
- After a shutdown's `disconnectRedis` the rate limiter defines no command on the
  client it then creates: requests still coming in are answered 500.
- A disconnect that rejects closes the server without waiting for the flush, and the
  disconnect of MongoDB beside it may fail the flush: `KeptOnExit` is about shutdowns
  in which nothing fails.
- The usage log's queue has no limit: while MongoDB is down it grows with every request.
- A patch that names one plugin list empties the other two (`AllLists`).
- A rotation suspended in hashing re-activates a key that is revoked meanwhile
  (`Rotated` sets `active`).
- A PATCH with an empty list of scopes changes no scopes (`Updated`).
- A request that was charged and forwarded is not logged if its connection is lost
  before the answer is complete, be it that the client leaves or that the gateway's
  own timer cuts it: the usage entry hangs on `finish` (`routes/gateway.ts:99`), and
  a lost connection emits only `close`. Nor is a request that matches no route.
  `README.md:96` ("Requests emit structured usage entries ... persisted in
  `usage_logs`") makes no such exception. `LoggedAsSent` is silent on these requests:
  it would hold, too, if they were logged.
- A default limit below one, which `config/env.ts:51` lets through, admits nobody,
  whatever `retry-after` says; a limit of 1.5 grants one call of a full bucket.
- A default window that is no whole number of milliseconds (1.001 s is
  1000.9999999999999 ms) passes `config/env.ts:55`, but PEXPIRE rejects it after HMSET:
  every call is answered 500, having taken a token if there was one, and the key
  never expires.
- With a dot in `API_KEY_PREFIX` no token parses, and every key is refused: a token is
  cut at its first dot (`auth/api-key.service.ts:194`).

## Not modelled

Configuration (its values are constants), log output, error classes, health check,
router assembly, type declarations, the unused user model, bundled example plugins,
container files: no state or behaviour of their own. Admin handlers that only read
(lists, usage summaries), and the zod schemas' checks of single fields. In modelled
components: the union of scopes and the JWT options; building and parsing API key
tokens (ApiKeys takes them for inverses); hooks that write the response, or change
its headers (`EditsInChainOrder` is about the request, and exempts hooks that were
given up); MongoDB or Redis lost while the server runs, which the drivers hide and
the models see as slow or failing calls; a path with malformed percent-encoding (500,
no state changes), the rounding of Lua's doubles and infinite limits, header contents
and sizes, the body that `express.json` consumes before http-proxy could pipe it (to
the model, an upstream that stays silent).

## Plan

What was planned is done but for:

1. RateLimiter: how far the script may be from an ideal bucket when clocks differ or
   policies change. `GrantsBounded` and `RefusalsJustified` bound what it grants and
   refuses; that it stays between two ideal buckets is not stated.
2. The server's steps on `registry` and the usage log are actions of the instances
   `Registry` and `Log` by construction, so that only `LogRefinement`, where signals
   add flushes of their own, is stated as a theorem.
3. MongoDB or Redis lost while the server runs: calls that fail are modelled, what the
   drivers do about it is not.
