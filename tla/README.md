# TLA+ models of the Inference Gateway

The gateway (`src/src/gateway`) turns a set of LLM backends into one
OpenAI-compatible endpoint: per-key token budgets, a two-tier response cache,
routing with failover, a circuit breaker per backend, hot-reloadable backend
configuration. It keeps no state of its own that outlives a request, except
the registry's clients and the semaphores: everything shared lives in Redis and
Postgres, and any number of replicas may run. These modules model its own
control logic; `aikit` (model clients, sessions, embeddings), Redis and
Postgres are modelled by what the code expects of them.

## Inventory

| Component | State | Operations | Interacts with | What is hard |
|---|---|---|---|---|
| Circuit breaker (`resilience/breaker.py`) | Redis hash per backend: `state`, `failures`, `opened_at` | `allow`, `record` (Lua) | called around every backend call | late results in any order, skewed clocks, cancelled probes |
| Rate limiter (`resilience/ratelimit.py`) | Redis sorted set per API key, its TTL | `reserve`, `reconcile` (Lua) | called at the start and the end of a request | window rollover during a request, TTL against scores, requests that never reconcile |
| Orchestrator (`orchestrator.py`) | per request: position, candidates, accumulated text; per process: a semaphore per backend | `handle_complete`, `handle_stream` | everything | failover before and after the first chunk, cancellation, exceptions at every await, permits |
| Two-tier cache (`cache/`) | L1: Redis string with TTL; L2: pgvector rows | `get`, `put`, `embed` | orchestrator | concurrent misses, embedding failures, namespacing |
| API (`api/`) | none | chat completions (plain, SSE), models, admin, health | orchestrator, registry | a response that fails after it has begun |
| Backend registry (`backends/registry.py`) | clients by backend, backends by model (per process) | `reload`, `candidates`, `aclose` | admin endpoint, orchestrator, start-up | reload while requests hold clients, overlapping reloads, bad rows |
| Latency tracker and policies (`resilience/latency_tracker.py`, `routing/`) | Redis list per backend | `record`, `p95`, `select` | orchestrator | two Redis calls per record, cold backends |
| Persistence (`persistence/`) | Postgres tables | repositories | all of the above | transaction boundaries |
| Connection pool (`config.py`, `api/deps.py`) | connections | checked out per session | every request | hold-and-wait |
| Wiring (`main.py`, `config.py`, `domain/`) | settings | start-up, shut-down | | a failed first reload |

What makes each correct:

* breaker: tripped exactly by enough failures, the cooldown is honoured, it
  opens for traffic again;
* limiter: charges once, for the whole window, never above the budget, and
  locks no key out;
* orchestrator: a client sees one answer of one backend and one end; only whole
  answers are cached; permits come back; a result is settled and logged; every
  request ends;
* registry: a live client is never closed, an old one is closed once, only a
  reload that fails forgets any, a reload sees the row it was made for;
* cache: an answer never crosses models, L1 is exact (between prompts without
  separators), L2 close enough, and what is stored is a whole answer of a backend;
* tracker and policies: a list holds the newest samples, p95 is the quantile,
  every candidate gets its turn in the right order;
* connection pool: no request waits forever, and no exit leaks a connection.

`PROJECT.json` lists the hazards with their source lines and the properties
that cover them.

## Modules

| Module | Models |
|---|---|
| `BreakerScripts` | the two Lua scripts of the breaker as functions of the hash |
| `CircuitBreaker` | the hashes and the requests of all replicas that call `allow` and `record` |
| `BreakerScriptsProofs` | lemmas about the scripts, for the two modules that use them |
| `CircuitBreakerProofs` | its invariants proved |
| `RateLimiter` | one key's sorted set, its TTL and the requests of the key |
| `RateLimiterProofs` | its invariants proved |
| `ClientView` | abstract: what the API promises a client |
| `Orchestrator` | the pipeline of concurrent requests; extends `BreakerScripts`, implements `ClientView` and `CircuitBreaker` |
| `MCOrchestrator` | request kinds and symmetry for its runs |
| `OrchestratorProofs` | its invariants and both refinements proved |
| `BackendRegistry` | every replica's client pool, start-up, admin calls, shut-down |
| `BackendRegistryProofs` | its invariants proved |
| `ConnectionPool` | the database connections of one process and the sessions of every endpoint |
| `ConnectionPoolProofs` | its invariants proved |
| `LatencyRouting` | the latency lists in Redis and both routing policies, over the failover rounds of concurrent requests |
| `LatencyRoutingProofs` | its invariants, and what its sort, filter and selections compute, proved |
| `SemanticStore` | abstract: what a cache in front of the backends promises |
| `TwoTierCache` | L1, L2 and the lazily loaded embeddings; implements `SemanticStore` |
| `MCCache` | prompts and symmetry for its runs |
| `TwoTierCacheProofs` | its invariants, that `prompt_hash` separates plain prompts, and its refinement proved |

### CircuitBreaker

`hash[b]` is the Redis hash `breaker:{b}`, with "absent" for fields that were
never set. `Allowed`/`AfterAllow` are the result and the effect of the allow
script, `AfterSuccess`/`AfterFailure` the effects of the record script. Each
script is one action because Redis runs it atomically; the backend call between
`allow` and `record` is not, so `call[r]` keeps what a request was allowed.
`Abandon` is a call that ends without `record` (cancellation, a replica that
dies); `LoseHash` is a Redis that comes back empty. `clock` is the fastest
replica's clock and a script gets any reading at most `MaxLag` behind it.
`failedAt` is auxiliary: the time of the last recorded failure, in terms of
which the cooldown is stated.

### RateLimiter

`window` holds the members of the sorted set, `ttl` the key's remaining life.
Scores are kept as ages, which is all that the scripts depend on, so that no
bound on the clock is needed. `Reserve` and `Reconcile` are the two scripts:
trim, sum, add and `EXPIRE` in the first; `ZREM`, `ZADD` and no `EXPIRE` in the
second, where removing the only member deletes the key together with its TTL. A
`Reconcile` that finds no entry, since the request took longer than the window,
changes nothing and leaves the request "missed". `Fail` is every exit of the
pipeline without `reconcile`. `Tick` is a second, in which the key may expire.
API keys do not share anything, so one is enough. `Total` is the sum that the
first script forms, as the number of tokens charged.

### Orchestrator and ClientView

`pc[r]` names the await a request is at; whatever the code does up to the next
await belongs to the action that ends the former. `handle_complete` and
`handle_stream` are the same walk; they differ in `Chunk` (what the client gets
while the call is running), `Replay` and `AnyYielded` (no failover after the
first chunk). An answer is the sequence of its chunks, each of which names the
backend it came from and its place, so a splice is visible. `Fault` is an
exception at an await of Redis, Postgres or the embeddings, which nothing
catches; `CallFails` is one of the backend, or its timeout, which is caught;
`Cancel` is a client that goes away, and `Close` the finalisation of an
abandoned generator, which is when `async with semaphore` is left. `charge` and
`rows` are the reservation and the rows of `request_log`. The rate limiter may
grant or deny anything, and the routing policy may pick any remaining candidate:
both are over-approximations of the code. "reconciled" is a reservation whose
`reconcile` has run, whether the script found its entry or the request outlived
the window and nothing was done: the pipeline goes on in the same way. So
`ServedIsAccounted` says that `reconcile` has run before the result; whether the
actual cost is then charged is `CorrectedAfterCompletion` of `RateLimiter`.
`free` are the permits of one process.

`ClientView` is the promise: the chunks a client gets are a prefix of one
answer that one backend gives, a result comes only after a whole answer, and
nothing comes after the end. It does not mention caches, failover or permits.

### BackendRegistry

The table is the sequence of committed upserts, and a table that was read is a
prefix of it. `load[l]` is one execution of `reload()`, by a replica's start-up
or an admin call: `Read`, `Swap` (or `ConfigError`), one `CloseOld` per client
of the former pool, `Return`, and `LoadFails` at each await. The swap is one
action: there is no await in it. `load[l].old` are the clients that a reload has
still to close, `load[l].lost` those that nobody will close: the rest of the old
pool when the loop of `aclose()` is cut short, and the clients that were made
before the row of a `ConfigError` (any of those that can be made: the query has no
order). Shut-down is `Stop`, one `CloseAtStop` per client and `Stopped`, or
`StopFails` in between; it waits for the requests of the replica, as the server
does before it leaves `lifespan`. Clients are named by the load that made them,
so a client of a former pool differs from its replacement.

### ConnectionPool

A session checks a connection out with its first statement and keeps it until
its transaction ends. `kept[r]` is the connection of `get_session`: FastAPI
resolves that dependency for `require_api_key` and leaves it after the handler,
so a plain chat request keeps it while the L2 lookup, the L2 insert and `_log`
open sessions of their own (`Open`, `CheckOut`, `CheckIn`; `todo[r]` is how many
are left, three at most). Of a stream the releases of FastAPI differ in whether
the dependency is left before or after the body is sent; `Accept` has both. All
other endpoints use one connection at a time (`Begin`), `/admin/backends` two
one after the other. `Abort` is an exception, a cancelled task, or the timeout
of SQLAlchemy's pool, which nothing is assumed of: `SomeoneProceeds` and
`EveryRequestEnds` say that with more connections than concurrent chat requests
(50 with the settings of `config.py`) the timeout is not needed. With as many
chat requests as connections it is: each keeps one and waits for another, which
is what `OneEachSuffices` excludes and `MCPoolAtLimit.cfg` shows. Nothing in the
code bounds the concurrent chat requests, so whether the premise holds is a
matter of deployment.

### LatencyRouting

`list[b]` is the Redis list `latency:{b}`. `Push` and `Trim` are the two awaits
of `record`, `ReadScore` one await of `p95` in the comprehension of
`LatencyAwarePolicy.select`, `Choose` the sort and the bookkeeping of the
failover loop, `Fail` a refusal of the breaker (which takes no time) or a failed
call, `Cancel` the end of a request at any await, by cancellation, an error of
Redis or a stream that breaks. Cold backends are ranked first, so a backend
whose requests are all cut short stays cold and keeps its place before other
cold ones; broken streams are stopped by the breaker, cancelled clients by
nothing. `ColdGetsAChance` is therefore about finitely many of them
(`MaxCancels`). `policy`, one of `Policies`, and `price` are settings and rows
that do not change; backends are numbered by priority, the order of
`candidates()`. `CostWalk` says what the cost policy does over all rounds: it
goes by price. It is proved for any number of backends; the run has two, with
which only the first round has a choice, and does not list it. Of equal prices a
simple prompt takes the best priority and a complex one the worst, since
`by_cost[-1]` is the last of a stable sort. The texts promise failover by
priority; that is `FailoverByPriority`. `elapsed[r]` is `perf_counter() -
start`: it begins before the rate limiter and is not reset when a candidate
fails, and the code pushes all of it to the list of the backend that answers.
`recent` is history. `Key` and `FirstLeast`/`LastGreatest` are the ends of
Python's stable sort, `Sorted` is that sort, by the place of each element, and
`Without` the list comprehension of the failover loop.

### TwoTierCache and SemanticStore

An answer is named by the request that a backend gave it to, so `l1[k]`, `l2`
and `got[r]` tell where everything came from. `PromptHash` is the string that
`prompt_hash` digests, as a sequence of words, and `PromptText` the text that is
embedded, which has no roles. `Roles` and `Words` are what messages are made of.
A content may be any sequence of words, the separators included, and a list of
messages may be empty; `Plain` prompts have no `|` in a content. Embeddings are
points on a line, any assignment of them to the texts. `Scans` is what
`find_similar` may look at: the planner takes the whole table, or the HNSW index
of the first migration, which yields `ef_search` rows of all models before the
filter on the model, and being approximate not always the nearest ones. `Embed`
is `_get_embeddings`, whose first outcome is kept for the life of the process;
`Restart` ends that life. `Fail` ends a request at any await.

`SemanticStore` is the promise: a request is answered by a backend, or with the
answer that a backend gave to a compatible earlier request; only such answers are
stored; the store may forget. The mapping takes the union of both tiers for the
store, and for compatible the same model and a distance within the threshold, or
`MayCollide`: one hash, with a separator in a content of either prompt. So the
refinement promises nearness for plain prompts, and for the others no more than
the code gives.

## Runs

Passing runs:

| Run | Instance | Shows |
|---|---|---|
| `breaker` | 3 requests, 1 backend, threshold 2, cooldown 2, lag 1, 5 ticks | the breaker is tripped exactly by enough failures; half-open only after a cooldown without failures; `opened_at` is the last failure's; open is left when there is traffic |
| `ratelimiter` | 3 requests, estimates 1 and 2, actual costs 0, 1, 3, budget 3, window 2, lag 1 | one charge per request, for the whole window, together within the budget; every request that fits the budget gets in |
| `orchestrator` | 2 requests (plain, stream, no-store), 2 backends, 1 permit each, threshold 1, L2 on, 1 tick | `ClientView` and `CircuitBreaker` are implemented; whole answers only in the cache; permits conserved; results reconciled and logged; 503 only when nothing is left to try |
| `streams` | 2 streams of up to 2 chunks, 2 backends, threshold 2 | `ClientView` with several chunks; every request ends |
| `registry` | 1 replica, 2 admin calls, 2 backends, 1 request | every client is in a pool, due for one close, closed, or forgotten by one reload that failed; an admin call loads its own row and repopulates the registry it reaches |
| `pool` | 2 chat requests of up to 3 sessions, 1 other request, 3 connections | no connection in two sessions or lost; when the pool is empty someone who holds a connection does not wait; every request ends |
| `routing` | 2 requests (one simple), 2 backends, either policy, prices 0 and 1, window 2, the 50th percentile, clock to 1, 1 cancellation | lists begin with the newest samples and overflow only by untrimmed pushes; p95 is the quantile; a backend without samples is tried |
| `cache` | 3 requests, 2 models, 3 prompts (two differ in the role, the third has the hash of the first), points 0 and 2, near 1, `ef_search` 2 | `SemanticStore` is implemented; no answer crosses models; L1 is exact between plain prompts; a near row keeps a request from the backends while the table is no larger than `ef_search` |

Why the bounds are enough for the cases of interest. Three requests are needed
for a breaker that trips while a third, older call is still out, and five ticks
for a cooldown, a late failure in it and a second cooldown. A window of 2 with
lag 1 has entries that one replica trims and another keeps, and three requests
let one reconcile while another has re-created or emptied the key. Two requests
and two backends with one permit each queue on each other, fail over into each
other's backend and race on the cache; with threshold 1 one failure opens a
breaker while the other request is queued, and one tick is a cooldown. Two admin
calls overlap on a replica, and the rows of two backends are enough for a client
made before a bad row; replicas share nothing but the table, and the theorems
about the registry are for any number of them. Three connections are one more
than the chat requests, the tightest pool that works; the third is what they and
the other request compete for. A window of 2 is overrun by two concurrent pushes
and a cancelled trim, which gives lists of up to five samples, and the 50th
percentile puts the rank of p95 inside such short lists, as the 95th does in
lists of 200; a request repeats, so lists fill and empty slots are reused
without a bound on the run. Three requests put two rows, near and far, of one
model or of two, before a third one looks; with `ef_search` 2 a
scan may be of the whole table, which is what `NoRepeatedCall` is about, and in
`MCCacheIndex.cfg`, with 1, one row hides the other. One process is enough there, since its restarts give lives with and
without embeddings. Symmetry (`orchestrator`: requests and backends; `cache` and
`cache_separators`: requests and models) is over sets whose members no
definition tells apart, and those runs have no liveness property.

Runs that show what the code does against what a text of the repository says:

| Run | What TLC shows | Text |
|---|---|---|
| `breaker_probe` | a half-open breaker lets all requests through | HLD+LLD.md B.5: "allow one probe" |
| `ratelimiter_window` | `reconcile` re-dates an entry but not the key: recent costs expire with it | ratelimit.py: "sliding-window-log" |
| `registry_overlap` | of two overlapping reloads the older table may win | routers.py on `upsert_backend` |
| `cache_separators` | one message "a\|user:b" gets the answer to the two messages "a" and "b" | HLD+LLD.md: "identical prompts hit L1" |

Further disagreements, each stated as a property that is false, with a
configuration beside the modules under which TLC shows the counterexample in a
few seconds (`tlc -config MCPoolAtLimit.cfg ConnectionPool`):

| Property | Configuration, module | What TLC shows | Text |
|---|---|---|---|
| `CorrectedAfterCompletion` | `MCRateLimiterLate.cfg`, `RateLimiter` | `reconcile` of a request that took longer than the window finds no entry: its actual cost is charged to nobody | HLD+LLD.md B.6: "corrects the provisional to the true cost after completion" |
| `EmbeddingFailureSkipsL2` | `MCOrchestratorEmbedding.cfg`, `MCOrchestrator` | an embedding error is a 500, also after the backend answered | HLD+LLD.md A.6: "skip L2" |
| `HealsWithTheSchema` | `MCRegistryCatchUp.cfg`, `BackendRegistry` | a replica whose start-up load failed stays empty when the table is there, unless an admin call reaches it | main.py: "until either the schema catches up or an admin POST" |
| `OneEachSuffices` | `MCPoolAtLimit.cfg`, `ConnectionPool` | two chat requests on two connections keep one each and wait | README.md: sized "above its expected concurrency" (50 connections for 50 users) |
| `FailoverByPriority` | `MCRoutingPriority.cfg`, `LatencyRouting` | prices 0, 1, 0: after the first backend a simple prompt tries the third before the second | HLD+LLD.md A.6: "walks the candidate list by priority" |
| `NearDuplicatesHitL2` | `MCCacheIndex.cfg`, `MCCache` | with `ef_search` 1 and two rows a near one is missed | HLD+LLD.md: "near-duplicates hit L2" |

Behaviours of the code that the models contain and no run states as a property,
because the code does not set out to prevent them: a stream that breaks after
its first chunk leaves no row in `request_log`; the policy is offered every
remaining candidate, and `allow` is asked afterwards; a request allowed before
it queued for a permit calls the backend even if the breaker has opened
meanwhile; one committed row that no client can be made of (a hosted backend
without an API key) fails every later reload until that row is changed; an admin
call reloads only the replica it reached; a reload that fails in its loop of
`aclose()`, or at a row after others, leaves clients open that nobody refers to;
a reload closes clients that running requests hold; the late success of a call
that was allowed before the breaker opened closes it in the middle of its
cooldown; the time of failed candidates and of the cache lookup is recorded as
the latency of the backend that answered; once a backend has samples they stay
until new ones push them out, so one that had a slow time is not tried again
while the others are faster, although the comment in `routing/latency.py` speaks
of "rarely-used" ones (its cold case is the empty list only); rows of L2 have no
expiry, and concurrent misses insert several rows for one prompt.

## Fairness

* Breaker: time passes; an allowed call ends (`asyncio.timeout` around it);
  traffic for a backend goes on (strong fairness of some request's `allow`, as
  requests may all be busy from time to time). Without traffic an open breaker
  stays open: only `allow` moves it.
* Limiter: time passes; a client that got a 429 tries again.
* Orchestrator: weak fairness of each request's own steps. Awaits return,
  calls time out, and `asyncio.Semaphore` wakes its waiters. Nothing is assumed
  of faults, cancellation, TTLs or the clock.
* Registry: the awaits of `reload` return and requests end. Admin calls need
  not happen, and loads may fail.
* Pool: queries return, and the pool hands a returned connection to a waiter.
  Each request comes once, so weak fairness is enough; nothing is assumed of the
  timeout.
* Routing: Redis answers and `asyncio.timeout` ends calls. That requests keep
  arriving is a premise of `ColdGetsAChance`, not an assumption of the
  specification.

## What is proved

Every invariant and every refinement that a passing run checks is also a theorem,
and so is `CostWalk`,
for every value of the constants that the assumptions allow: any number of
requests, backends, replicas, connections, prompts, any thresholds and windows.
The bounds of the models (`MaxClock`, `MaxLag`, `MaxChunks`, `MaxElapsed`,
`MaxCancels`, ...) are parameters of the theorems. Each module of proofs has one
inductive invariant and one lemma, or one case, per action.

* `CircuitBreakerProofs`, from `Threshold \in Nat \ {0}`, `Cooldown \in Nat`,
  `MaxLag`, `MaxClock \in Nat` and `None \notin Backends`: `TypeOK`,
  `TrippedByFailures`, `CooldownHonoured`, `OpenedAtIsLastFailure`. `BreakerInv`
  is their conjunction: the step to half-open compares a clock reading with
  `opened_at`, so to say anything of the last failure one has to know that an open
  breaker's `opened_at` is that of the last failure, up to `MaxLag`. Late failures,
  which move it, are the case that needs the argument.
* `RateLimiterProofs`, from `LimiterAssumption` (estimates and the window are
  positive): `TypeOK`, `NoDoubleCharge`, `EstimateStaysCharged`,
  `OutstandingWithinBudget`. `LimiterInv` adds `MembersWereReserved` (a request
  that reserves has no member yet) and `KeyOutlivesEstimates` (a key with a TTL
  lives as long as each estimate in it needs): the second is what the key's expiry
  would break, and it holds although `reconcile` may drop the TTL altogether. The
  budget follows: each outstanding estimate is still a member of what the trim
  leaves, so its tokens map one to one into those that `reserve` counts before it
  adds its own.
* `OrchestratorProofs`, from `OrchestratorAssumption` (finitely many requests, at
  least one backend, a positive number of permits): `TypeOK`,
  `CacheHoldsWholeAnswers`, `NoStoreBypassesCache`, `PermitsConserved`,
  `ServedIsAccounted`, `GivesUpLast`, and the refinements `ServesOneAnswer` (of
  `ClientView`) and `UsesBreakerProperly` (of `CircuitBreaker`). `PipelineInv` says
  of each await what a request has at it: the row and the charge it has by then,
  that what was forwarded of a stream is what was accumulated, and that the answer
  of an answered request is a whole one. The permits are counted by the requests
  that hold one. In the second refinement a call of the breaker's specification is
  a request between `allow` and `record`; a request that fails over abandons
  nothing, one that ends in between does.
* `BackendRegistryProofs`, from `RegistryAssumption` (replicas and admin calls are
  different things): `TypeOK`, `ClientsAccounted`, `ReadsOwnWrite`. `RegistryInv`
  adds `LoadsInOrder` (a load that has not swapped has made no client, and its
  table has or will have its upsert), `PoolsOwned` (a pool was made by a load of
  its own replica) and `LoadsServed` (a replica does not stop while loads run in
  it): the clients of a swap are new, no two loads have the same ones to close or
  have forgotten the same ones, and shut-down closes what no load will touch. The
  theorem does not say that nothing leaks: what a failed reload forgets is counted
  as forgotten, and shown to be disjoint from every pool and from what any other
  reload has still to close.
* `ConnectionPoolProofs`, from `PoolAssumption` (finitely many chat requests and
  connections): `TypeOK`, `ConnectionsAccounted`, `SomeoneProceeds`. `PoolInv` adds
  `HeldByStep`, what a request holds at each step. Deadlock freedom is a counting
  argument: if everyone who holds a connection waited, each connection would be the
  kept one of another chat request, an injection into a smaller set.
* `LatencyRoutingProofs`, from `RoutingAssumption` (finitely many requests, a
  positive window, a percentile from 1 to 99): `TypeOK`, `KeepsNewest`,
  `OverflowIsUntrimmed`, `P95IsQuantile`, `CostWalk`. `RoutingInv` adds that the
  scores read in a round are no more than its candidates, so that nothing is
  indexed past its end, and that the walk is in order while a request selects, too.
  The lemmas say what the operators compute: every place of `Sorted` is that of one
  element, `FirstLeast` and `LastGreatest` find the candidate they describe,
  `Without` removes one backend and nothing else, and a push on a trimmed list
  begins with the same samples as on the whole one.
* `TwoTierCacheProofs`, from `PromptAssumption` (prompts are lists of messages,
  with any contents) and `CacheAssumption` (finitely many requests; embeddings are
  numbers): `TypeOK`, `NeverCrossServes`, `L1ExactWithoutSeparators`,
  `NoRepeatedCall`, and the refinement `ImplementsStore` (of `SemanticStore`).
  `HashSeparatesPrompts` is the fact under exactness: two pairs of a model and a
  plain prompt, of any length, have the same key only if they are equal. That plain
  is needed is what `cache_separators` shows. `CacheInv` ties each stored
  answer to the model and the hash it
  was stored under, and to a backend that gave it.

Recursive functions (`PromptHash`, `Without`) are reasoned about by induction with
a set in the place of the predicate: the least number outside of the set has a
predecessor inside. `LeastNatural` and `SetInduction`, and their namesakes in
`LatencyRoutingProofs`, follow from the well-foundedness of `<` on the naturals.

Only model-checked: liveness, as fairness and `ENABLED` are outside of the prover's
reach: `ReopensForTraffic`, `EventuallyAdmitted`, `EveryRequestEnds` (of the
pipeline and of the pool), `AdminRepairs`, `ColdGetsAChance`. The properties of the
runs that show a disagreement are false, and TLC has the counterexamples.

## What is not modelled

* Token counts, costs of requests and metrics: no guard reads them.
* Frame layout, validation, configuration parsing, conversions of rows to domain
  classes: formatting.
* What `/v1/models`, `/admin/keys`, `/ready`, `/health` and `/metrics` compute:
  one query each; their sessions are in `ConnectionPool`.
* `aikit`, Redis, Postgres and SQLAlchemy beyond what the code expects of them;
  SHA-256 is taken to be injective.
* Restart of a replica after shut-down in `BackendRegistry`: a restarted replica
  is a new one.
* The load test and its summary: they drive the gateway from outside.

## Plan

All components with control of their own are modelled, and every safety property
is proved. What is left to prove:

1. The action-level parts of the liveness properties: for each a measure that no
   step of another request increases (the candidates a request has left, the
   sessions it has still to open, the age of what a window holds).
2. What the unproved remarks of this document say, where they are safety: the
   bound on the rows of L2.
3. A bound on skew from both sides for `OneProbeAtATime`'s true counterpart: the
   number of calls allowed while the breaker is half-open.
