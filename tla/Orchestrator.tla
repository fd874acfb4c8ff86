---------------------------- MODULE Orchestrator ----------------------------
(***************************************************************************)
(* The request pipeline of gateway/orchestrator.py in one gateway process, *)
(* with the two endpoints of api/routers.py that run it: handle_complete   *)
(* and handle_stream are the same sequence of awaits, and differ where the *)
(* backend call yields chunks to the client.  Every await is a point where *)
(* other requests run, so every awaited call is an action; what the code   *)
(* does between two awaits belongs to the action before it.                *)
(*                                                                         *)
(* The requests are concurrent requests of one model and prompt, the case  *)
(* in which they share a cache entry.  The circuit breaker's hashes are    *)
(* those of CircuitBreaker; the rate limiter, specified in RateLimiter,    *)
(* may grant or deny any reservation here.                                 *)
(***************************************************************************)
EXTENDS BreakerScripts, FiniteSets, Sequences

CONSTANTS Requests,
          Backends,
          None,         \* "no backend"
          Kinds,        \* the kinds of requests: [stream, bypass]
          Concurrency,  \* per_backend_concurrency
          L2Enabled,    \* the embedding service could be loaded
          MaxChunks,    \* bound on the chunks of an answer
          MaxLag,       \* bound on clock skew plus the delay of a script call
          MaxClock      \* bound on the clock

ASSUME OrchestratorAssumption ==
  /\ IsFiniteSet(Requests)
  /\ Backends # {} /\ None \notin Backends
  /\ Kinds \subseteq [stream: BOOLEAN, bypass: BOOLEAN]
  /\ Concurrency \in Nat \ {0}
  /\ L2Enabled \in BOOLEAN
  /\ MaxChunks \in Nat /\ MaxLag \in Nat /\ MaxClock \in Nat

VARIABLES
  pc,         \* pc[r]: the await request r is at
  ask,        \* ask[r]: what kind of request r is
  remaining,  \* remaining[r]: the candidates r has not tried
  at,         \* at[r]: the backend r has chosen
  acc,        \* acc[r]: `accumulated', or the answer found or returned
  charge,     \* charge[r]: what r's reservation stands at
  rows,       \* rows[r]: the statuses of the request_log rows of r
  free,       \* free[b]: the permits left in b's semaphore
  l1, l2,     \* the answers cached for the prompt: at most one in L1
  sent, end, whole,           \* what the clients see, as in ClientView
  clock, hash, probe, failedAt \* the circuit breaker, as in CircuitBreaker

local == <<ask, remaining, at, acc>>
books == <<charge, rows>>
cache == <<l1, l2>>
client == <<sent, end, whole>>
breaker == <<clock, hash, probe, failedAt>>
vars == <<pc, local, books, free, cache, client, breaker>>

View == INSTANCE ClientView

Steps == {"reserve", "l1", "embed", "l2", "settleHit", "logHit", "replay",
          "select", "acquire", "calling", "closing", "recordFail", "recordOk",
          "putL1", "embedAnswer", "putL2", "settle", "log", "final", "log503",
          "done"}

Readings == {t \in 0..clock : clock - t <= MaxLag}

(* "reconciled" once the script of reconcile has run.  What it leaves charged *)
(* is the actual cost, or nothing if the request outlasted the window and its *)
(* entry is gone: nothing here tells the two apart, RateLimiter does.         *)
Charges == {"none", "estimate", "reconciled"}

TypeOK ==
  /\ pc \in [Requests -> Steps]
  /\ ask \in [Requests -> Kinds]
  /\ remaining \in [Requests -> SUBSET Backends]
  /\ at \in [Requests -> Backends \cup {None}]
  /\ acc \in [Requests -> View!Answers]
  /\ charge \in [Requests -> Charges]
  /\ rows \in [Requests -> {<<>>, <<200>>, <<503>>}]
  /\ free \in [Backends -> 0..Concurrency]
  /\ l1 \subseteq View!Answers /\ l2 \subseteq View!Answers
  /\ sent \in [Requests -> View!Answers]
  /\ end \in [Requests -> {"open"} \cup View!Ends]
  /\ whole \subseteq View!Answers
  /\ clock \in 0..MaxClock
  /\ hash \in [Backends -> Hash]
  /\ probe \in [Requests -> BOOLEAN]
  /\ failedAt \in [Backends -> 0..MaxClock]

Init ==
  /\ pc = [r \in Requests |-> "reserve"]
  /\ ask \in [Requests -> Kinds]
  /\ remaining = [r \in Requests |-> {}]
  /\ at = [r \in Requests |-> None]
  /\ acc = [r \in Requests |-> <<>>]
  /\ charge = [r \in Requests |-> "none"]
  /\ rows = [r \in Requests |-> <<>>]
  /\ free = [b \in Backends |-> Concurrency]
  /\ l1 = {} /\ l2 = {}
  /\ View!Init
  /\ clock = 0
  /\ hash = [b \in Backends |-> NoHash]
  /\ probe = [r \in Requests |-> FALSE]
  /\ failedAt = [b \in Backends |-> 0]

-----------------------------------------------------------------------------
(* Small steps the actions share.                                             *)

Goto(r, step) == pc' = [pc EXCEPT ![r] = step]

(* The response of r ends: an HTTP error, an SSE error frame, a lost client.  *)
EndWith(r, e) ==
  /\ end' = [end EXCEPT ![r] = e]
  /\ UNCHANGED <<sent, whole>>

(* registry.candidates(model), whatever the registry holds at that moment.    *)
Route(r) ==
  \E candidates \in SUBSET Backends :
    /\ remaining' = [remaining EXCEPT ![r] = candidates]
    /\ IF candidates = {}
       THEN Goto(r, "done") /\ EndWith(r, "no_backend")
       ELSE Goto(r, "select") /\ UNCHANGED client
    /\ UNCHANGED <<ask, at, acc>>

(* The loop's test: another candidate, or every one was tried.                *)
NextCandidate(r, left) == Goto(r, IF left = {} THEN "log503" ELSE "select")

-----------------------------------------------------------------------------
(* Reservation and cache lookup.                                              *)

Deny(r) ==
  /\ pc[r] = "reserve"
  /\ Goto(r, "done") /\ EndWith(r, "rate_limited")
  /\ UNCHANGED <<local, books, free, cache, breaker>>

(* Mutant: a no-store request reads the cache.                                *)
ReadsCacheAlways(r) == TRUE

ReadsCache(r) == ~ask[r].bypass

Reserved(r) ==
  /\ pc[r] = "reserve"
  /\ charge' = [charge EXCEPT ![r] = "estimate"]
  /\ IF ReadsCache(r)
     THEN Goto(r, "l1") /\ UNCHANGED <<local, client>>
     ELSE Route(r)
  /\ UNCHANGED <<rows, free, cache, breaker>>

(* Mutant: a hit is free, its estimate is never corrected.                    *)
HitUnsettled(r, answer) ==
  /\ acc' = [acc EXCEPT ![r] = answer]
  /\ Goto(r, "logHit")
  /\ UNCHANGED <<ask, remaining, at, client>>

Hit(r, answer) ==
  /\ acc' = [acc EXCEPT ![r] = answer]
  /\ Goto(r, "settleHit")
  /\ UNCHANGED <<ask, remaining, at, client>>

LookupL1(r) ==
  /\ pc[r] = "l1"
  /\ \/ \E answer \in l1 : Hit(r, answer)
     \/ l1 = {} /\ Goto(r, "embed") /\ UNCHANGED <<local, client>>
  /\ UNCHANGED <<books, free, cache, breaker>>

(* The prompt's embedding; without a service, L2 is skipped.                  *)
Embed(r) ==
  /\ pc[r] = "embed"
  /\ IF L2Enabled
     THEN Goto(r, "l2") /\ UNCHANGED <<local, client>>
     ELSE Route(r)
  /\ UNCHANGED <<books, free, cache, breaker>>

(* find_similar.  HNSW is an approximate index, which may miss an entry: see  *)
(* Scans of TwoTierCache.                                                     *)
LookupL2(r) ==
  /\ pc[r] = "l2"
  /\ \/ \E answer \in l2 : Hit(r, answer)
     \/ Route(r)
  /\ UNCHANGED <<books, free, cache, breaker>>

(* The script puts the actual cost in the place of the estimate, or finds no  *)
(* entry and does nothing.  The request goes on either way.                   *)
Reconcile(r, from, to) ==
  /\ pc[r] = from
  /\ charge' = [charge EXCEPT ![r] = "reconciled"]
  /\ Goto(r, to)
  /\ UNCHANGED <<local, rows, free, cache, client, breaker>>

Log(r, from, status, to) ==
  /\ pc[r] = from
  /\ rows' = [rows EXCEPT ![r] = Append(@, status)]
  /\ Goto(r, to)
  /\ UNCHANGED <<local, charge, free, cache, client, breaker>>

SettleHit(r) == Reconcile(r, "settleHit", "logHit")

LogHit(r) == Log(r, "logHit", 200, IF ask[r].stream THEN "replay" ELSE "final")

(* A stream replays a cached answer as one chunk.                             *)
Replay(r) ==
  /\ pc[r] = "replay"
  /\ sent' = [sent EXCEPT ![r] = @ \o acc[r]]
  /\ Goto(r, "final")
  /\ UNCHANGED <<local, books, free, cache, end, whole, breaker>>

-----------------------------------------------------------------------------
(* The failover walk.                                                         *)

(* Mutant: the chosen backend stays among the candidates.                     *)
WithoutNone(candidates, b) == candidates

(* `remaining' loses the chosen backend.                                      *)
Without(candidates, b) == candidates \ {b}

(* Mutant: the breaker's answer is ignored.                                   *)
GrantedAlways(b, now) == TRUE

Granted(b, now) == Allowed(hash[b], now)

(* policy.select picks one of the remaining candidates, breaker.allow is      *)
(* asked, and a refused candidate is skipped.                                 *)
Try(r, b, now) ==
  /\ pc[r] = "select"
  /\ b \in remaining[r]
  /\ remaining' = [remaining EXCEPT ![r] = Without(@, b)]
  /\ hash' = [hash EXCEPT ![b] = AfterAllow(@, now)]
  /\ IF Granted(b, now)
     THEN /\ at' = [at EXCEPT ![r] = b]
          /\ acc' = [acc EXCEPT ![r] = <<>>]
          /\ probe' = [probe EXCEPT ![r] = Tripped(hash[b])]
          /\ Goto(r, "acquire")
     ELSE /\ NextCandidate(r, remaining'[r])
          /\ UNCHANGED <<at, acc, probe>>
  /\ UNCHANGED <<ask, books, free, cache, client, clock, failedAt>>

(* Mutant: the semaphore is not waited for.                                   *)
HasPermitAlways(b) == TRUE

HasPermit(b) == free[b] > 0

(* `async with self._semaphore_for(backend.id)': entered, and left.           *)
Acquire(r) ==
  /\ pc[r] = "acquire"
  /\ HasPermit(at[r])
  /\ free' = [free EXCEPT ![at[r]] = @ - 1]
  /\ Goto(r, "calling")
  /\ UNCHANGED <<local, books, cache, client, breaker>>

Release(r) == free' = [free EXCEPT ![at[r]] = @ + 1]

(* A chunk arrives from client.stream and is yielded to the client.           *)
Chunk(r) ==
  LET grown == Append(acc[r], [src |-> at[r], no |-> Len(acc[r]) + 1]) IN
  /\ pc[r] = "calling" /\ ask[r].stream
  /\ Len(acc[r]) < MaxChunks
  /\ acc' = [acc EXCEPT ![r] = grown]
  /\ sent' = [sent EXCEPT ![r] = Append(@, grown[Len(grown)])]
  /\ UNCHANGED <<pc, ask, remaining, at, books, free, cache, end, whole, breaker>>

(* The stream ends, or client.complete returns its answer.                    *)
Succeed(r) ==
  /\ pc[r] = "calling"
  /\ \E answer \in IF ask[r].stream
                   THEN {acc[r]}
                   ELSE {View!Answer(at[r], n) : n \in 0..MaxChunks} :
       /\ acc' = [acc EXCEPT ![r] = answer]
       /\ whole' = whole \cup {answer}
  /\ Release(r)
  /\ Goto(r, "recordOk")
  /\ UNCHANGED <<ask, remaining, at, books, cache, sent, end, breaker>>

(* Mutant: a stream that fails after its first chunk is taken as ended.       *)
CallFailsKeepsPartial(r) ==
  /\ pc[r] = "calling"
  /\ Release(r)
  /\ Goto(r, IF acc[r] = <<>> THEN "recordFail" ELSE "recordOk")
  /\ UNCHANGED <<local, books, cache, client, breaker>>

(* The call raises, or asyncio.timeout ends it.                               *)
CallFails(r) ==
  /\ pc[r] = "calling"
  /\ Release(r)
  /\ Goto(r, "recordFail")
  /\ UNCHANGED <<local, books, cache, client, breaker>>

(* Mutant: a stream that has begun fails over like one that has not.          *)
NothingYielded(r) == FALSE

(* Mutant: the first failure ends the request.                                *)
GivesUp(r) == TRUE

(* `any_yielded', which stays false in handle_complete.                       *)
AnyYielded(r) == ask[r].stream /\ acc[r] # <<>>

(* breaker.record(ok=False); a stream that has yielded a chunk raises, any    *)
(* other request goes on with the next candidate.                             *)
RecordFail(r, now) ==
  /\ pc[r] = "recordFail"
  /\ hash' = [hash EXCEPT ![at[r]] = AfterFailure(@, now)]
  /\ failedAt' = [failedAt EXCEPT ![at[r]] = clock]
  /\ IF AnyYielded(r)
     THEN Goto(r, "done") /\ EndWith(r, "unavailable")
     ELSE NextCandidate(r, remaining[r]) /\ UNCHANGED client
  /\ UNCHANGED <<local, books, free, cache, clock, probe>>

-----------------------------------------------------------------------------
(* After an answer.                                                           *)

(* breaker.record(ok=True).                                                   *)
RecordOk(r) ==
  /\ pc[r] = "recordOk"
  /\ hash' = [hash EXCEPT ![at[r]] = AfterSuccess(@)]
  /\ Goto(r, IF ask[r].bypass THEN "settle" ELSE "putL1")
  /\ UNCHANGED <<local, books, free, cache, client, clock, probe, failedAt>>

(* latency_tracker.record, then the L1 half of cache.put.                     *)
PutL1(r) ==
  /\ pc[r] = "putL1"
  /\ l1' = {acc[r]}
  /\ Goto(r, "embedAnswer")
  /\ UNCHANGED <<local, books, free, l2, client, breaker>>

(* The L2 half: embed the prompt once more, and insert.                       *)
EmbedAnswer(r) ==
  /\ pc[r] = "embedAnswer"
  /\ Goto(r, IF L2Enabled THEN "putL2" ELSE "settle")
  /\ UNCHANGED <<local, books, free, cache, client, breaker>>

PutL2(r) ==
  /\ pc[r] = "putL2"
  /\ l2' = l2 \cup {acc[r]}
  /\ Goto(r, "settle")
  /\ UNCHANGED <<local, books, free, l1, client, breaker>>

Settle(r) == Reconcile(r, "settle", "log")

LogServed(r) == Log(r, "log", 200, "final")

(* The CompletionResult: the terminal event of a stream, whose chunks are     *)
(* out already, or the whole response.                                        *)
Final(r) ==
  /\ pc[r] = "final"
  /\ sent' = [sent EXCEPT ![r] = IF ask[r].stream THEN @ ELSE acc[r]]
  /\ end' = [end EXCEPT ![r] = "result"]
  /\ Goto(r, "done")
  /\ UNCHANGED <<local, books, free, cache, whole, breaker>>

(* Every candidate failed or was refused: the 503 is logged, then raised.     *)
LogUnavailable(r) ==
  /\ pc[r] = "log503"
  /\ rows' = [rows EXCEPT ![r] = Append(@, 503)]
  /\ Goto(r, "done") /\ EndWith(r, "unavailable")
  /\ UNCHANGED <<local, charge, free, cache, breaker>>

-----------------------------------------------------------------------------
(* What the environment does.                                                 *)

(* The awaits of Redis, Postgres and the embedding service.  An exception     *)
(* there is handled nowhere: a 500, or a stream that just stops.              *)
Unguarded == Steps \ {"replay", "acquire", "calling", "closing", "final", "done"}

Fault(r) ==
  /\ pc[r] \in Unguarded
  /\ Goto(r, "done") /\ EndWith(r, "crashed")
  /\ UNCHANGED <<local, books, free, cache, breaker>>

(* Mutant: an abandoned stream is never finalised.                            *)
UnwoundNever(r) == "done"

(* A call in progress is left when its generator is finalised: see Close.     *)
Unwound(r) == IF pc[r] = "calling" THEN "closing" ELSE "done"

(* The request is cancelled at an await or a yield: its client is gone, or    *)
(* the server shuts down.  CancelledError and GeneratorExit are not           *)
(* Exceptions, so nothing is recorded.                                        *)
Cancel(r) ==
  /\ pc[r] \notin {"closing", "done"}
  /\ Goto(r, Unwound(r))
  /\ EndWith(r, "gone")
  /\ UNCHANGED <<local, books, free, cache, breaker>>

(* An abandoned generator is finalised, which leaves `async with'.            *)
Close(r) ==
  /\ pc[r] = "closing"
  /\ Release(r)
  /\ Goto(r, "done")
  /\ UNCHANGED <<local, books, cache, client, breaker>>

(* The TTL of the L1 entry runs out.                                          *)
ExpireL1 ==
  /\ l1 # {}
  /\ l1' = {}
  /\ UNCHANGED <<pc, local, books, free, l2, client, breaker>>

Tick ==
  /\ clock < MaxClock
  /\ clock' = clock + 1
  /\ UNCHANGED <<pc, local, books, free, cache, client, hash, probe, failedAt>>

-----------------------------------------------------------------------------
(* What r itself does, the code under test; the rest happens to it.           *)
Step(r) ==
  \/ Deny(r) \/ Reserved(r) \/ LookupL1(r) \/ Embed(r) \/ LookupL2(r)
  \/ SettleHit(r) \/ LogHit(r) \/ Replay(r)
  \/ \E b \in Backends, now \in Readings : Try(r, b, now)
  \/ Acquire(r) \/ Chunk(r) \/ Succeed(r) \/ CallFails(r)
  \/ \E now \in Readings : RecordFail(r, now)
  \/ RecordOk(r) \/ PutL1(r) \/ EmbedAnswer(r) \/ PutL2(r)
  \/ Settle(r) \/ LogServed(r) \/ Final(r) \/ LogUnavailable(r) \/ Close(r)

Next ==
  \/ \E r \in Requests : Step(r) \/ Fault(r) \/ Cancel(r)
  \/ ExpireL1
  \/ Tick

Spec == Init /\ [][Next]_vars

(* Every await returns: asyncio.timeout ends a call that does not, and        *)
(* asyncio.Semaphore wakes a waiter when there is a permit for it.            *)
Fairness == \A r \in Requests : WF_vars(Step(r))

FairSpec == Spec /\ Fairness

-----------------------------------------------------------------------------
(* The circuit breaker as this pipeline uses it: a request has a call open    *)
(* from allow() until it records, or never records.  Every clock reading      *)
(* here leaves time for a cooldown.                                           *)
InCall == {"acquire", "calling", "recordFail", "recordOk"}

Breaker == INSTANCE CircuitBreaker WITH
  call <- [r \in Requests |-> [on |-> IF pc[r] \in InCall THEN at[r] ELSE None,
                               probe |-> pc[r] \in InCall /\ probe[r]]],
  MaxClock <- MaxClock + Cooldown

(* The pipeline uses the breaker by its protocol: no backend is called        *)
(* without an allow() that granted it, and every call is recorded at most     *)
(* once, with its own outcome, on the backend that was called.                *)
UsesBreakerProperly == Breaker!Spec

(* Clients see what ClientView promises: failover, concurrent cache writes    *)
(* and cancelled requests never splice two answers, repeat or skip a chunk,   *)
(* pass off a partial answer as a result, or send anything after the end.     *)
ServesOneAnswer == View!Spec

(* Nothing but an answer that a backend completed enters the cache: not what  *)
(* a failed or abandoned stream had accumulated.                              *)
CacheHoldsWholeAnswers ==
  l1 \cup l2 \subseteq whole

(* `x-cache: no-store' "neither serves from nor pollutes the cache".          *)
NoStoreBypassesCache ==
  /\ \A r \in Requests : ask[r].bypass /\ end[r] = "result" => at[r] # None
  /\ (\A r \in Requests : ask[r].bypass) => l1 \cup l2 = {}

(* A semaphore loses no permit and gains none, whether a call returns, fails, *)
(* times out or is abandoned in the middle of its stream.                     *)
PermitsConserved ==
  \A b \in Backends :
    free[b] + Cardinality({r \in Requests : pc[r] \in {"calling", "closing"}
                                            /\ at[r] = b}) = Concurrency

(* No result reaches a client before reconcile has run for it, be it a hit or *)
(* an answer, so that its estimate is no longer what is charged, and before   *)
(* its one 200 row is in request_log.                                         *)
ServedIsAccounted ==
  \A r \in Requests :
    end[r] = "result" => charge[r] = "reconciled" /\ rows[r] = <<200>>

(* A request gives up before its first chunk only when no candidate is left,  *)
(* and then with one 503 row in request_log.                                  *)
GivesUpLast ==
  \A r \in Requests :
    end[r] = "unavailable" /\ sent[r] = <<>> =>
      remaining[r] = {} /\ rows[r] = <<503>>

(* Every request ends, although it may wait for a permit outside the timeout, *)
(* and gives its permit back.                                                 *)
EveryRequestEnds ==
  \A r \in Requests : <>(pc[r] = "done" /\ end[r] # "open")

-----------------------------------------------------------------------------
(* What the design document says of a failing embedding service: "skip L2,    *)
(* still serve L1 + route".                                                   *)
EmbeddingFailureSkipsL2 ==
  [][\A r \in Requests :
       pc[r] \in {"embed", "embedAnswer"} => end'[r] # "crashed"]_vars

=============================================================================
