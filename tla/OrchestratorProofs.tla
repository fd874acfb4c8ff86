------------------------- MODULE OrchestratorProofs -------------------------
(***************************************************************************)
(* Proofs about Orchestrator for every number of requests and backends,    *)
(* every mix of request kinds, permits, chunks, thresholds and cooldowns.  *)
(***************************************************************************)
EXTENDS Orchestrator, BreakerScriptsProofs, FiniteSetTheorems, TLAPS

(* The steps at which a request has an answer that some backend completed.    *)
Answered == {"settleHit", "logHit", "replay", "recordOk", "putL1", "embedAnswer",
             "putL2", "settle", "log", "final"}

(* The steps at which its client has received nothing.                        *)
Silent == {"reserve", "l1", "embed", "l2", "settleHit", "logHit", "replay",
           "select", "acquire", "log503"}

(* The steps between a call and the end, where a stream has been forwarded.   *)
Forwarded == {"calling", "recordFail", "recordOk", "putL1", "embedAnswer", "putL2",
              "settle", "log", "final"}

(* The steps only a request takes that may use the cache.                     *)
Caching == {"l1", "embed", "l2", "settleHit", "logHit", "replay", "putL1",
            "embedAnswer", "putL2"}

(* What holds of a request r at each of its awaits.                           *)
RequestInv(r) ==
  /\ end[r] = "open" <=> pc[r] \notin {"closing", "done"}
  /\ pc[r] \in {"acquire", "calling", "closing", "recordFail", "recordOk"} =>
       at[r] \in Backends
  /\ pc[r] \notin {"replay", "final", "done"} => rows[r] = <<>>
  /\ pc[r] \in {"replay", "final"} => rows[r] = <<200>>
  /\ pc[r] \in {"logHit", "replay", "log", "final"} => charge[r] = "reconciled"
  /\ pc[r] \in Silent => sent[r] = <<>>
  /\ pc[r] \in Forwarded => sent[r] = IF ask[r].stream THEN acc[r] ELSE <<>>
  /\ pc[r] \in Answered => acc[r] \in whole
  /\ pc[r] \in {"acquire", "calling"} => acc[r] = View!Answer(at[r], Len(acc[r]))
  /\ pc[r] = "acquire" => acc[r] = <<>>
  /\ pc[r] \in Caching => ~ask[r].bypass
  /\ ask[r].bypass /\ pc[r] \in {"settle", "log", "final"} => at[r] \in Backends
  /\ pc[r] = "replay" => ask[r].stream
  /\ pc[r] = "log503" => remaining[r] = {}
  /\ end[r] = "result" => /\ charge[r] = "reconciled" /\ rows[r] = <<200>>
                          /\ ask[r].bypass => at[r] \in Backends
  /\ end[r] = "unavailable" /\ sent[r] = <<>> =>
       remaining[r] = {} /\ rows[r] = <<503>>

(* The requests that hold a permit of b's semaphore.                          *)
Holders(b) == {r \in Requests : pc[r] \in {"calling", "closing"} /\ at[r] = b}

(* The inductive invariant.                                                   *)
PipelineInv ==
  /\ TypeOK
  /\ \A r \in Requests : RequestInv(r)
  /\ CacheHoldsWholeAnswers
  /\ (\A r \in Requests : ask[r].bypass) => l1 \cup l2 = {}
  /\ PermitsConserved

-----------------------------------------------------------------------------
(* The answers as sequences: empty, and one chunk longer.                     *)
LEMMA EmptyAnswer ==
  ASSUME NEW b
  PROVE  View!Answer(b, 0) = <<>>
  BY DEF View!Answer

LEMMA AnswerLength ==
  ASSUME NEW b, NEW n \in Nat
  PROVE  /\ View!Answer(b, n) \in Seq([src: {b}, no: Nat])
         /\ Len(View!Answer(b, n)) = n
         /\ DOMAIN View!Answer(b, n) = 1..n
         /\ \A i \in 1..n : View!Answer(b, n)[i] = [src |-> b, no |-> i]
  BY DEF View!Answer

LEMMA LongerAnswer ==
  ASSUME NEW b, NEW n \in Nat
  PROVE  Append(View!Answer(b, n), [src |-> b, no |-> n + 1]) = View!Answer(b, n + 1)
  BY AnswerLength DEF View!Answer

LEMMA EmptyPrefix ==
  ASSUME NEW a \in View!Answers
  PROVE  <<>> \o a = a
<1>1. PICK b \in Backends, n \in 0..MaxChunks : a = View!Answer(b, n)
  BY DEF View!Answers
<1>2. n \in Nat
  BY OrchestratorAssumption
<1>3. a \in Seq([src: {b}, no: Nat])
  BY <1>1, <1>2, AnswerLength
<1>4. QED BY <1>3

(* Having received nothing is having received the beginning of an answer.     *)
LEMMA NothingIsAnAnswer == <<>> \in View!Answers
  BY EmptyAnswer, OrchestratorAssumption DEF View!Answers

(* The scripts leave a hash, whichever reading of the clock they are given.   *)
LEMMA HashKept ==
  ASSUME TypeOK, NEW b \in Backends, NEW now \in Readings
  PROVE  /\ AfterAllow(hash[b], now) \in Hash
         /\ AfterFailure(hash[b], now) \in Hash
         /\ AfterSuccess(hash[b]) \in Hash
<1>1. now \in Nat /\ hash[b] \in Hash
  BY OrchestratorAssumption DEF TypeOK, Readings
<1>2. QED BY <1>1, ScriptTypes

-----------------------------------------------------------------------------
(* What a step leaves to show once it is known to change the state of one     *)
(* request only.                                                              *)

(* TypeOK without the permits, whose bound follows from PermitsConserved.     *)
Typed ==
  /\ pc \in [Requests -> Steps]
  /\ ask \in [Requests -> Kinds]
  /\ remaining \in [Requests -> SUBSET Backends]
  /\ at \in [Requests -> Backends \cup {None}]
  /\ acc \in [Requests -> View!Answers]
  /\ charge \in [Requests -> Charges]
  /\ rows \in [Requests -> {<<>>, <<200>>, <<503>>}]
  /\ l1 \subseteq View!Answers /\ l2 \subseteq View!Answers
  /\ sent \in [Requests -> View!Answers]
  /\ end \in [Requests -> {"open"} \cup View!Ends]
  /\ whole \subseteq View!Answers
  /\ clock \in 0..MaxClock
  /\ hash \in [Backends -> Hash]
  /\ probe \in [Requests -> BOOLEAN]
  /\ failedAt \in [Backends -> 0..MaxClock]

(* The requests other than r stay where they are.                             *)
OthersKept(r) ==
  /\ ask' = ask /\ whole \subseteq whole'
  /\ \A q \in Requests \ {r} :
       /\ pc'[q] = pc[q] /\ remaining'[q] = remaining[q] /\ at'[q] = at[q]
       /\ acc'[q] = acc[q] /\ charge'[q] = charge[q] /\ rows'[q] = rows[q]
       /\ sent'[q] = sent[q] /\ end'[q] = end[q]

(* The cache gets nothing but r's answer, and only if r may write it.         *)
CacheKept(r) ==
  /\ l1' \cup l2' \subseteq l1 \cup l2 \cup {acc[r]}
  /\ l1' \cup l2' \subseteq l1 \cup l2 \/ (acc[r] \in whole /\ ~ask[r].bypass)

Holding(r) == pc[r] \in {"calling", "closing"}

(* What happens to the permits: nothing, or r takes one, or gives one back.   *)
PermitsKept(r) ==
  \/ free' = free /\ (Holding(r)' <=> Holding(r)) /\ (Holding(r) => at'[r] = at[r])
  \/ /\ free[at[r]] > 0 /\ free' = [free EXCEPT ![at[r]] = @ - 1]
     /\ ~Holding(r) /\ Holding(r)' /\ at'[r] = at[r] /\ at[r] \in Backends
  \/ /\ free' = [free EXCEPT ![at[r]] = @ + 1]
     /\ Holding(r) /\ ~Holding(r)' /\ at'[r] = at[r] /\ at[r] \in Backends

(* A step of r, or of nobody, keeps the account of the permits.               *)
LEMMA PermitsInv ==
  ASSUME TypeOK, PermitsConserved, NEW r \in Requests, OthersKept(r), PermitsKept(r)
  PROVE  PermitsConserved' /\ free' \in [Backends -> 0..Concurrency]
<1> USE OrchestratorAssumption
<1>1. ASSUME NEW b \in Backends
      PROVE  /\ free'[b] + Cardinality(Holders(b)') = Concurrency
             /\ free'[b] \in 0..Concurrency
  <2>1. /\ IsFiniteSet(Holders(b)) /\ IsFiniteSet(Holders(b)')
        /\ Cardinality(Holders(b)) \in Nat /\ Cardinality(Holders(b)') \in Nat
    <3>1. Holders(b) \subseteq Requests /\ Holders(b)' \subseteq Requests
      BY DEF Holders
    <3>2. QED BY <3>1, FS_Subset, FS_CardinalityType
  <2>2. free[b] + Cardinality(Holders(b)) = Concurrency /\ free[b] \in 0..Concurrency
    BY DEF PermitsConserved, Holders, TypeOK
  <2>3. \A q \in Requests \ {r} : q \in Holders(b)' <=> q \in Holders(b)
    BY DEF OthersKept, Holders
  <2>4. CASE at[r] = b /\ ~Holding(r) /\ Holding(r)'
    <3>1. Holders(b)' = Holders(b) \cup {r} /\ r \notin Holders(b)
      BY <2>3, <2>4 DEF Holders, Holding, PermitsKept
    <3>2. Cardinality(Holders(b)') = Cardinality(Holders(b)) + 1
      BY <2>1, <3>1, FS_AddElement
    <3>3. free'[b] = free[b] - 1 /\ free[b] > 0
      BY <2>4 DEF PermitsKept, TypeOK
    <3>4. QED BY <2>1, <2>2, <3>2, <3>3
  <2>5. CASE at[r] = b /\ Holding(r) /\ ~Holding(r)'
    <3>1. Holders(b)' = Holders(b) \ {r} /\ r \in Holders(b)
      BY <2>3, <2>5 DEF Holders, Holding
    <3>2. Cardinality(Holders(b)') = Cardinality(Holders(b)) - 1
      BY <2>1, <3>1, FS_RemoveElement
    <3>3. free'[b] = free[b] + 1
      BY <2>5 DEF PermitsKept, TypeOK
    <3>4. QED BY <2>1, <2>2, <3>2, <3>3
  <2>6. CASE at[r] # b \/ (Holding(r)' <=> Holding(r))
    <3>1. r \in Holders(b)' <=> r \in Holders(b)
      BY <2>6 DEF Holders, Holding, PermitsKept
    <3>2. Holders(b)' = Holders(b)
      BY <2>3, <3>1 DEF Holders
    <3>3. free'[b] = free[b]
      BY <2>6 DEF PermitsKept, TypeOK
    <3>4. QED BY <2>1, <2>2, <3>2, <3>3
  <2>7. QED BY <2>4, <2>5, <2>6
<1>2. free' \in [Backends -> 0..Concurrency]
  <2>1. free' = [c \in Backends |-> free'[c]]
    BY DEF TypeOK, PermitsKept
  <2>2. QED BY <1>1, <2>1
<1>3. PermitsConserved'
  BY <1>1 DEF PermitsConserved, Holders
<1>4. QED BY <1>2, <1>3

(* So a step of r preserves the invariant if it keeps that of r.              *)
LEMMA LocalStepInv ==
  ASSUME PipelineInv, NEW r \in Requests, Typed', OthersKept(r), CacheKept(r),
         PermitsKept(r), RequestInv(r)'
  PROVE  PipelineInv'
<1>1. PermitsConserved' /\ free' \in [Backends -> 0..Concurrency]
  BY PermitsInv DEF PipelineInv
<1>2. TypeOK'
  BY <1>1 DEF Typed, TypeOK
<1>3. ASSUME NEW q \in Requests PROVE RequestInv(q)'
  <2>1. CASE q = r
    BY <2>1
  <2>2. CASE q # r
    <3>1. RequestInv(q)
      BY DEF PipelineInv
    <3>2. QED BY <2>2, <3>1 DEF OthersKept, RequestInv
  <2>3. QED BY <2>1, <2>2
<1>4. CacheHoldsWholeAnswers'
  BY DEF PipelineInv, CacheHoldsWholeAnswers, CacheKept, OthersKept
<1>5. ((\A q \in Requests : ask[q].bypass) => l1 \cup l2 = {})'
  BY DEF PipelineInv, CacheKept, OthersKept
<1>6. QED BY <1>1, <1>2, <1>3, <1>4, <1>5 DEF PipelineInv

-----------------------------------------------------------------------------
(* One lemma per step of a request: what it finds, what it leaves of its own   *)
(* state, and why the invariant of the request holds again.                   *)
USE DEF local, books, cache, client, breaker, Goto

(* The limiter refuses: the client is told so.                                *)
LEMMA DenyInv ==
  ASSUME PipelineInv, NEW r \in Requests, Deny(r)
  PROVE  PipelineInv'
<1>2. /\ pc'[r] = "done" /\ remaining'[r] = remaining[r] /\ at'[r] = at[r]
      /\ acc'[r] = acc[r] /\ charge'[r] = charge[r] /\ rows'[r] = rows[r]
      /\ sent'[r] = sent[r] /\ end'[r] = "rate_limited"
      /\ ask' = ask /\ whole' = whole
  BY DEF Deny, EndWith, PipelineInv, TypeOK
<1>3. Typed'
  BY DEF Deny, EndWith, PipelineInv, TypeOK, Typed, Steps, View!Ends,
      View!Errors
<1>4. OthersKept(r) /\ CacheKept(r) /\ PermitsKept(r)
  BY <1>2 DEF Deny, EndWith, PipelineInv, TypeOK, OthersKept, CacheKept,
      PermitsKept, Holding
<1>5. RequestInv(r)'
  BY <1>2 DEF Deny, EndWith, PipelineInv, RequestInv, Silent, Forwarded,
      Answered, Caching
<1>6. QED BY <1>3, <1>4, <1>5, LocalStepInv

(* The reservation of a request that reads the cache, and a lookup that finds *)
(* nothing in L1, an embedding that has still to be made or was: nothing      *)
(* changes but where the request is.                                          *)
LEMMA ReserveInv ==
  ASSUME PipelineInv, NEW r \in Requests,
         NEW step \in {"l1", "embed", "l2"},
         pc[r] \in {"reserve", "l1", "embed"}, ~ask[r].bypass,
         Goto(r, step), charge' \in {charge, [charge EXCEPT ![r] = "estimate"]},
         UNCHANGED <<local, rows, free, cache, client, breaker>>
  PROVE  PipelineInv'
<1>2. /\ pc'[r] = step /\ remaining'[r] = remaining[r] /\ at'[r] = at[r]
      /\ acc'[r] = acc[r] /\ charge'[r] = charge'[r] /\ rows'[r] = rows[r]
      /\ sent'[r] = sent[r] /\ end'[r] = end[r]
      /\ ask' = ask /\ whole' = whole
  BY DEF PipelineInv, TypeOK
<1>3. Typed'
  BY DEF PipelineInv, TypeOK, Typed, Steps, Charges
<1>4. OthersKept(r) /\ CacheKept(r) /\ PermitsKept(r)
  BY <1>2 DEF PipelineInv, TypeOK, OthersKept, CacheKept, PermitsKept, Holding
<1>5. RequestInv(r)'
  BY <1>2 DEF PipelineInv, RequestInv, Silent, Forwarded, Answered, Caching
<1>6. QED BY <1>3, <1>4, <1>5, LocalStepInv

(* An answer found in a tier is one that some backend completed.              *)
LEMMA HitInv ==
  ASSUME PipelineInv, NEW r \in Requests,
         NEW answer \in l1 \cup l2,
         pc[r] \in {"l1", "l2"}, Hit(r, answer),
         UNCHANGED <<books, free, cache, breaker>>
  PROVE  PipelineInv'
<1>1. answer \in whole
  BY DEF Hit, PipelineInv, RequestInv, Silent, Forwarded, Answered, Caching,
      CacheHoldsWholeAnswers
<1>2. /\ pc'[r] = "settleHit" /\ remaining'[r] = remaining[r] /\ at'[r] = at[r]
      /\ acc'[r] = answer /\ charge'[r] = charge[r] /\ rows'[r] = rows[r]
      /\ sent'[r] = sent[r] /\ end'[r] = end[r]
      /\ ask' = ask /\ whole' = whole
  BY <1>1 DEF Hit, PipelineInv, TypeOK
<1>3. Typed'
  BY <1>1 DEF Hit, PipelineInv, TypeOK, Typed, Steps
<1>4. OthersKept(r) /\ CacheKept(r) /\ PermitsKept(r)
  BY <1>1, <1>2 DEF Hit, PipelineInv, TypeOK, OthersKept, CacheKept,
      PermitsKept, Holding
<1>5. RequestInv(r)'
  BY <1>1, <1>2 DEF Hit, PipelineInv, RequestInv, Silent, Forwarded, Answered,
      Caching
<1>6. QED BY <1>3, <1>4, <1>5, LocalStepInv

(* registry.candidates finds no backend: 503, before anything else.           *)
LEMMA NoCandidateInv ==
  ASSUME PipelineInv, NEW r \in Requests,
         NEW candidates \in SUBSET Backends,
         pc[r] \in {"reserve", "embed", "l2"},
         charge' \in {charge, [charge EXCEPT ![r] = "estimate"]},
         remaining' = [remaining EXCEPT ![r] = candidates],
         Goto(r, "done"), EndWith(r, "no_backend"),
         UNCHANGED <<ask, at, acc, rows, free, cache, breaker>>
  PROVE  PipelineInv'
<1>2. /\ pc'[r] = "done" /\ remaining'[r] = candidates /\ at'[r] = at[r]
      /\ acc'[r] = acc[r] /\ charge'[r] = charge'[r] /\ rows'[r] = rows[r]
      /\ sent'[r] = sent[r] /\ end'[r] = "no_backend"
      /\ ask' = ask /\ whole' = whole
  BY DEF EndWith, PipelineInv, TypeOK
<1>3. Typed'
  BY DEF EndWith, PipelineInv, TypeOK, Typed, Steps, Charges, View!Ends,
      View!Errors
<1>4. OthersKept(r) /\ CacheKept(r) /\ PermitsKept(r)
  BY <1>2 DEF EndWith, PipelineInv, TypeOK, OthersKept, CacheKept, PermitsKept,
      Holding
<1>5. RequestInv(r)'
  BY <1>2 DEF EndWith, PipelineInv, RequestInv, Silent, Forwarded, Answered,
      Caching
<1>6. QED BY <1>3, <1>4, <1>5, LocalStepInv

(* It finds some: the walk begins, and nothing has been sent.                 *)
LEMMA CandidatesInv ==
  ASSUME PipelineInv, NEW r \in Requests,
         NEW candidates \in SUBSET Backends,
         pc[r] \in {"reserve", "embed", "l2"},
         charge' \in {charge, [charge EXCEPT ![r] = "estimate"]},
         remaining' = [remaining EXCEPT ![r] = candidates],
         Goto(r, "select"), UNCHANGED client,
         UNCHANGED <<ask, at, acc, rows, free, cache, breaker>>
  PROVE  PipelineInv'
<1>2. /\ pc'[r] = "select" /\ remaining'[r] = candidates /\ at'[r] = at[r]
      /\ acc'[r] = acc[r] /\ charge'[r] = charge'[r] /\ rows'[r] = rows[r]
      /\ sent'[r] = sent[r] /\ end'[r] = end[r]
      /\ ask' = ask /\ whole' = whole
  BY DEF PipelineInv, TypeOK
<1>3. Typed'
  BY DEF PipelineInv, TypeOK, Typed, Steps, Charges, View!Ends, View!Errors
<1>4. OthersKept(r) /\ CacheKept(r) /\ PermitsKept(r)
  BY <1>2 DEF PipelineInv, TypeOK, OthersKept, CacheKept, PermitsKept, Holding
<1>5. RequestInv(r)'
  BY <1>2 DEF PipelineInv, RequestInv, Silent, Forwarded, Answered, Caching
<1>6. QED BY <1>3, <1>4, <1>5, LocalStepInv

(* The estimate of a hit is corrected.                                        *)
LEMMA SettleHitInv ==
  ASSUME PipelineInv, NEW r \in Requests, SettleHit(r)
  PROVE  PipelineInv'
<1>2. /\ pc'[r] = "logHit" /\ remaining'[r] = remaining[r] /\ at'[r] = at[r]
      /\ acc'[r] = acc[r] /\ charge'[r] = "reconciled" /\ rows'[r] = rows[r]
      /\ sent'[r] = sent[r] /\ end'[r] = end[r]
      /\ ask' = ask /\ whole' = whole
  BY DEF SettleHit, Reconcile, PipelineInv, TypeOK
<1>3. Typed'
  BY DEF SettleHit, Reconcile, PipelineInv, TypeOK, Typed, Steps, Charges
<1>4. OthersKept(r) /\ CacheKept(r) /\ PermitsKept(r)
  BY <1>2 DEF SettleHit, Reconcile, PipelineInv, TypeOK, OthersKept, CacheKept,
      PermitsKept, Holding
<1>5. RequestInv(r)'
  BY <1>2 DEF SettleHit, Reconcile, PipelineInv, RequestInv, Silent, Forwarded,
      Answered, Caching
<1>6. QED BY <1>3, <1>4, <1>5, LocalStepInv

(* The one row of a hit.                                                      *)
LEMMA LogHitInv ==
  ASSUME PipelineInv, NEW r \in Requests, LogHit(r)
  PROVE  PipelineInv'
<1>1. rows[r] = <<>>
  BY DEF LogHit, Log, PipelineInv, RequestInv, Silent, Forwarded, Answered,
      Caching
<1>2. /\ pc'[r] = (IF ask[r].stream THEN "replay" ELSE "final")
      /\ remaining'[r] = remaining[r] /\ at'[r] = at[r]
      /\ acc'[r] = acc[r] /\ charge'[r] = charge[r] /\ rows'[r] = <<200>>
      /\ sent'[r] = sent[r] /\ end'[r] = end[r]
      /\ ask' = ask /\ whole' = whole
  BY <1>1 DEF LogHit, Log, PipelineInv, TypeOK
<1>3. Typed'
  BY <1>1 DEF LogHit, Log, PipelineInv, TypeOK, Typed, Steps
<1>4. OthersKept(r) /\ CacheKept(r) /\ PermitsKept(r)
  BY <1>1, <1>2 DEF LogHit, Log, PipelineInv, TypeOK, OthersKept, CacheKept,
      PermitsKept, Holding
<1>5. RequestInv(r)'
  BY <1>1, <1>2 DEF LogHit, Log, PipelineInv, RequestInv, Silent, Forwarded,
      Answered, Caching
<1>6. QED BY <1>3, <1>4, <1>5, LocalStepInv

(* A stream is sent the cached answer whole.                                  *)
LEMMA ReplayInv ==
  ASSUME PipelineInv, NEW r \in Requests, Replay(r)
  PROVE  PipelineInv'
<1>1. sent[r] = <<>> /\ rows[r] = <<200>> /\ <<>> \o acc[r] = acc[r]
  BY EmptyPrefix DEF Replay, PipelineInv, RequestInv, Silent, Forwarded,
      Answered, Caching, TypeOK
<1>2. /\ pc'[r] = "final" /\ remaining'[r] = remaining[r] /\ at'[r] = at[r]
      /\ acc'[r] = acc[r] /\ charge'[r] = charge[r] /\ rows'[r] = rows[r]
      /\ sent'[r] = acc[r] /\ end'[r] = end[r]
      /\ ask' = ask /\ whole' = whole
  BY <1>1 DEF Replay, PipelineInv, TypeOK
<1>3. Typed'
  BY <1>1 DEF Replay, PipelineInv, TypeOK, Typed, Steps
<1>4. OthersKept(r) /\ CacheKept(r) /\ PermitsKept(r)
  BY <1>1, <1>2 DEF Replay, PipelineInv, TypeOK, OthersKept, CacheKept,
      PermitsKept, Holding
<1>5. RequestInv(r)'
  BY <1>1, <1>2 DEF Replay, PipelineInv, RequestInv, Silent, Forwarded,
      Answered, Caching
<1>6. QED BY <1>3, <1>4, <1>5, LocalStepInv

(* A permit is free and taken.                                                *)
LEMMA AcquireInv ==
  ASSUME PipelineInv, NEW r \in Requests, Acquire(r)
  PROVE  PipelineInv'
<1>1. at[r] \in Backends /\ acc[r] = <<>> /\ sent[r] = <<>>
  BY DEF Acquire, HasPermit, PipelineInv, RequestInv, Silent, Forwarded,
      Answered, Caching
<1>2. /\ pc'[r] = "calling" /\ remaining'[r] = remaining[r] /\ at'[r] = at[r]
      /\ acc'[r] = acc[r] /\ charge'[r] = charge[r] /\ rows'[r] = rows[r]
      /\ sent'[r] = sent[r] /\ end'[r] = end[r]
      /\ ask' = ask /\ whole' = whole
  BY <1>1 DEF Acquire, HasPermit, PipelineInv, TypeOK
<1>3. Typed'
  BY <1>1 DEF Acquire, HasPermit, PipelineInv, TypeOK, Typed, Steps
<1>4. OthersKept(r) /\ CacheKept(r) /\ PermitsKept(r)
  BY <1>1, <1>2 DEF Acquire, HasPermit, PipelineInv, TypeOK, OthersKept,
      CacheKept, PermitsKept, Holding
<1>5. RequestInv(r)'
  BY <1>1, <1>2 DEF Acquire, HasPermit, PipelineInv, RequestInv, Silent,
      Forwarded, Answered, Caching
<1>6. QED BY <1>3, <1>4, <1>5, LocalStepInv

(* The breaker grants the chosen candidate: the request begins an answer of   *)
(* it.                                                                        *)
LEMMA GrantedInv ==
  ASSUME PipelineInv, NEW r \in Requests,
         NEW b \in Backends, NEW now \in Readings,
         Try(r, b, now), Granted(b, now)
  PROVE  PipelineInv'
<1>1. /\ pc' = [pc EXCEPT ![r] = "acquire"] /\ at' = [at EXCEPT ![r] = b]
      /\ acc' = [acc EXCEPT ![r] = <<>>]
      /\ probe' = [probe EXCEPT ![r] = Tripped(hash[b])]
  BY Zenon DEF Try
<1>2. /\ pc'[r] = "acquire" /\ remaining'[r] = remaining[r] \ {b} /\ at'[r] = b
      /\ acc'[r] = <<>> /\ charge'[r] = charge[r] /\ rows'[r] = rows[r]
      /\ sent'[r] = sent[r] /\ end'[r] = end[r]
      /\ ask' = ask /\ whole' = whole
  BY <1>1 DEF Try, Without, PipelineInv, TypeOK
<1>3. Typed'
  <2>1. hash' \in [Backends -> Hash]
    BY HashKept DEF Try, PipelineInv, TypeOK
  <2>2. probe' \in [Requests -> BOOLEAN]
    <3>1. Tripped(hash[b]) \in BOOLEAN
      BY DEF Tripped
    <3>2. QED BY <1>1, <3>1, Zenon DEF PipelineInv, TypeOK
  <2>3. remaining' \in [Requests -> SUBSET Backends]
    BY DEF Try, Without, PipelineInv, TypeOK
  <2>4. acc' \in [Requests -> View!Answers]
    BY <1>1, NothingIsAnAnswer DEF PipelineInv, TypeOK
  <2>5. QED
    BY <1>1, <2>1, <2>2, <2>3, <2>4 DEF Try, PipelineInv, TypeOK, Typed, Steps
<1>4. OthersKept(r) /\ CacheKept(r) /\ PermitsKept(r)
  BY <1>1, <1>2 DEF Try, Without, PipelineInv, TypeOK, OthersKept, CacheKept,
      PermitsKept, Holding
<1>5. RequestInv(r)'
  BY <1>1, <1>2, EmptyAnswer DEF Try, Without, PipelineInv, RequestInv, Silent,
      Forwarded, Answered, Caching
<1>6. QED BY <1>3, <1>4, <1>5, LocalStepInv

(* The breaker refuses it: the next candidate, or none is left.               *)
LEMMA RefusedInv ==
  ASSUME PipelineInv, NEW r \in Requests,
         NEW b \in Backends, NEW now \in Readings,
         Try(r, b, now), ~Granted(b, now)
  PROVE  PipelineInv'
<1>1. /\ pc' = [pc EXCEPT ![r] = IF remaining'[r] = {} THEN "log503" ELSE "select"]
      /\ UNCHANGED <<at, acc, probe>>
  BY Zenon DEF Try, NextCandidate
<1>2. /\ pc'[r] = (IF remaining'[r] = {} THEN "log503" ELSE "select")
      /\ remaining'[r] = remaining[r] \ {b} /\ at'[r] = at[r]
      /\ acc'[r] = acc[r] /\ charge'[r] = charge[r] /\ rows'[r] = rows[r]
      /\ sent'[r] = sent[r] /\ end'[r] = end[r]
      /\ ask' = ask /\ whole' = whole
  BY <1>1 DEF Try, Without, PipelineInv, TypeOK
<1>3. Typed'
  <2>1. hash' \in [Backends -> Hash]
    BY HashKept DEF Try, PipelineInv, TypeOK
  <2>2. remaining' \in [Requests -> SUBSET Backends]
    BY DEF Try, Without, PipelineInv, TypeOK
  <2>3. QED BY <1>1, <2>1, <2>2 DEF Try, PipelineInv, TypeOK, Typed, Steps
<1>4. OthersKept(r) /\ CacheKept(r) /\ PermitsKept(r)
  BY <1>1, <1>2 DEF Try, Without, PipelineInv, TypeOK, OthersKept, CacheKept,
      PermitsKept, Holding
<1>5. RequestInv(r)'
  BY <1>1, <1>2 DEF Try, Without, PipelineInv, RequestInv, Silent, Forwarded,
      Answered, Caching
<1>6. QED BY <1>3, <1>4, <1>5, LocalStepInv

(* The answer that a chunk makes, and that the client has then received.      *)
LEMMA ChunkFacts ==
  ASSUME PipelineInv, NEW r \in Requests, Chunk(r)
  PROVE  /\ ask[r].stream /\ pc[r] = "calling" /\ end[r] = "open"
         /\ at[r] \in Backends /\ sent[r] = acc[r]
         /\ Len(acc[r]) \in Nat /\ Len(acc[r]) + 1 \in Nat
         /\ acc[r] = View!Answer(at[r], Len(acc[r]))
         /\ View!Answer(at[r], Len(acc[r]) + 1) \in View!Answers
         /\ acc' = [acc EXCEPT ![r] = View!Answer(at[r], Len(acc[r]) + 1)]
         /\ sent' = [sent EXCEPT ![r] = View!Answer(at[r], Len(acc[r]) + 1)]
<1> DEFINE n == Len(acc[r])
           chunk == [src |-> at[r], no |-> n + 1]
<1>1. /\ ask[r].stream /\ pc[r] = "calling" /\ at[r] \in Backends /\ end[r] = "open"
      /\ sent[r] = acc[r] /\ acc[r] = View!Answer(at[r], n)
  BY DEF Chunk, PipelineInv, RequestInv, Forwarded
<1>2. n \in Nat
  <2>1. acc[r] \in View!Answers
    BY DEF PipelineInv, TypeOK
  <2>2. PICK b \in Backends, k \in 0..MaxChunks : acc[r] = View!Answer(b, k)
    BY <2>1 DEF View!Answers
  <2>3. k \in Nat
    BY OrchestratorAssumption
  <2>4. QED BY <2>2, <2>3, AnswerLength
<1>3. n + 1 \in 0..MaxChunks
  BY <1>2, OrchestratorAssumption DEF Chunk
<1>4. View!Answer(at[r], n + 1) \in View!Answers
  BY <1>1, <1>3 DEF View!Answers
<1>5. Append(acc[r], chunk) = View!Answer(at[r], n + 1)
  BY <1>1, <1>2, LongerAnswer
<1>6. /\ Len(View!Answer(at[r], n + 1)) = n + 1
      /\ View!Answer(at[r], n + 1)[n + 1] = chunk
  <2>1. n + 1 \in Nat /\ n + 1 \in 1..(n + 1)
    BY <1>2
  <2>2. QED BY <2>1, AnswerLength
<1>7. /\ acc' = [acc EXCEPT ![r] = Append(acc[r], chunk)]
      /\ LET grown == Append(acc[r], chunk)
         IN  sent' = [sent EXCEPT ![r] = Append(sent[r], grown[Len(grown)])]
  BY DEF Chunk
<1>8. acc' = [acc EXCEPT ![r] = View!Answer(at[r], n + 1)]
  BY <1>5, <1>7
<1>9. sent' = [sent EXCEPT ![r] = Append(sent[r], chunk)]
  BY <1>5, <1>6, <1>7
<1>10. sent' = [sent EXCEPT ![r] = View!Answer(at[r], n + 1)]
  BY <1>1, <1>5, <1>9
<1>11. n + 1 \in Nat
  BY <1>2
<1>12. QED BY <1>1, <1>2, <1>4, <1>8, <1>10, <1>11

(* A chunk makes the answer one chunk longer, and the client has all of it.   *)
LEMMA ChunkInv ==
  ASSUME PipelineInv, NEW r \in Requests, Chunk(r)
  PROVE  PipelineInv'
<1>1. /\ ask[r].stream /\ pc[r] = "calling" /\ at[r] \in Backends
      /\ Len(acc[r]) \in Nat /\ View!Answer(at[r], Len(acc[r]) + 1) \in View!Answers
      /\ acc' = [acc EXCEPT ![r] = View!Answer(at[r], Len(acc[r]) + 1)]
      /\ sent' = [sent EXCEPT ![r] = View!Answer(at[r], Len(acc[r]) + 1)]
  BY ChunkFacts
<1>2. /\ pc'[r] = pc[r] /\ remaining'[r] = remaining[r] /\ at'[r] = at[r]
      /\ acc'[r] = View!Answer(at[r], Len(acc[r]) + 1)
      /\ charge'[r] = charge[r] /\ rows'[r] = rows[r]
      /\ sent'[r] = View!Answer(at[r], Len(acc[r]) + 1) /\ end'[r] = end[r]
      /\ ask' = ask /\ whole' = whole
  BY <1>1 DEF Chunk, PipelineInv, TypeOK
<1>3. Typed'
  <2>1. acc' \in [Requests -> View!Answers] /\ sent' \in [Requests -> View!Answers]
    BY <1>1 DEF PipelineInv, TypeOK
  <2>2. QED BY <2>1 DEF Chunk, PipelineInv, TypeOK, Typed
<1>4. OthersKept(r) /\ CacheKept(r) /\ PermitsKept(r)
  BY <1>1, <1>2 DEF Chunk, PipelineInv, TypeOK, OthersKept, CacheKept,
      PermitsKept, Holding
<1>5. RequestInv(r)'
  BY <1>1, <1>2, AnswerLength DEF Chunk, PipelineInv, RequestInv, Silent,
      Forwarded, Answered, Caching
<1>6. QED BY <1>3, <1>4, <1>5, LocalStepInv

(* What the completed answer of a call is.                                    *)
LEMMA SucceedFacts ==
  ASSUME PipelineInv, NEW r \in Requests, Succeed(r)
  PROVE  \E answer \in View!Answers :
           /\ acc' = [acc EXCEPT ![r] = answer] /\ whole' = whole \cup {answer}
           /\ (ask[r].stream => answer = acc[r])
           /\ at[r] \in Backends /\ (sent[r] = IF ask[r].stream THEN acc[r] ELSE <<>>)
<1>1. at[r] \in Backends /\ (sent[r] = IF ask[r].stream THEN acc[r] ELSE <<>>)
  BY DEF Succeed, PipelineInv, RequestInv, Forwarded
<1>2. acc[r] \in View!Answers
  BY DEF PipelineInv, TypeOK
<1>3. {View!Answer(at[r], n) : n \in 0..MaxChunks} \subseteq View!Answers
  BY <1>1 DEF View!Answers
<1>4. QED BY <1>1, <1>2, <1>3 DEF Succeed

(* An answer is complete when its stream ends or complete() returns it.       *)
LEMMA SucceedInv ==
  ASSUME PipelineInv, NEW r \in Requests, Succeed(r)
  PROVE  PipelineInv'
<1>1. PICK answer \in View!Answers :
        /\ acc' = [acc EXCEPT ![r] = answer] /\ whole' = whole \cup {answer}
        /\ (ask[r].stream => answer = acc[r])
        /\ at[r] \in Backends /\ (sent[r] = IF ask[r].stream THEN acc[r] ELSE <<>>)
  BY SucceedFacts
<1>2. /\ pc'[r] = "recordOk" /\ remaining'[r] = remaining[r] /\ at'[r] = at[r]
      /\ acc'[r] = answer /\ charge'[r] = charge[r] /\ rows'[r] = rows[r]
      /\ sent'[r] = sent[r] /\ end'[r] = end[r]
      /\ ask' = ask /\ whole' = whole \cup {answer}
  BY <1>1 DEF Succeed, Release, PipelineInv, TypeOK
<1>3. Typed'
  BY <1>1 DEF Succeed, Release, PipelineInv, TypeOK, Typed, Steps
<1>4. OthersKept(r) /\ CacheKept(r) /\ PermitsKept(r)
  BY <1>1, <1>2 DEF Succeed, Release, PipelineInv, TypeOK, OthersKept,
      CacheKept, PermitsKept, Holding
<1>5. RequestInv(r)'
  BY <1>1, <1>2 DEF Succeed, Release, PipelineInv, RequestInv, Silent,
      Forwarded, Answered, Caching
<1>6. QED BY <1>3, <1>4, <1>5, LocalStepInv

(* A call that fails gives its permit back and nothing else.                  *)
LEMMA CallFailsInv ==
  ASSUME PipelineInv, NEW r \in Requests, CallFails(r)
  PROVE  PipelineInv'
<1>1. at[r] \in Backends
  BY DEF CallFails, Release, PipelineInv, RequestInv, Silent, Forwarded,
      Answered, Caching
<1>2. /\ pc'[r] = "recordFail" /\ remaining'[r] = remaining[r] /\ at'[r] = at[r]
      /\ acc'[r] = acc[r] /\ charge'[r] = charge[r] /\ rows'[r] = rows[r]
      /\ sent'[r] = sent[r] /\ end'[r] = end[r]
      /\ ask' = ask /\ whole' = whole
  BY <1>1 DEF CallFails, Release, PipelineInv, TypeOK
<1>3. Typed'
  BY <1>1 DEF CallFails, Release, PipelineInv, TypeOK, Typed, Steps
<1>4. OthersKept(r) /\ CacheKept(r) /\ PermitsKept(r)
  BY <1>1, <1>2 DEF CallFails, Release, PipelineInv, TypeOK, OthersKept,
      CacheKept, PermitsKept, Holding
<1>5. RequestInv(r)'
  BY <1>1, <1>2 DEF CallFails, Release, PipelineInv, RequestInv, Silent,
      Forwarded, Answered, Caching
<1>6. QED BY <1>3, <1>4, <1>5, LocalStepInv

(* A failure before the first chunk is recorded: the next candidate, or none  *)
(* is left.                                                                   *)
LEMMA FailedOverInv ==
  ASSUME PipelineInv, NEW r \in Requests,
         NEW now \in Readings,
         RecordFail(r, now), ~AnyYielded(r)
  PROVE  PipelineInv'
<1>1. /\ at[r] \in Backends /\ sent[r] = <<>>
      /\ pc' = [pc EXCEPT ![r] = IF remaining[r] = {} THEN "log503" ELSE "select"]
      /\ UNCHANGED client
  <2>1. at[r] \in Backends /\ (sent[r] = IF ask[r].stream THEN acc[r] ELSE <<>>)
    BY DEF RecordFail, PipelineInv, RequestInv, Forwarded
  <2>2. sent[r] = <<>>
    BY <2>1 DEF AnyYielded
  <2>3. QED BY <2>1, <2>2, Zenon DEF RecordFail, NextCandidate
<1>2. /\ pc'[r] = (IF remaining[r] = {} THEN "log503" ELSE "select")
      /\ remaining'[r] = remaining[r] /\ at'[r] = at[r]
      /\ acc'[r] = acc[r] /\ charge'[r] = charge[r] /\ rows'[r] = rows[r]
      /\ sent'[r] = sent[r] /\ end'[r] = end[r]
      /\ ask' = ask /\ whole' = whole
  BY <1>1 DEF RecordFail, NextCandidate, PipelineInv, TypeOK
<1>3. Typed'
  <2>1. hash' \in [Backends -> Hash] /\ failedAt' \in [Backends -> 0..MaxClock]
    BY <1>1, HashKept DEF RecordFail, PipelineInv, TypeOK
  <2>2. QED BY <1>1, <2>1 DEF RecordFail, PipelineInv, TypeOK, Typed, Steps
<1>4. OthersKept(r) /\ CacheKept(r) /\ PermitsKept(r)
  BY <1>1, <1>2 DEF RecordFail, NextCandidate, PipelineInv, TypeOK, OthersKept,
      CacheKept, PermitsKept, Holding
<1>5. RequestInv(r)'
  BY <1>1, <1>2 DEF RecordFail, NextCandidate, PipelineInv, RequestInv, Silent,
      Forwarded, Answered, Caching
<1>6. QED BY <1>3, <1>4, <1>5, LocalStepInv

(* A failure after the first chunk ends the stream: the client has received   *)
(* some of it.                                                                *)
LEMMA BrokenOffInv ==
  ASSUME PipelineInv, NEW r \in Requests,
         NEW now \in Readings,
         RecordFail(r, now), AnyYielded(r)
  PROVE  PipelineInv'
<1>1. /\ at[r] \in Backends /\ sent[r] # <<>>
      /\ pc' = [pc EXCEPT ![r] = "done"] /\ EndWith(r, "unavailable")
  <2>1. at[r] \in Backends /\ (sent[r] = IF ask[r].stream THEN acc[r] ELSE <<>>)
    BY DEF RecordFail, PipelineInv, RequestInv, Forwarded
  <2>2. sent[r] # <<>>
    BY <2>1 DEF AnyYielded
  <2>3. QED BY <2>1, <2>2, Zenon DEF RecordFail
<1>2. /\ pc'[r] = "done" /\ remaining'[r] = remaining[r] /\ at'[r] = at[r]
      /\ acc'[r] = acc[r] /\ charge'[r] = charge[r] /\ rows'[r] = rows[r]
      /\ sent'[r] = sent[r] /\ end'[r] = "unavailable"
      /\ ask' = ask /\ whole' = whole
  BY <1>1 DEF RecordFail, EndWith, PipelineInv, TypeOK
<1>3. Typed'
  <2>1. hash' \in [Backends -> Hash] /\ failedAt' \in [Backends -> 0..MaxClock]
    BY <1>1, HashKept DEF RecordFail, PipelineInv, TypeOK
  <2>2. QED
    BY <1>1, <2>1
    DEF RecordFail, EndWith, PipelineInv, TypeOK, Typed, Steps, View!Ends, View!Errors
<1>4. OthersKept(r) /\ CacheKept(r) /\ PermitsKept(r)
  BY <1>1, <1>2 DEF RecordFail, EndWith, PipelineInv, TypeOK, OthersKept,
      CacheKept, PermitsKept, Holding
<1>5. RequestInv(r)'
  BY <1>1, <1>2 DEF RecordFail, EndWith, PipelineInv, RequestInv, Silent,
      Forwarded, Answered, Caching
<1>6. QED BY <1>3, <1>4, <1>5, LocalStepInv

(* The success is recorded; only a request that may use the cache goes on to  *)
(* write it.                                                                  *)
LEMMA RecordOkInv ==
  ASSUME PipelineInv, NEW r \in Requests, RecordOk(r)
  PROVE  PipelineInv'
<1>1. at[r] \in Backends /\ acc[r] \in whole
      /\ (sent[r] = IF ask[r].stream THEN acc[r] ELSE <<>>)
  BY DEF RecordOk, PipelineInv, RequestInv, Silent, Forwarded, Answered, Caching
<1>2. /\ pc'[r] = (IF ask[r].bypass THEN "settle" ELSE "putL1")
      /\ remaining'[r] = remaining[r] /\ at'[r] = at[r]
      /\ acc'[r] = acc[r] /\ charge'[r] = charge[r] /\ rows'[r] = rows[r]
      /\ sent'[r] = sent[r] /\ end'[r] = end[r]
      /\ ask' = ask /\ whole' = whole
  BY <1>1 DEF RecordOk, PipelineInv, TypeOK
<1>3. Typed'
  <2>1. clock \in Readings
    BY OrchestratorAssumption DEF PipelineInv, TypeOK, Readings
  <2>2. hash' \in [Backends -> Hash]
    BY <1>1, <2>1, HashKept DEF RecordOk, PipelineInv, TypeOK
  <2>3. QED BY <2>2 DEF RecordOk, PipelineInv, TypeOK, Typed, Steps
<1>4. OthersKept(r) /\ CacheKept(r) /\ PermitsKept(r)
  BY <1>1, <1>2 DEF RecordOk, PipelineInv, TypeOK, OthersKept, CacheKept,
      PermitsKept, Holding
<1>5. RequestInv(r)'
  BY <1>1, <1>2 DEF RecordOk, PipelineInv, RequestInv, Silent, Forwarded,
      Answered, Caching
<1>6. QED BY <1>3, <1>4, <1>5, LocalStepInv

(* What is put into L1 some backend completed.                                *)
LEMMA PutL1Inv ==
  ASSUME PipelineInv, NEW r \in Requests, PutL1(r)
  PROVE  PipelineInv'
<1>1. acc[r] \in whole /\ ~ask[r].bypass
  BY DEF PutL1, PipelineInv, RequestInv, Silent, Forwarded, Answered, Caching
<1>2. /\ pc'[r] = "embedAnswer" /\ remaining'[r] = remaining[r] /\ at'[r] = at[r]
      /\ acc'[r] = acc[r] /\ charge'[r] = charge[r] /\ rows'[r] = rows[r]
      /\ sent'[r] = sent[r] /\ end'[r] = end[r]
      /\ ask' = ask /\ whole' = whole
  BY <1>1 DEF PutL1, PipelineInv, TypeOK
<1>3. Typed'
  BY <1>1 DEF PutL1, PipelineInv, TypeOK, Typed, Steps
<1>4. OthersKept(r) /\ CacheKept(r) /\ PermitsKept(r)
  BY <1>1, <1>2 DEF PutL1, PipelineInv, TypeOK, OthersKept, CacheKept,
      PermitsKept, Holding
<1>5. RequestInv(r)'
  BY <1>1, <1>2 DEF PutL1, PipelineInv, RequestInv, Silent, Forwarded, Answered,
      Caching
<1>6. QED BY <1>3, <1>4, <1>5, LocalStepInv

(* The embedding for L2, or none.                                             *)
LEMMA EmbedAnswerInv ==
  ASSUME PipelineInv, NEW r \in Requests, EmbedAnswer(r)
  PROVE  PipelineInv'
<1>2. /\ pc'[r] = (IF L2Enabled THEN "putL2" ELSE "settle")
      /\ remaining'[r] = remaining[r] /\ at'[r] = at[r]
      /\ acc'[r] = acc[r] /\ charge'[r] = charge[r] /\ rows'[r] = rows[r]
      /\ sent'[r] = sent[r] /\ end'[r] = end[r]
      /\ ask' = ask /\ whole' = whole
  BY DEF EmbedAnswer, PipelineInv, TypeOK
<1>3. Typed'
  BY DEF EmbedAnswer, PipelineInv, TypeOK, Typed, Steps
<1>4. OthersKept(r) /\ CacheKept(r) /\ PermitsKept(r)
  BY <1>2 DEF EmbedAnswer, PipelineInv, TypeOK, OthersKept, CacheKept,
      PermitsKept, Holding
<1>5. RequestInv(r)'
  BY <1>2 DEF EmbedAnswer, PipelineInv, RequestInv, Silent, Forwarded, Answered,
      Caching
<1>6. QED BY <1>3, <1>4, <1>5, LocalStepInv

(* What is put into L2 some backend completed.                                *)
LEMMA PutL2Inv ==
  ASSUME PipelineInv, NEW r \in Requests, PutL2(r)
  PROVE  PipelineInv'
<1>1. acc[r] \in whole /\ ~ask[r].bypass
  BY DEF PutL2, PipelineInv, RequestInv, Silent, Forwarded, Answered, Caching
<1>2. /\ pc'[r] = "settle" /\ remaining'[r] = remaining[r] /\ at'[r] = at[r]
      /\ acc'[r] = acc[r] /\ charge'[r] = charge[r] /\ rows'[r] = rows[r]
      /\ sent'[r] = sent[r] /\ end'[r] = end[r]
      /\ ask' = ask /\ whole' = whole
  BY <1>1 DEF PutL2, PipelineInv, TypeOK
<1>3. Typed'
  BY <1>1 DEF PutL2, PipelineInv, TypeOK, Typed, Steps
<1>4. OthersKept(r) /\ CacheKept(r) /\ PermitsKept(r)
  BY <1>1, <1>2 DEF PutL2, PipelineInv, TypeOK, OthersKept, CacheKept,
      PermitsKept, Holding
<1>5. RequestInv(r)'
  BY <1>1, <1>2 DEF PutL2, PipelineInv, RequestInv, Silent, Forwarded, Answered,
      Caching
<1>6. QED BY <1>3, <1>4, <1>5, LocalStepInv

(* The estimate is corrected.                                                 *)
LEMMA SettleInv ==
  ASSUME PipelineInv, NEW r \in Requests, Settle(r)
  PROVE  PipelineInv'
<1>2. /\ pc'[r] = "log" /\ remaining'[r] = remaining[r] /\ at'[r] = at[r]
      /\ acc'[r] = acc[r] /\ charge'[r] = "reconciled" /\ rows'[r] = rows[r]
      /\ sent'[r] = sent[r] /\ end'[r] = end[r]
      /\ ask' = ask /\ whole' = whole
  BY DEF Settle, Reconcile, PipelineInv, TypeOK
<1>3. Typed'
  BY DEF Settle, Reconcile, PipelineInv, TypeOK, Typed, Steps, Charges
<1>4. OthersKept(r) /\ CacheKept(r) /\ PermitsKept(r)
  BY <1>2 DEF Settle, Reconcile, PipelineInv, TypeOK, OthersKept, CacheKept,
      PermitsKept, Holding
<1>5. RequestInv(r)'
  BY <1>2 DEF Settle, Reconcile, PipelineInv, RequestInv, Silent, Forwarded,
      Answered, Caching
<1>6. QED BY <1>3, <1>4, <1>5, LocalStepInv

(* The one row of an answer from a backend.                                   *)
LEMMA LogServedInv ==
  ASSUME PipelineInv, NEW r \in Requests, LogServed(r)
  PROVE  PipelineInv'
<1>1. rows[r] = <<>>
  BY DEF LogServed, Log, PipelineInv, RequestInv, Silent, Forwarded, Answered,
      Caching
<1>2. /\ pc'[r] = "final" /\ remaining'[r] = remaining[r] /\ at'[r] = at[r]
      /\ acc'[r] = acc[r] /\ charge'[r] = charge[r] /\ rows'[r] = <<200>>
      /\ sent'[r] = sent[r] /\ end'[r] = end[r]
      /\ ask' = ask /\ whole' = whole
  BY <1>1 DEF LogServed, Log, PipelineInv, TypeOK
<1>3. Typed'
  BY <1>1 DEF LogServed, Log, PipelineInv, TypeOK, Typed, Steps
<1>4. OthersKept(r) /\ CacheKept(r) /\ PermitsKept(r)
  BY <1>1, <1>2 DEF LogServed, Log, PipelineInv, TypeOK, OthersKept, CacheKept,
      PermitsKept, Holding
<1>5. RequestInv(r)'
  BY <1>1, <1>2 DEF LogServed, Log, PipelineInv, RequestInv, Silent, Forwarded,
      Answered, Caching
<1>6. QED BY <1>3, <1>4, <1>5, LocalStepInv

(* The result: settled, logged, and the whole answer sent.                    *)
LEMMA FinalInv ==
  ASSUME PipelineInv, NEW r \in Requests, Final(r)
  PROVE  PipelineInv'
<1>1. sent[r] = IF ask[r].stream THEN acc[r] ELSE <<>>
  BY DEF Final, PipelineInv, RequestInv, Silent, Forwarded, Answered, Caching
<1>2. /\ pc'[r] = "done" /\ remaining'[r] = remaining[r] /\ at'[r] = at[r]
      /\ acc'[r] = acc[r] /\ charge'[r] = charge[r] /\ rows'[r] = rows[r]
      /\ sent'[r] = acc[r] /\ end'[r] = "result"
      /\ ask' = ask /\ whole' = whole
  BY <1>1 DEF Final, PipelineInv, TypeOK
<1>3. Typed'
  BY <1>1 DEF Final, PipelineInv, TypeOK, Typed, Steps, View!Ends, View!Errors
<1>4. OthersKept(r) /\ CacheKept(r) /\ PermitsKept(r)
  BY <1>1, <1>2 DEF Final, PipelineInv, TypeOK, OthersKept, CacheKept,
      PermitsKept, Holding
<1>5. RequestInv(r)'
  BY <1>1, <1>2 DEF Final, PipelineInv, RequestInv, Silent, Forwarded, Answered,
      Caching
<1>6. QED BY <1>3, <1>4, <1>5, LocalStepInv

(* Every candidate was tried: the one 503 row, then the error.                *)
LEMMA LogUnavailableInv ==
  ASSUME PipelineInv, NEW r \in Requests, LogUnavailable(r)
  PROVE  PipelineInv'
<1>1. rows[r] = <<>> /\ remaining[r] = {}
  BY DEF LogUnavailable, EndWith, PipelineInv, RequestInv, Silent, Forwarded,
      Answered, Caching
<1>2. /\ pc'[r] = "done" /\ remaining'[r] = remaining[r] /\ at'[r] = at[r]
      /\ acc'[r] = acc[r] /\ charge'[r] = charge[r] /\ rows'[r] = <<503>>
      /\ sent'[r] = sent[r] /\ end'[r] = "unavailable"
      /\ ask' = ask /\ whole' = whole
  BY <1>1 DEF LogUnavailable, EndWith, PipelineInv, TypeOK
<1>3. Typed'
  BY <1>1 DEF LogUnavailable, EndWith, PipelineInv, TypeOK, Typed, Steps,
      View!Ends, View!Errors
<1>4. OthersKept(r) /\ CacheKept(r) /\ PermitsKept(r)
  BY <1>1, <1>2 DEF LogUnavailable, EndWith, PipelineInv, TypeOK, OthersKept,
      CacheKept, PermitsKept, Holding
<1>5. RequestInv(r)'
  BY <1>1, <1>2 DEF LogUnavailable, EndWith, PipelineInv, RequestInv, Silent,
      Forwarded, Answered, Caching
<1>6. QED BY <1>3, <1>4, <1>5, LocalStepInv

(* An exception at an unguarded await holds no permit.                        *)
LEMMA FaultInv ==
  ASSUME PipelineInv, NEW r \in Requests, Fault(r)
  PROVE  PipelineInv'
<1>2. /\ pc'[r] = "done" /\ remaining'[r] = remaining[r] /\ at'[r] = at[r]
      /\ acc'[r] = acc[r] /\ charge'[r] = charge[r] /\ rows'[r] = rows[r]
      /\ sent'[r] = sent[r] /\ end'[r] = "crashed"
      /\ ask' = ask /\ whole' = whole
  BY DEF Fault, Unguarded, EndWith, PipelineInv, TypeOK
<1>3. Typed'
  BY DEF Fault, Unguarded, EndWith, PipelineInv, TypeOK, Typed, Steps,
      View!Ends, View!Errors
<1>4. OthersKept(r) /\ CacheKept(r) /\ PermitsKept(r)
  BY <1>2 DEF Fault, Unguarded, EndWith, PipelineInv, TypeOK, OthersKept,
      CacheKept, PermitsKept, Holding
<1>5. RequestInv(r)'
  BY <1>2 DEF Fault, Unguarded, EndWith, PipelineInv, RequestInv, Silent,
      Forwarded, Answered, Caching
<1>6. QED BY <1>3, <1>4, <1>5, LocalStepInv

(* A cancelled request keeps its permit until it is unwound.                  *)
LEMMA CancelInv ==
  ASSUME PipelineInv, NEW r \in Requests, Cancel(r)
  PROVE  PipelineInv'
<1>2. /\ pc'[r] = (IF pc[r] = "calling" THEN "closing" ELSE "done")
      /\ remaining'[r] = remaining[r] /\ at'[r] = at[r]
      /\ acc'[r] = acc[r] /\ charge'[r] = charge[r] /\ rows'[r] = rows[r]
      /\ sent'[r] = sent[r] /\ end'[r] = "gone"
      /\ ask' = ask /\ whole' = whole
  BY DEF Cancel, Unwound, EndWith, PipelineInv, TypeOK
<1>3. Typed'
  BY DEF Cancel, Unwound, EndWith, PipelineInv, TypeOK, Typed, Steps, View!Ends,
      View!Errors
<1>4. OthersKept(r) /\ CacheKept(r) /\ PermitsKept(r)
  BY <1>2 DEF Cancel, Unwound, EndWith, PipelineInv, TypeOK, OthersKept,
      CacheKept, PermitsKept, Holding
<1>5. RequestInv(r)'
  BY <1>2 DEF Cancel, Unwound, EndWith, PipelineInv, RequestInv, Silent,
      Forwarded, Answered, Caching
<1>6. QED BY <1>3, <1>4, <1>5, LocalStepInv

(* The abandoned call is left, and its permit given back.                     *)
LEMMA CloseInv ==
  ASSUME PipelineInv, NEW r \in Requests, Close(r)
  PROVE  PipelineInv'
<1>1. at[r] \in Backends /\ end[r] # "open" /\ end[r] \in {"open"} \cup View!Ends
  BY DEF Close, Release, PipelineInv, RequestInv, Silent, Forwarded, Answered,
      Caching, TypeOK
<1>2. /\ pc'[r] = "done" /\ remaining'[r] = remaining[r] /\ at'[r] = at[r]
      /\ acc'[r] = acc[r] /\ charge'[r] = charge[r] /\ rows'[r] = rows[r]
      /\ sent'[r] = sent[r] /\ end'[r] = end[r]
      /\ ask' = ask /\ whole' = whole
  BY <1>1 DEF Close, Release, PipelineInv, TypeOK
<1>3. Typed'
  BY <1>1 DEF Close, Release, PipelineInv, TypeOK, Typed, Steps
<1>4. OthersKept(r) /\ CacheKept(r) /\ PermitsKept(r)
  BY <1>1, <1>2 DEF Close, Release, PipelineInv, TypeOK, OthersKept, CacheKept,
      PermitsKept, Holding
<1>5. RequestInv(r)'
  BY <1>1, <1>2 DEF Close, Release, PipelineInv, RequestInv, Silent, Forwarded,
      Answered, Caching
<1>6. QED BY <1>3, <1>4, <1>5, LocalStepInv

-----------------------------------------------------------------------------
(* The TTL of L1 and the clock move no request.                               *)
LEMMA NobodyMovesInv ==
  ASSUME PipelineInv, Typed', UNCHANGED <<pc, local, books, free, client>>,
         l1' \subseteq l1, l2' \subseteq l2
  PROVE  PipelineInv'
<1>1. TypeOK'
  BY DEF PipelineInv, Typed, TypeOK
<1>2. \A r \in Requests : RequestInv(r)'
  BY DEF PipelineInv, RequestInv
<1>3. CacheHoldsWholeAnswers'
  BY DEF PipelineInv, CacheHoldsWholeAnswers
<1>4. ((\A q \in Requests : ask[q].bypass) => l1 \cup l2 = {})'
  BY DEF PipelineInv
<1>5. PermitsConserved'
  BY DEF PipelineInv, PermitsConserved
<1>6. QED BY <1>1, <1>2, <1>3, <1>4, <1>5 DEF PipelineInv

(* Initially no request has begun, the cache is empty and every permit free.  *)
LEMMA InitInv == Init => PipelineInv
<1> SUFFICES ASSUME Init PROVE PipelineInv
  OBVIOUS
<1> USE OrchestratorAssumption
<1>1. TypeOK
  <2>1. acc \in [Requests -> View!Answers] /\ sent \in [Requests -> View!Answers]
    BY NothingIsAnAnswer DEF Init, View!Init
  <2>2. hash \in [Backends -> Hash]
    BY DEF Init, NoHash, NoTime, Hash, BreakerStates
  <2>3. QED
    BY <2>1, <2>2 DEF Init, View!Init, TypeOK, Steps, Charges
<1>2. ASSUME NEW r \in Requests PROVE RequestInv(r)
  <2>1. /\ pc[r] = "reserve" /\ end[r] = "open" /\ sent[r] = <<>> /\ rows[r] = <<>>
    BY DEF Init, View!Init
  <2>2. QED BY <2>1 DEF RequestInv, Silent, Forwarded, Answered, Caching
<1>3. CacheHoldsWholeAnswers /\ l1 \cup l2 = {}
  BY DEF Init, CacheHoldsWholeAnswers
<1>4. PermitsConserved
  <2> SUFFICES ASSUME NEW b \in Backends
               PROVE  free[b] + Cardinality(Holders(b)) = Concurrency
    BY DEF PermitsConserved, Holders
  <2>1. Holders(b) = {}
    BY DEF Init, Holders
  <2>2. Cardinality(Holders(b)) = 0
    BY <2>1, FS_EmptySet
  <2>3. QED BY <2>2 DEF Init
<1>5. QED BY <1>1, <1>2, <1>3, <1>4 DEF PipelineInv

(* Every step of the pipeline and of its environment.                         *)
LEMMA NextInv == PipelineInv /\ [Next]_vars => PipelineInv'
<1> SUFFICES ASSUME PipelineInv, [Next]_vars PROVE PipelineInv'
  OBVIOUS
<1>1. ASSUME NEW r \in Requests, pc[r] \in {"reserve", "embed", "l2"}, Route(r),
             charge' \in {charge, [charge EXCEPT ![r] = "estimate"]},
             UNCHANGED <<rows, free, cache, breaker>>
      PROVE  PipelineInv'
  <2>1. PICK candidates \in SUBSET Backends :
          /\ remaining' = [remaining EXCEPT ![r] = candidates]
          /\ IF candidates = {}
             THEN Goto(r, "done") /\ EndWith(r, "no_backend")
             ELSE Goto(r, "select") /\ UNCHANGED client
          /\ UNCHANGED <<ask, at, acc>>
    BY <1>1 DEF Route
  <2>2. CASE candidates = {}
    BY <1>1, <2>1, <2>2, NoCandidateInv
  <2>3. CASE candidates # {}
    BY <1>1, <2>1, <2>3, CandidatesInv
  <2>4. QED BY <2>2, <2>3
<1>2. ASSUME NEW r \in Requests, Reserved(r)
      PROVE  PipelineInv'
  <2>1. CASE ReadsCache(r)
    BY <1>2, <2>1, ReserveInv DEF Reserved, ReadsCache
  <2>2. CASE ~ReadsCache(r)
    BY <1>1, <1>2, <2>2 DEF Reserved
  <2>3. QED BY <2>1, <2>2
<1>3. ASSUME NEW r \in Requests, LookupL1(r)
      PROVE  PipelineInv'
  <2>1. CASE \E answer \in l1 : Hit(r, answer)
    BY <1>3, <2>1, HitInv DEF LookupL1
  <2>2. CASE Goto(r, "embed") /\ UNCHANGED <<local, client>>
    <3>1. ~ask[r].bypass
      BY <1>3 DEF LookupL1, PipelineInv, RequestInv, Caching
    <3>2. QED BY <1>3, <2>2, <3>1, ReserveInv DEF LookupL1
  <2>3. QED BY <1>3, <2>1, <2>2 DEF LookupL1
<1>4. ASSUME NEW r \in Requests, Embed(r)
      PROVE  PipelineInv'
  <2>1. CASE L2Enabled
    <3>1. ~ask[r].bypass
      BY <1>4 DEF Embed, PipelineInv, RequestInv, Caching
    <3>2. QED BY <1>4, <2>1, <3>1, ReserveInv DEF Embed
  <2>2. CASE ~L2Enabled
    BY <1>1, <1>4, <2>2 DEF Embed
  <2>3. QED BY <2>1, <2>2
<1>5. ASSUME NEW r \in Requests, LookupL2(r)
      PROVE  PipelineInv'
  <2>1. CASE \E answer \in l2 : Hit(r, answer)
    BY <1>5, <2>1, HitInv DEF LookupL2
  <2>2. CASE Route(r)
    BY <1>1, <1>5, <2>2 DEF LookupL2
  <2>3. QED BY <1>5, <2>1, <2>2 DEF LookupL2
<1>6. ASSUME NEW r \in Requests, NEW b \in Backends, NEW now \in Readings,
             Try(r, b, now)
      PROVE  PipelineInv'
  BY <1>6, GrantedInv, RefusedInv
<1>7. ASSUME NEW r \in Requests, NEW now \in Readings, RecordFail(r, now)
      PROVE  PipelineInv'
  BY <1>7, FailedOverInv, BrokenOffInv
<1>8. CASE ExpireL1
  <2>1. Typed'
    BY <1>8 DEF ExpireL1, PipelineInv, TypeOK, Typed
  <2>2. QED BY <1>8, <2>1, NobodyMovesInv DEF ExpireL1
<1>9. CASE Tick
  <2>1. Typed'
    BY <1>9, OrchestratorAssumption DEF Tick, PipelineInv, TypeOK, Typed
  <2>2. QED BY <1>9, <2>1, NobodyMovesInv DEF Tick
<1>10. CASE UNCHANGED vars
  <2>1. Typed'
    BY <1>10 DEF vars, PipelineInv, TypeOK, Typed
  <2>2. QED BY <1>10, <2>1, NobodyMovesInv DEF vars
<1>11. ASSUME NEW r \in Requests, Step(r)
       PROVE  PipelineInv'
  BY <1>2, <1>3, <1>4, <1>5, <1>6, <1>7, <1>11, DenyInv, SettleHitInv, LogHitInv,
     ReplayInv, AcquireInv, ChunkInv, SucceedInv, CallFailsInv, RecordOkInv, PutL1Inv,
     EmbedAnswerInv, PutL2Inv, SettleInv, LogServedInv, FinalInv, LogUnavailableInv,
     CloseInv
  DEF Step
<1>12. QED
  BY <1>8, <1>9, <1>10, <1>11, FaultInv, CancelInv DEF Next

-----------------------------------------------------------------------------
(* The whole inductive invariant holds in every reachable state.              *)
THEOREM PipelineSafe == Spec => []PipelineInv
  BY InitInv, NextInv, PTL DEF Spec

(* The state of the requests, the cache, the permits and the breaker keeps    *)
(* its type; in particular everything sent is the beginning of one answer.    *)
THEOREM PipelineTypeCorrect == Spec => []TypeOK
<1>1. PipelineInv => TypeOK BY DEF PipelineInv
<1>2. QED BY <1>1, PipelineSafe, PTL

(* Nothing but an answer that a backend completed is ever cached.             *)
THEOREM OnlyWholeAnswersCached == Spec => []CacheHoldsWholeAnswers
<1>1. PipelineInv => CacheHoldsWholeAnswers BY DEF PipelineInv
<1>2. QED BY <1>1, PipelineSafe, PTL

(* No semaphore loses or gains a permit, for every number of requests.        *)
THEOREM NoPermitLost == Spec => []PermitsConserved
<1>1. PipelineInv => PermitsConserved BY DEF PipelineInv
<1>2. QED BY <1>1, PipelineSafe, PTL

(* Before a result reaches its client, reconcile was called and the row was  *)
(* logged: its estimate is not what is charged for it any more.               *)
THEOREM ResultsAccounted == Spec => []ServedIsAccounted
<1>1. PipelineInv => ServedIsAccounted
  BY DEF PipelineInv, RequestInv, ServedIsAccounted
<1>2. QED BY <1>1, PipelineSafe, PTL

(* No request gives up while a candidate is left that it has not tried.       *)
THEOREM FailoverIsExhaustive == Spec => []GivesUpLast
<1>1. PipelineInv => GivesUpLast
  BY DEF PipelineInv, RequestInv, GivesUpLast
<1>2. QED BY <1>1, PipelineSafe, PTL

(* The result of a no-store request comes from a backend, and as long as all  *)
(* requests are of that kind the cache stays empty.                           *)
THEOREM NoStoreIsHonoured == Spec => []NoStoreBypassesCache
<1>1. PipelineInv => NoStoreBypassesCache
  BY OrchestratorAssumption DEF PipelineInv, RequestInv, NoStoreBypassesCache
<1>2. QED BY <1>1, PipelineSafe, PTL

-----------------------------------------------------------------------------
(* The refinement of ClientView.  A step that ends a response short of a      *)
(* result is a Break of the view: the response was still open.                *)
LEMMA BreakStep ==
  ASSUME PipelineInv, NEW r \in Requests, NEW e \in View!Errors,
         pc[r] \notin {"closing", "done"}, EndWith(r, e)
  PROVE  View!Next
<1>1. end[r] = "open"
  BY DEF PipelineInv, RequestInv
<1>2. View!Break(r, e)
  BY <1>1 DEF EndWith, View!Break
<1>3. QED BY <1>2 DEF View!Next

(* A response that has sent nothing, or what there is of an answer, can go on *)
(* with that answer.                                                          *)
LEMMA BeginsAnswer ==
  ASSUME NEW a \in View!Answers
  PROVE  View!Begins(<<>>, a) /\ View!Begins(a, a)
<1>1. PICK b \in Backends, n \in 0..MaxChunks : a = View!Answer(b, n)
  BY DEF View!Answers
<1>2. n \in Nat
  BY OrchestratorAssumption
<1>3. Len(a) = n
  BY <1>1, <1>2, AnswerLength
<1>4. QED BY <1>2, <1>3 DEF View!Begins

(* Every step of the pipeline is a step of the view, or the clients do not    *)
(* see it.                                                                    *)
LEMMA ViewStep == PipelineInv /\ [Next]_vars => [View!Next]_(View!vars)
<1> SUFFICES ASSUME PipelineInv, [Next]_vars
             PROVE  View!Next \/ UNCHANGED <<sent, end, whole>>
  BY DEF View!vars
<1>1. ASSUME NEW r \in Requests, pc[r] \in {"reserve", "embed", "l2"}, Route(r)
      PROVE  View!Next \/ UNCHANGED client
  <2>1. EndWith(r, "no_backend") \/ UNCHANGED client
    BY <1>1 DEF Route
  <2>2. QED BY <1>1, <2>1, BreakStep DEF View!Errors
<1>2. ASSUME NEW r \in Requests, Replay(r)
      PROVE  View!Next
  <2>1. sent[r] = <<>> /\ end[r] = "open"
    BY <1>2 DEF Replay, PipelineInv, RequestInv, Silent
  <2>2. acc[r] \in View!Answers
    BY DEF PipelineInv, TypeOK
  <2>3. sent' = [sent EXCEPT ![r] = acc[r]]
    BY <1>2, <2>1, <2>2, EmptyPrefix DEF Replay
  <2>4. View!Deliver(r, acc[r])
    BY <1>2, <2>1, <2>2, <2>3, BeginsAnswer DEF Replay, View!Deliver
  <2>5. QED BY <2>2, <2>4 DEF View!Next
<1>3. ASSUME NEW r \in Requests, Chunk(r)
      PROVE  View!Next
  <2> DEFINE n == Len(acc[r])
             grown == View!Answer(at[r], n + 1)
  <2>1. /\ end[r] = "open" /\ sent[r] = acc[r]
        /\ acc[r] = View!Answer(at[r], n) /\ n \in Nat /\ n + 1 \in Nat
        /\ grown \in View!Answers /\ sent' = [sent EXCEPT ![r] = grown]
    BY <1>3, ChunkFacts
  <2>2. View!Begins(View!Answer(at[r], n), grown)
    <3>1. /\ Len(View!Answer(at[r], n)) = n /\ Len(grown) = n + 1
          /\ \A i \in 1..n : View!Answer(at[r], n)[i] = [src |-> at[r], no |-> i]
          /\ \A i \in 1..(n + 1) : grown[i] = [src |-> at[r], no |-> i]
      BY <2>1, AnswerLength
    <3> HIDE DEF n, grown
    <3>2. QED BY <2>1, <3>1 DEF View!Begins
  <2>3. View!Deliver(r, grown)
    BY <1>3, <2>1, <2>2 DEF Chunk, View!Deliver
  <2>4. QED BY <2>1, <2>3 DEF View!Next
<1>4. ASSUME NEW r \in Requests, Succeed(r)
      PROVE  View!Next
  <2>1. PICK answer \in View!Answers : whole' = whole \cup {answer}
    BY <1>4, SucceedFacts
  <2>2. View!Complete(answer)
    BY <1>4, <2>1 DEF Succeed, View!Complete
  <2>3. QED BY <2>2 DEF View!Next
<1>5. ASSUME NEW r \in Requests, Final(r)
      PROVE  View!Next
  <2>1. /\ end[r] = "open" /\ acc[r] \in View!Answers /\ acc[r] \in whole
        /\ sent[r] = IF ask[r].stream THEN acc[r] ELSE <<>>
    BY <1>5 DEF Final, PipelineInv, TypeOK, RequestInv, Forwarded, Answered
  <2>2. sent' = [sent EXCEPT ![r] = acc[r]]
    BY <1>5, <2>1 DEF Final
  <2>3. View!Begins(sent[r], acc[r])
    BY <2>1, BeginsAnswer
  <2>4. View!Finish(r, acc[r])
    BY <1>5, <2>1, <2>2, <2>3 DEF Final, View!Finish
  <2>5. QED BY <2>1, <2>4 DEF View!Next
<1>6. ASSUME NEW r \in Requests, NEW now \in Readings, RecordFail(r, now)
      PROVE  View!Next \/ UNCHANGED client
  <2>1. EndWith(r, "unavailable") \/ UNCHANGED client
    BY <1>6, Zenon DEF RecordFail
  <2>2. QED BY <1>6, <2>1, BreakStep DEF RecordFail, View!Errors
<1>7. ASSUME NEW r \in Requests, Deny(r) \/ LogUnavailable(r) \/ Fault(r) \/ Cancel(r)
      PROVE  View!Next
  BY <1>7, BreakStep
  DEF Deny, LogUnavailable, Fault, Unguarded, Cancel, View!Errors
<1>8. ASSUME NEW r \in Requests, Reserved(r) \/ Embed(r) \/ LookupL2(r)
      PROVE  View!Next \/ UNCHANGED client
  BY <1>1, <1>8 DEF Reserved, Embed, LookupL2, Hit
<1>9. ASSUME NEW r \in Requests,
             \/ LookupL1(r) \/ SettleHit(r) \/ LogHit(r)
             \/ \E b \in Backends, now \in Readings : Try(r, b, now)
             \/ Acquire(r) \/ CallFails(r) \/ RecordOk(r) \/ PutL1(r)
             \/ EmbedAnswer(r) \/ PutL2(r) \/ Settle(r) \/ LogServed(r) \/ Close(r)
      PROVE  UNCHANGED client
  BY <1>9
  DEF LookupL1, Hit, SettleHit, Reconcile, LogHit, Log, Try, Acquire, CallFails,
      RecordOk, PutL1, EmbedAnswer, PutL2, Settle, LogServed, Close
<1>10. ASSUME NEW r \in Requests, Step(r)
       PROVE  View!Next \/ UNCHANGED client
  BY <1>2, <1>3, <1>4, <1>5, <1>6, <1>7, <1>8, <1>9, <1>10 DEF Step
<1>11. CASE ExpireL1 \/ Tick \/ UNCHANGED vars
  BY <1>11 DEF ExpireL1, Tick, vars
<1>12. QED BY <1>7, <1>10, <1>11 DEF Next

(* Clients see a growing prefix of one answer and one end, and a result only  *)
(* with the whole answer: the pipeline implements ClientView.                 *)
THEOREM ClientsSeeOneAnswer == Spec => ServesOneAnswer
<1>1. Init => View!Init
  BY DEF Init
<1>2. QED
  BY <1>1, ViewStep, PipelineSafe, PTL DEF Spec, ServesOneAnswer, View!Spec

-----------------------------------------------------------------------------
(* The refinement of CircuitBreaker.  The call that r has open, as Breaker    *)
(* sees it.                                                                   *)
CallOf(r) == [on |-> IF pc[r] \in InCall THEN at[r] ELSE None,
              probe |-> pc[r] \in InCall /\ probe[r]]

Calls == [r \in Requests |-> CallOf(r)]

(* The actions of Breaker, spelled over Calls.                                *)
LEMMA BreakerActions ==
  ASSUME NEW r \in Requests, NEW b \in Backends, NEW now \in Nat
  PROVE  /\ Breaker!Allow(r, b, now) <=>
              /\ Calls[r] = Breaker!Idle
              /\ hash' = [hash EXCEPT ![b] = AfterAllow(@, now)]
              /\ Calls' = IF Allowed(hash[b], now)
                          THEN [Calls EXCEPT ![r] = [on |-> b, probe |-> Tripped(hash[b])]]
                          ELSE Calls
              /\ UNCHANGED <<clock, failedAt>>
         /\ Breaker!RecordOk(r) <=>
              /\ Calls[r].on # None
              /\ hash' = [hash EXCEPT ![Calls[r].on] = AfterSuccess(@)]
              /\ Calls' = [Calls EXCEPT ![r] = Breaker!Idle]
              /\ UNCHANGED <<clock, failedAt>>
         /\ Breaker!RecordFailure(r, now) <=>
              /\ Calls[r].on # None
              /\ clock + Cooldown <= MaxClock + Cooldown
              /\ hash' = [hash EXCEPT ![Calls[r].on] = AfterFailure(@, now)]
              /\ Calls' = [Calls EXCEPT ![r] = Breaker!Idle]
              /\ failedAt' = [failedAt EXCEPT ![Calls[r].on] = clock]
              /\ UNCHANGED clock
         /\ Breaker!Abandon(r) <=>
              /\ Calls[r].on # None
              /\ Calls' = [Calls EXCEPT ![r] = Breaker!Idle]
              /\ UNCHANGED <<clock, hash, failedAt>>
         /\ Breaker!Tick <=>
              /\ clock < MaxClock + Cooldown
              /\ clock' = clock + 1
              /\ UNCHANGED <<hash, Calls, failedAt>>
  BY Zenon
  DEF Breaker!Allow, Breaker!RecordOk, Breaker!RecordFailure, Breaker!Abandon,
      Breaker!Tick, Breaker!Idle, Calls, CallOf, Breaker!AfterAllow, AfterAllow,
      Breaker!CooledDown, CooledDown, Breaker!Allowed, Allowed, Breaker!Tripped,
      Tripped, Breaker!AfterSuccess, AfterSuccess, Breaker!AfterFailure, AfterFailure

(* Outside a call a request is idle; inside, it has the call it was allowed.  *)
LEMMA CallFacts ==
  ASSUME NEW r \in Requests
  PROVE  /\ pc[r] \notin InCall => CallOf(r) = Breaker!Idle
         /\ pc[r] \in InCall /\ probe[r] \in BOOLEAN =>
              CallOf(r) = [on |-> at[r], probe |-> probe[r]]
<1>1. ASSUME pc[r] \notin InCall
      PROVE  CallOf(r) = Breaker!Idle
  <2>1. (pc[r] \in InCall /\ probe[r]) = FALSE
    BY <1>1
  <2>2. QED BY <1>1, <2>1, Zenon DEF CallOf, Breaker!Idle
<1>2. ASSUME pc[r] \in InCall, probe[r] \in BOOLEAN
      PROVE  CallOf(r) = [on |-> at[r], probe |-> probe[r]]
  <2>1. (pc[r] \in InCall /\ probe[r]) = probe[r]
    BY <1>2
  <2>2. QED BY <1>2, <2>1, Zenon DEF CallOf
<1>3. QED BY <1>1, <1>2

(* The requests other than r keep their calls.                                *)
CallsKept(r) ==
  \A q \in Requests \ {r} : pc'[q] = pc[q] /\ at'[q] = at[q] /\ probe'[q] = probe[q]

(* A step of r changes r's call only.                                         *)
LEMMA CallStep ==
  ASSUME NEW r \in Requests, CallsKept(r), NEW c, CallOf(r)' = c
  PROVE  Calls' = [Calls EXCEPT ![r] = c]
<1>1. ASSUME NEW q \in Requests, q # r
      PROVE  CallOf(q)' = CallOf(q)
  <2>1. pc'[q] = pc[q] /\ at'[q] = at[q] /\ probe'[q] = probe[q]
    BY <1>1 DEF CallsKept
  <2>2. QED BY <2>1, Zenon DEF CallOf
<1>2. Calls = [q \in Requests |-> CallOf(q)] /\ Calls' = [q \in Requests |-> CallOf(q)']
  BY DEF Calls
<1>3. QED BY <1>1, <1>2

(* A step of r that leaves r's call alone is none that Breaker sees.          *)
LEMMA SameCall ==
  ASSUME NEW r \in Requests, CallsKept(r), UNCHANGED breaker,
         \/ pc[r] \notin InCall /\ pc'[r] \notin InCall
         \/ pc[r] \in InCall /\ pc'[r] \in InCall /\ at'[r] = at[r]
  PROVE  UNCHANGED Breaker!vars
<1>1. CallOf(r)' = CallOf(r)
  <2>1. CASE pc[r] \notin InCall /\ pc'[r] \notin InCall
    <3>1. CallOf(r) = Breaker!Idle
      BY <2>1, CallFacts
    <3>2. (pc'[r] \in InCall /\ probe'[r]) = FALSE
      BY <2>1
    <3>3. CallOf(r)' = Breaker!Idle
      BY <2>1, <3>2, Zenon DEF CallOf, Breaker!Idle
    <3>4. QED BY <3>1, <3>3
  <2>2. CASE pc[r] \in InCall /\ pc'[r] \in InCall /\ at'[r] = at[r]
    <3>1. (pc'[r] \in InCall /\ probe'[r]) <=> (pc[r] \in InCall /\ probe[r])
      BY <2>2
    <3>2. QED BY <2>2, <3>1, Zenon DEF CallOf
  <2>3. QED BY <2>1, <2>2
<1>2. Calls' = [Calls EXCEPT ![r] = CallOf(r)]
  BY <1>1, CallStep
<1>3. Calls' = Calls
  BY <1>2 DEF Calls
<1>4. QED BY <1>3, Zenon DEF Breaker!vars, Calls, CallOf

(* A step of r that ends a call without a record is an Abandon.               *)
LEMMA AbandonStep ==
  ASSUME PipelineInv, NEW r \in Requests, CallsKept(r), UNCHANGED breaker,
         pc[r] \in InCall, pc'[r] \notin InCall
  PROVE  Breaker!Abandon(r)
<1>1. at[r] # None /\ at[r] \in Backends
  BY OrchestratorAssumption DEF InCall, PipelineInv, RequestInv
<1>2. Calls[r].on # None
  BY <1>1, Zenon DEF Calls, CallOf
<1>3. (pc'[r] \in InCall /\ probe'[r]) = FALSE
  OBVIOUS
<1>4. CallOf(r)' = Breaker!Idle
  BY <1>3, Zenon DEF CallOf, Breaker!Idle
<1>5. Calls' = [Calls EXCEPT ![r] = Breaker!Idle]
  BY <1>4, CallStep
<1>6. 0 \in Nat
  OBVIOUS
<1>7. QED BY <1>1, <1>2, <1>5, <1>6, BreakerActions

(* A try is an Allow, granted or refused.                                     *)
LEMMA AllowStep ==
  ASSUME PipelineInv, NEW r \in Requests, NEW b \in Backends,
         NEW now \in Readings, Try(r, b, now)
  PROVE  Breaker!Allow(r, b, now)
<1>1. pc[r] = "select" /\ pc[r] \notin InCall /\ now \in Nat
  BY DEF Try, InCall, Readings
<1>2. Calls[r] = Breaker!Idle
  BY <1>1, CallFacts DEF Calls
<1>3. /\ hash' = [hash EXCEPT ![b] = AfterAllow(@, now)]
      /\ clock' = clock /\ failedAt' = failedAt
  BY DEF Try
<1>4. /\ pc \in [Requests -> Steps] /\ at \in [Requests -> Backends \cup {None}]
      /\ probe \in [Requests -> BOOLEAN]
  BY DEF PipelineInv, TypeOK
<1>5. CASE Allowed(hash[b], now)
  <2>1. /\ at' = [at EXCEPT ![r] = b] /\ pc' = [pc EXCEPT ![r] = "acquire"]
        /\ probe' = [probe EXCEPT ![r] = Tripped(hash[b])]
    BY <1>5, Zenon DEF Try, Granted
  <2>2. CallsKept(r)
    BY <1>4, <2>1 DEF CallsKept
  <2>3. pc'[r] = "acquire" /\ at'[r] = b
    BY <1>4, <2>1
  <2>4. probe'[r] = Tripped(hash[b])
    BY <1>4, <2>1, Zenon
  <2>5. pc'[r] \in InCall
    BY <2>3 DEF InCall
  <2>6. Tripped(hash[b]) \in BOOLEAN
    BY DEF Tripped
  <2>7. (pc'[r] \in InCall /\ probe'[r]) = Tripped(hash[b])
    BY <2>4, <2>5, <2>6, Zenon
  <2>8. CallOf(r)' = [on |-> b, probe |-> Tripped(hash[b])]
    BY <2>3, <2>5, <2>7, Zenon DEF CallOf
  <2>9. Calls' = [Calls EXCEPT ![r] = [on |-> b, probe |-> Tripped(hash[b])]]
    BY <2>2, <2>8, CallStep
  <2>10. QED BY <1>1, <1>2, <1>3, <1>5, <2>9, BreakerActions, Zenon
<1>6. CASE ~Allowed(hash[b], now)
  <2>1. /\ NextCandidate(r, remaining'[r])
        /\ at' = at /\ probe' = probe
    BY <1>6, Zenon DEF Try, Granted
  <2>2. CallsKept(r) /\ pc'[r] \notin InCall
    BY <1>4, <2>1 DEF NextCandidate, CallsKept, InCall
  <2>3. (pc'[r] \in InCall /\ probe'[r]) = FALSE
    BY <2>2
  <2>4. CallOf(r)' = Breaker!Idle
    BY <2>2, <2>3, Zenon DEF CallOf, Breaker!Idle
  <2>5. Calls' = [Calls EXCEPT ![r] = Breaker!Idle]
    BY <2>2, <2>4, CallStep
  <2>6. Calls' = Calls
    BY <1>2, <2>5 DEF Calls
  <2>7. QED BY <1>1, <1>2, <1>3, <1>6, <2>6, BreakerActions, Zenon
<1>7. QED BY <1>5, <1>6

(* A record is made once, with its own outcome, on the backend of the call.   *)
LEMMA RecordStep ==
  ASSUME PipelineInv, NEW r \in Requests
  PROVE  /\ RecordOk(r) => Breaker!RecordOk(r)
         /\ \A now \in Readings : RecordFail(r, now) => Breaker!RecordFailure(r, now)
<1> DEFINE Recording == pc[r] \in {"recordOk", "recordFail"}
<1>1. /\ pc \in [Requests -> Steps] /\ clock \in 0..MaxClock
  BY DEF PipelineInv, TypeOK
<1>2. ASSUME Recording
      PROVE  at[r] \in Backends /\ pc[r] \in InCall /\ Calls[r].on = at[r] /\ at[r] # None
  <2>1. at[r] \in Backends /\ pc[r] \in InCall
    BY <1>2 DEF InCall, PipelineInv, RequestInv
  <2>2. Calls[r].on = at[r]
    BY <2>1, Zenon DEF Calls, CallOf
  <2>3. QED BY <2>1, <2>2, OrchestratorAssumption
<1>3. ASSUME CallsKept(r), pc'[r] \notin InCall
      PROVE  Calls' = [Calls EXCEPT ![r] = Breaker!Idle]
  <2>1. (pc'[r] \in InCall /\ probe'[r]) = FALSE
    BY <1>3
  <2>2. CallOf(r)' = Breaker!Idle
    BY <1>3, <2>1, Zenon DEF CallOf, Breaker!Idle
  <2>3. QED BY <1>3, <2>2, CallStep
<1>4. ASSUME RecordOk(r)
      PROVE  Breaker!RecordOk(r)
  <2>1. Recording /\ CallsKept(r) /\ pc'[r] \notin InCall
    BY <1>1, <1>4 DEF RecordOk, CallsKept, InCall
  <2>2. hash' = [hash EXCEPT ![Calls[r].on] = AfterSuccess(@)]
    BY <1>2, <1>4, <2>1 DEF RecordOk
  <2>3. clock' = clock /\ failedAt' = failedAt /\ 0 \in Nat
    BY <1>4 DEF RecordOk
  <2>4. QED BY <1>2, <1>3, <2>1, <2>2, <2>3, BreakerActions
<1>5. ASSUME NEW now \in Readings, RecordFail(r, now)
      PROVE  Breaker!RecordFailure(r, now)
  <2>1. /\ pc[r] = "recordFail" /\ at' = at /\ probe' = probe /\ clock' = clock
        /\ hash' = [hash EXCEPT ![at[r]] = AfterFailure(@, now)]
        /\ failedAt' = [failedAt EXCEPT ![at[r]] = clock]
        /\ Goto(r, "done") \/ NextCandidate(r, remaining[r])
    BY <1>5, Zenon DEF RecordFail
  <2>2. Recording /\ CallsKept(r) /\ pc'[r] \notin InCall
    BY <1>1, <2>1 DEF NextCandidate, CallsKept, InCall
  <2>3. /\ hash' = [hash EXCEPT ![Calls[r].on] = AfterFailure(@, now)]
        /\ failedAt' = [failedAt EXCEPT ![Calls[r].on] = clock]
    BY <1>2, <2>1, <2>2
  <2>4. now \in Nat /\ clock + Cooldown <= MaxClock + Cooldown
    BY <1>1, OrchestratorAssumption, BreakerAssumption DEF Readings
  <2>5. QED BY <1>2, <1>3, <2>1, <2>2, <2>3, <2>4, BreakerActions
<1>6. QED BY <1>4, <1>5

(* Every step of the pipeline is a step of the breaker and its users, or one  *)
(* that does not touch them.                                                  *)
LEMMA BreakerStep == PipelineInv /\ [Next]_vars => [Breaker!Next]_(Breaker!vars)
<1> SUFFICES ASSUME PipelineInv, [Next]_vars
             PROVE  Breaker!Next \/ UNCHANGED Breaker!vars
  OBVIOUS
<1>1. /\ pc \in [Requests -> Steps] /\ at \in [Requests -> Backends \cup {None}]
      /\ probe \in [Requests -> BOOLEAN] /\ clock \in 0..MaxClock
  BY DEF PipelineInv, TypeOK
<1>2. ASSUME NEW r \in Requests, NEW step, Goto(r, step)
      PROVE  pc'[r] = step /\ \A q \in Requests \ {r} : pc'[q] = pc[q]
  BY <1>1, <1>2
<1>3. ASSUME NEW r \in Requests, pc[r] \in {"reserve", "embed", "l2"},
             Route(r), UNCHANGED breaker
      PROVE  UNCHANGED Breaker!vars
  <2>1. CallsKept(r) /\ pc[r] \notin InCall /\ pc'[r] \notin InCall
    BY <1>1, <1>3 DEF Route, CallsKept, InCall
  <2>2. QED BY <1>3, <2>1, SameCall
<1>4. ASSUME NEW r \in Requests,
             \/ Deny(r) \/ LookupL1(r) \/ SettleHit(r) \/ LogHit(r) \/ Replay(r)
             \/ PutL1(r) \/ EmbedAnswer(r) \/ PutL2(r) \/ Settle(r) \/ LogServed(r)
             \/ Final(r) \/ LogUnavailable(r) \/ Close(r)
      PROVE  UNCHANGED Breaker!vars
  <2>1. /\ CallsKept(r) /\ pc[r] \notin InCall /\ pc'[r] \notin InCall
        /\ UNCHANGED breaker
    BY <1>1, <1>4
    DEF Deny, LookupL1, Hit, SettleHit, Reconcile, LogHit, Log, Replay, PutL1,
        EmbedAnswer, PutL2, Settle, LogServed, Final, LogUnavailable, Close,
        CallsKept, InCall
  <2>2. QED BY <2>1, SameCall
<1>5. ASSUME NEW r \in Requests, Reserved(r) \/ Embed(r) \/ LookupL2(r)
      PROVE  UNCHANGED Breaker!vars
  <2>1. CASE Route(r)
    <3>1. pc[r] \in {"reserve", "embed", "l2"} /\ UNCHANGED breaker
      BY <1>5 DEF Reserved, Embed, LookupL2
    <3>2. QED BY <1>3, <2>1, <3>1
  <2>2. CASE ~Route(r)
    <3>1. /\ CallsKept(r) /\ pc[r] \notin InCall /\ pc'[r] \notin InCall
          /\ UNCHANGED breaker
      BY <1>1, <1>5, <2>2 DEF Reserved, Embed, LookupL2, Hit, CallsKept, InCall
    <3>2. QED BY <3>1, SameCall
  <2>3. QED BY <2>1, <2>2
<1>6. ASSUME NEW r \in Requests, Acquire(r) \/ Chunk(r) \/ Succeed(r) \/ CallFails(r)
      PROVE  UNCHANGED Breaker!vars
  <2>1. /\ CallsKept(r) /\ pc[r] \in InCall /\ pc'[r] \in InCall /\ at' = at
        /\ UNCHANGED breaker
    BY <1>1, <1>6 DEF Acquire, Chunk, Succeed, CallFails, CallsKept, InCall
  <2>2. QED BY <2>1, SameCall
<1>7. ASSUME NEW r \in Requests, Fault(r) \/ Cancel(r)
      PROVE  Breaker!Next \/ UNCHANGED Breaker!vars
  <2>1. CallsKept(r) /\ pc'[r] \notin InCall /\ UNCHANGED breaker
    BY <1>1, <1>7 DEF Fault, Cancel, Unwound, CallsKept, InCall
  <2>2. CASE pc[r] \in InCall
    BY <2>1, <2>2, AbandonStep DEF Breaker!Next
  <2>3. CASE pc[r] \notin InCall
    BY <2>1, <2>3, SameCall
  <2>4. QED BY <2>2, <2>3
<1>8. ASSUME NEW r \in Requests, NEW b \in Backends, NEW now \in Readings,
             Try(r, b, now)
      PROVE  Breaker!Next
  <2>1. Breaker!Allow(r, b, now)
    BY <1>8, AllowStep
  <2>2. QED BY <2>1 DEF Breaker!Next, Breaker!Readings, Readings
<1>9. ASSUME NEW r \in Requests, RecordOk(r)
      PROVE  Breaker!Next
  BY <1>9, RecordStep DEF Breaker!Next
<1>10. ASSUME NEW r \in Requests, NEW now \in Readings, RecordFail(r, now)
       PROVE  Breaker!Next
  <2>1. Breaker!RecordFailure(r, now)
    BY <1>10, RecordStep
  <2>2. QED BY <2>1 DEF Breaker!Next, Breaker!Readings, Readings
<1>11. CASE Tick
  <2>1. /\ clock < MaxClock + Cooldown /\ clock' = clock + 1
        /\ hash' = hash /\ failedAt' = failedAt
    BY <1>1, <1>11, OrchestratorAssumption, BreakerAssumption DEF Tick
  <2>2. Calls' = Calls
    BY <1>11, Zenon DEF Tick, Calls, CallOf
  <2>3. Breaker!Tick
    BY <2>1, <2>2, Zenon DEF Breaker!Tick, Calls, CallOf
  <2>4. QED BY <2>3 DEF Breaker!Next
<1>12. CASE ExpireL1 \/ UNCHANGED vars
  <2>1. pc' = pc /\ at' = at /\ UNCHANGED breaker
    BY <1>12 DEF ExpireL1, vars
  <2>2. QED BY <2>1, Zenon DEF Breaker!vars
<1>13. ASSUME NEW r \in Requests, Step(r)
       PROVE  Breaker!Next \/ UNCHANGED Breaker!vars
  BY <1>4, <1>5, <1>6, <1>8, <1>9, <1>10, <1>13 DEF Step
<1>14. QED BY <1>7, <1>11, <1>12, <1>13 DEF Next

(* Every backend call has an allow() that granted it, and is recorded at most *)
(* once, with its own outcome, on its own backend: the pipeline implements    *)
(* the protocol of CircuitBreaker.                                            *)
THEOREM BreakerUsedProperly == Spec => UsesBreakerProperly
<1>1. Init => Breaker!Init
  <2> SUFFICES ASSUME Init
               PROVE  Breaker!Init
    OBVIOUS
  <2>1. \A r \in Requests : CallOf(r) = Breaker!Idle
    BY CallFacts DEF Init, InCall
  <2>2. Calls = [r \in Requests |-> Breaker!Idle]
    BY <2>1 DEF Calls
  <2>3. /\ clock = 0 /\ hash = [b \in Backends |-> NoHash]
        /\ failedAt = [b \in Backends |-> 0]
    BY DEF Init
  <2>4. QED
    BY <2>2, <2>3, Zenon
    DEF Breaker!Init, Breaker!NoHash, NoHash, Calls, CallOf, Breaker!NoTime, NoTime
<1>2. QED
  BY <1>1, BreakerStep, PipelineSafe, PTL DEF Spec, UsesBreakerProperly, Breaker!Spec

=============================================================================
