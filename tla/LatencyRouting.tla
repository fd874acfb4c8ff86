--------------------------- MODULE LatencyRouting ---------------------------
(***************************************************************************)
(* The routing policies and the latency lists that feed them.  For every   *)
(* candidate of every failover round LatencyAwarePolicy awaits one read of *)
(* Redis, while other requests push and trim the same lists.               *)
(*                                                                         *)
(* Times are those of the request's clock, which `start' sets before the   *)
(* rate limiter: a sample is the time since then, not that of one call.    *)
(***************************************************************************)
EXTENDS Integers, Sequences, FiniteSets

CONSTANTS NumBackends,  \* the candidates of the model, in priority order
          Requests,
          Policies,     \* the policies the settings may name
          Simple,       \* the requests below the complexity threshold
          Window,       \* window_size, 200 in the code
          Percent,      \* 95 in the code
          MaxPrice,     \* bound: the prices are 0..MaxPrice
          MaxElapsed,   \* bound: the clock of a request stops there
          MaxCancels    \* bound: how many requests are cancelled

ASSUME RoutingAssumption ==
  /\ NumBackends \in Nat \ {0} /\ Window \in Nat \ {0}
  /\ Percent \in 1..99
  /\ Policies \subseteq {"latency", "cost"}
  /\ MaxPrice \in Nat /\ MaxElapsed \in Nat /\ MaxCancels \in Nat
  /\ Simple \subseteq Requests /\ IsFiniteSet(Requests)

Backends == 1..NumBackends

Cold == -1              \* p95() of an empty list: None

VARIABLES
  policy,     \* the policy of the settings
  price,      \* price[b]: cost_per_1k_in + cost_per_1k_out
  list,       \* list[b]: the Redis list of b, newest first
  pc,         \* pc[r]: where r is
  remaining,  \* remaining[r]: the candidates r has left, in priority order
  scores,     \* scores[r]: the p95s read so far in this round
  chosen,     \* chosen[r]: the backend r is at; 0 before the first one
  elapsed,    \* elapsed[r]: the clock of r
  recent,     \* history: the last Window samples of b, newest first
  cancels     \* how many requests were cancelled

vars == <<policy, price, list, pc, remaining, scores, chosen, elapsed,
          recent, cancels>>
settings == <<policy, price>>

Samples == 0..MaxElapsed

TypeOK ==
  /\ policy \in {"latency", "cost"}
  /\ price \in [Backends -> 0..MaxPrice]
  /\ list \in [Backends -> Seq(Samples)]
  /\ pc \in [Requests -> {"idle", "select", "call", "push", "trim"}]
  /\ remaining \in [Requests -> Seq(Backends)]
  /\ scores \in [Requests -> Seq(Samples \cup {Cold})]
  /\ chosen \in [Requests -> Backends \cup {0}]
  /\ elapsed \in [Requests -> Samples]
  /\ recent \in [Backends -> Seq(Samples)]
  /\ cancels \in 0..MaxCancels

(* _build_policy.  Only the cost policy looks at the prices.                  *)
Init ==
  /\ policy \in Policies
  /\ \/ policy = "latency" /\ price = [b \in Backends |-> 0]
     \/ policy = "cost" /\ price \in [Backends -> 0..MaxPrice]
  /\ list = [b \in Backends |-> <<>>]
  /\ pc = [r \in Requests |-> "idle"]
  /\ remaining = [r \in Requests |-> <<>>]
  /\ scores = [r \in Requests |-> <<>>]
  /\ chosen = [r \in Requests |-> 0]
  /\ elapsed = [r \in Requests |-> 0]
  /\ recent = [b \in Backends |-> <<>>]
  /\ cancels = 0

Goto(r, step) == pc' = [pc EXCEPT ![r] = step]

(* The request is over, and its local variables with it.                      *)
Leave(r) ==
  /\ Goto(r, "idle")
  /\ remaining' = [remaining EXCEPT ![r] = <<>>]
  /\ scores' = [scores EXCEPT ![r] = <<>>]
  /\ chosen' = [chosen EXCEPT ![r] = 0]
  /\ elapsed' = [elapsed EXCEPT ![r] = 0]

First(n, seq) == SubSeq(seq, 1, IF n < Len(seq) THEN n ELSE Len(seq))

(* [x for x in seq if x != b].                                                *)
Without(seq, b) ==
  LET kept[i \in 0..Len(seq)] ==
        IF i = 0 THEN <<>>
        ELSE IF seq[i] = b THEN kept[i - 1] ELSE Append(kept[i - 1], seq[i])
  IN  kept[Len(seq)]

-----------------------------------------------------------------------------
(* sorted(seq), by the place of every element in a stable sort.               *)
Place(seq, i) ==
  Cardinality({j \in DOMAIN seq :
    seq[j] < seq[i] \/ (seq[j] = seq[i] /\ j <= i)})

Sorted(seq) ==
  [k \in DOMAIN seq |-> seq[CHOOSE i \in DOMAIN seq : Place(seq, i) = k]]

(* Mutants of p95: the rank is that of one sample less; or the result is the  *)
(* rank and not the value.                                                    *)
P95Low(seq) ==
  IF seq = <<>> THEN Cold
  ELSE Sorted(seq)[((Len(seq) - 1) * Percent) \div 100 + 1]

P95Rank(seq) ==
  IF seq = <<>> THEN Cold ELSE (Len(seq) * Percent) \div 100 + 1

P95(seq) ==
  LET n     == Len(seq)
      rank  == (n * Percent) \div 100
      index == IF rank < n - 1 THEN rank ELSE n - 1
  IN  IF n = 0 THEN Cold ELSE Sorted(seq)[index + 1]

(* Mutant: `pair[0] or inf' instead of `pair[0] or 0.0'.                      *)
KeyColdLast(p) == IF p = Cold THEN MaxElapsed + 2 ELSE p + 1

(* The sort key (p is not None, p or 0.0): None is before every number.       *)
Key(p) == IF p = Cold THEN 0 ELSE p + 1

(* The ends of a stable sort by those keys.                                   *)
FirstLeast(keys) ==
  CHOOSE i \in DOMAIN keys :
    \A j \in DOMAIN keys : keys[i] < keys[j] \/ (keys[i] = keys[j] /\ i <= j)

LastGreatest(keys) ==
  CHOOSE i \in DOMAIN keys :
    \A j \in DOMAIN keys : keys[i] > keys[j] \/ (keys[i] = keys[j] /\ i >= j)

(* LatencyAwarePolicy.select, and that of CostTieredPolicy, as positions.     *)
LatencySelect(r) ==
  IF Len(remaining[r]) = 1 THEN 1
  ELSE FirstLeast([i \in DOMAIN scores[r] |-> Key(scores[r][i])])

(* Mutant: the candidates are not sorted.                                     *)
CostSelectUnsorted(r) == IF r \in Simple THEN 1 ELSE Len(remaining[r])

CostSelect(r) ==
  LET costs == [i \in DOMAIN remaining[r] |-> price[remaining[r][i]]]
  IN  IF r \in Simple THEN FirstLeast(costs) ELSE LastGreatest(costs)

ScoresRead(r) ==
  policy = "latency" /\ Len(remaining[r]) > 1 =>
    Len(scores[r]) = Len(remaining[r])

-----------------------------------------------------------------------------
(* The pipeline reaches the failover walk; d has passed since its start.      *)
Start(r, d) ==
  /\ pc[r] = "idle"
  /\ remaining' = [remaining EXCEPT ![r] = [i \in Backends |-> i]]
  /\ elapsed' = [elapsed EXCEPT ![r] = d]
  /\ Goto(r, "select")
  /\ UNCHANGED <<settings, list, scores, chosen, recent, cancels>>

(* One await of p95() in the comprehension of LatencyAwarePolicy.select.      *)
ReadScore(r) ==
  /\ pc[r] = "select" /\ ~ScoresRead(r)
  /\ scores' = [scores EXCEPT
       ![r] = Append(@, P95(list[remaining[r][Len(@) + 1]]))]
  /\ UNCHANGED <<settings, list, pc, remaining, chosen, elapsed, recent, cancels>>

Choose(r) ==
  LET i == IF policy = "cost" THEN CostSelect(r) ELSE LatencySelect(r)
  IN  /\ pc[r] = "select" /\ ScoresRead(r) /\ remaining[r] # <<>>
      /\ chosen' = [chosen EXCEPT ![r] = remaining[r][i]]
      /\ remaining' = [remaining EXCEPT ![r] = Without(@, remaining[r][i])]
      /\ scores' = [scores EXCEPT ![r] = <<>>]
      /\ Goto(r, "call")
      /\ UNCHANGED <<settings, list, elapsed, recent, cancels>>

(* The breaker refuses (d = 0), or the call fails or times out after d.       *)
Fail(r, d) ==
  /\ pc[r] = "call" /\ elapsed[r] + d <= MaxElapsed
  /\ elapsed' = [elapsed EXCEPT ![r] = @ + d]
  /\ Goto(r, "select")
  /\ UNCHANGED <<settings, list, remaining, scores, chosen, recent, cancels>>

(* The while loop ends: 503.                                                  *)
GiveUp(r) ==
  /\ pc[r] = "select" /\ remaining[r] = <<>>
  /\ Leave(r)
  /\ UNCHANGED <<settings, list, recent, cancels>>

(* The call takes d; latency_ms is the whole clock of the request.            *)
Succeed(r, d) ==
  /\ pc[r] = "call" /\ elapsed[r] + d <= MaxElapsed
  /\ elapsed' = [elapsed EXCEPT ![r] = @ + d]
  /\ Goto(r, "push")
  /\ UNCHANGED <<settings, list, remaining, scores, chosen, recent, cancels>>

(* Mutant: RPUSH instead of LPUSH.                                            *)
PushedRight(seq, sample) == Append(seq, sample)

(* LPUSH.                                                                     *)
Pushed(seq, sample) == <<sample>> \o seq

Push(r) ==
  /\ pc[r] = "push"
  /\ list' = [list EXCEPT ![chosen[r]] = Pushed(@, elapsed[r])]
  /\ recent' = [recent EXCEPT ![chosen[r]] = First(Window, <<elapsed[r]>> \o @)]
  /\ Goto(r, "trim")
  /\ UNCHANGED <<settings, remaining, scores, chosen, elapsed, cancels>>

(* Mutant: `ltrim(key, 0, window_size)' keeps one sample more.                *)
TrimmedLong(seq) == First(Window + 1, seq)

(* LTRIM 0 .. window_size - 1.                                                *)
Trimmed(seq) == First(Window, seq)

Trim(r) ==
  /\ pc[r] = "trim"
  /\ list' = [list EXCEPT ![chosen[r]] = Trimmed(@)]
  /\ Leave(r)
  /\ UNCHANGED <<settings, recent, cancels>>

(* The task is cancelled, Redis fails, or a stream breaks after its first     *)
(* chunk: the request ends without another candidate and without a sample.    *)
Cancel(r) ==
  /\ pc[r] # "idle" /\ cancels < MaxCancels
  /\ cancels' = cancels + 1
  /\ Leave(r)
  /\ UNCHANGED <<settings, list, recent>>

Step(r) ==
  \/ ReadScore(r) \/ Choose(r) \/ GiveUp(r) \/ Push(r) \/ Trim(r)
  \/ \E d \in Samples : Fail(r, d) \/ Succeed(r, d)

Next ==
  \E r \in Requests :
    \/ \E d \in Samples : Start(r, d)
    \/ Step(r)
    \/ Cancel(r)

Spec == Init /\ [][Next]_vars

(* Redis answers, and asyncio.timeout ends a call that hangs.  Nobody has to  *)
(* send another request.                                                      *)
FairSpec == Spec /\ \A r \in Requests : WF_vars(Step(r))

-----------------------------------------------------------------------------
(* However the pushes and the trims of concurrent requests interleave, and    *)
(* wherever a request is cut short, a list begins with the last Window        *)
(* samples of its backend, newest first: no trim removes one of them.         *)
KeepsNewest ==
  \A b \in Backends : First(Window, list[b]) = recent[b]

(* The two calls of record() are not atomic, and p95 reads the whole list.    *)
(* It reads more than Window samples only by what concurrent requests have    *)
(* not trimmed yet and cancelled ones never did.                              *)
OverflowIsUntrimmed ==
  \A b \in Backends :
    Len(list[b]) <= Window + cancels
      + Cardinality({r \in Requests : pc[r] = "trim" /\ chosen[r] = b})

(* What p95() returns is the quantile of the samples, at every length the     *)
(* list can have: more than Percent per cent are at most that, and no more    *)
(* than Percent per cent are below.                                           *)
P95IsQuantile ==
  \A b \in Backends :
    LET seq    == list[b]
        v      == P95(seq)
        atMost == Cardinality({i \in DOMAIN seq : seq[i] <= v})
        below  == Cardinality({i \in DOMAIN seq : seq[i] < v})
    IN  seq # <<>> =>
          /\ 100 * atMost > Percent * Len(seq)
          /\ 100 * below <= Percent * Len(seq)

(* Over all its failover rounds the cost policy walks from cheap to dear for  *)
(* a simple request and from dear to cheap for a complex one: nothing that    *)
(* was tried is on the wrong side of something that is left.  Priorities have *)
(* no part in it: see FailoverByPriority.                                     *)
CostWalk ==
  \A r \in Requests :
    policy = "cost" /\ pc[r] = "call" =>
      LET left == {remaining[r][i] : i \in DOMAIN remaining[r]}
      IN  \A b \in Backends \ left, c \in left :
            IF r \in Simple THEN price[b] <= price[c] ELSE price[b] >= price[c]

(* "new or rarely-used backends get a chance": as long as requests arrive,    *)
(* and only finitely many of them are cut short, a backend without samples is *)
(* tried under the latency policy, whatever the others do.                    *)
ColdGetsAChance ==
  \A b \in Backends :
    (policy = "latency" /\ []<><<\E r \in Requests, d \in Samples : Start(r, d)>>_vars)
      => <>(\E r \in Requests : pc[r] = "call" /\ chosen[r] = b)

-----------------------------------------------------------------------------
(* What the design document says: "failover walks the candidate list by       *)
(* priority".  Once a first candidate was tried, the next one is of a higher  *)
(* priority than those that are left.                                         *)
FailoverByPriority ==
  \A r \in Requests :
    pc[r] = "call" /\ Len(remaining[r]) < NumBackends - 1 =>
      \A i \in DOMAIN remaining[r] : chosen[r] < remaining[r][i]

=============================================================================
