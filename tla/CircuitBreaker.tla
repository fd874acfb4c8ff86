--------------------------- MODULE CircuitBreaker ---------------------------
(***************************************************************************)
(* The circuit breaker of gateway/resilience/breaker.py and the requests   *)
(* that use it.  Redis holds one hash per backend; the requests of every   *)
(* gateway replica call allow() before a backend call and record() after   *)
(* it (orchestrator.py).  Between the two a request holds no lock, so any  *)
(* number of other requests may change the hash before it records.         *)
(*                                                                         *)
(* `clock' is the reading of the fastest replica's clock.  The `now' a     *)
(* script receives was read from some replica's time.time() before the     *)
(* script ran: it lies at most MaxLag behind.                              *)
(***************************************************************************)
EXTENDS BreakerScripts

CONSTANTS Backends,
          Requests,   \* the requests in flight at the same time
          None,       \* "no backend"
          MaxLag,     \* bound on clock skew plus the delay of a script call
          MaxClock    \* bound on the clock

ASSUME ClockAssumption == MaxLag \in Nat /\ MaxClock \in Nat
ASSUME NoneAssumption == None \notin Backends

VARIABLES
  clock,
  hash,      \* hash[b]: the Redis hash of backend b
  call,      \* call[r]: the backend r was allowed to call, and whether the
             \* breaker was tripped when it was allowed
  failedAt   \* auxiliary: the clock at which b's last failure was recorded

vars == <<clock, hash, call, failedAt>>

Idle == [on |-> None, probe |-> FALSE]

Calls == [on: Backends \cup {None}, probe: BOOLEAN]

(* The values time.time() may have given a script that runs now.              *)
Readings == {t \in 0..clock : clock - t <= MaxLag}

TypeOK ==
  /\ clock \in 0..MaxClock
  /\ hash \in [Backends -> Hash]
  /\ call \in [Requests -> Calls]
  /\ failedAt \in [Backends -> 0..MaxClock]

Init ==
  /\ clock = 0
  /\ hash = [b \in Backends |-> NoHash]
  /\ call = [r \in Requests |-> Idle]
  /\ failedAt = [b \in Backends |-> 0]

-----------------------------------------------------------------------------
(* allow(b), with reading `now'.  A request that is refused goes on to its    *)
(* next candidate: it is as idle as before.                                   *)
Allow(r, b, now) ==
  /\ call[r] = Idle
  /\ hash' = [hash EXCEPT ![b] = AfterAllow(@, now)]
  /\ call' = IF Allowed(hash[b], now)
             THEN [call EXCEPT ![r] = [on |-> b, probe |-> Tripped(hash[b])]]
             ELSE call
  /\ UNCHANGED <<clock, failedAt>>

(* The backend answered: record(b, ok=True).                                  *)
RecordOk(r) ==
  /\ call[r].on # None
  /\ hash' = [hash EXCEPT ![call[r].on] = AfterSuccess(@)]
  /\ call' = [call EXCEPT ![r] = Idle]
  /\ UNCHANGED <<clock, failedAt>>

(* The call raised or timed out: record(b, ok=False).  Bound: only while the  *)
(* cooldown it starts can still elapse before MaxClock.                       *)
RecordFailure(r, now) ==
  /\ call[r].on # None
  /\ clock + Cooldown <= MaxClock
  /\ hash' = [hash EXCEPT ![call[r].on] = AfterFailure(@, now)]
  /\ call' = [call EXCEPT ![r] = Idle]
  /\ failedAt' = [failedAt EXCEPT ![call[r].on] = clock]
  /\ UNCHANGED clock

(* The request is cancelled (its client is gone) or its replica dies: neither *)
(* reaches record(), because `except Exception' does not catch them.          *)
Abandon(r) ==
  /\ call[r].on # None
  /\ call' = [call EXCEPT ![r] = Idle]
  /\ UNCHANGED <<clock, hash, failedAt>>

(* Redis restarts without its data, which the scripts read as "closed".       *)
LoseHash(b) ==
  /\ hash' = [hash EXCEPT ![b] = NoHash]
  /\ UNCHANGED <<clock, call, failedAt>>

Tick ==
  /\ clock < MaxClock
  /\ clock' = clock + 1
  /\ UNCHANGED <<hash, call, failedAt>>

Next ==
  \/ \E r \in Requests, b \in Backends, now \in Readings : Allow(r, b, now)
  \/ \E r \in Requests : RecordOk(r)
  \/ \E r \in Requests, now \in Readings : RecordFailure(r, now)
  \/ \E r \in Requests : Abandon(r)
  \/ \E b \in Backends : LoseHash(b)
  \/ Tick

Spec == Init /\ [][Next]_vars

(* Time passes, every allowed call ends (asyncio.timeout bounds it), and      *)
(* traffic for a backend goes on: a request that finds it keeps being made.   *)
Ends(r) == RecordOk(r) \/ Abandon(r) \/ \E now \in Readings : RecordFailure(r, now)

Fairness ==
  /\ WF_vars(Tick)
  /\ \A r \in Requests : WF_vars(Ends(r))
  /\ \A b \in Backends : SF_vars(\E r \in Requests : Allow(r, b, clock))

FairSpec == Spec /\ Fairness

-----------------------------------------------------------------------------
(* The breaker is tripped exactly while at least Threshold failures stand on  *)
(* record without a success after them, whatever the order in which late      *)
(* results of concurrent calls arrive (_RECORD_SCRIPT's test of `failures').  *)
TrippedByFailures ==
  \A b \in Backends : Tripped(hash[b]) <=> hash[b].failures >= Threshold

(* The cooldown counts from the last failure of all, late ones included: a    *)
(* breaker is half-open only when no failure was recorded for Cooldown, up to *)
(* the age of the readings (_ALLOW_SCRIPT's test of `opened_at').             *)
CooldownHonoured ==
  \A b \in Backends :
    hash[b].state = "half_open" => clock - failedAt[b] >= Cooldown - MaxLag

(* The subtraction in _ALLOW_SCRIPT never meets a missing `opened_at', and    *)
(* an open breaker's `opened_at' is that of the last failure recorded.        *)
OpenedAtIsLastFailure ==
  \A b \in Backends :
    hash[b].state = "open" =>
      /\ hash[b].opened_at \in 0..clock
      /\ failedAt[b] - MaxLag <= hash[b].opened_at
      /\ hash[b].opened_at <= failedAt[b]

(* An open breaker does not stay open: with traffic for the backend some      *)
(* request is let through again, although late failures restart the cooldown. *)
ReopensForTraffic ==
  \A b \in Backends : hash[b].state = "open" ~> hash[b].state # "open"

-----------------------------------------------------------------------------
(* What the design document says of the half-open state: "allow one probe"    *)
(* (HLD+LLD.md, B.5).                                                         *)
OneProbeAtATime ==
  \A q, r \in Requests :
    call[q].probe /\ call[r].probe /\ call[q].on = call[r].on => q = r

=============================================================================
