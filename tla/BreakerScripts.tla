--------------------------- MODULE BreakerScripts ---------------------------
(***************************************************************************)
(* The two Lua scripts of gateway/resilience/breaker.py as functions of    *)
(* the Redis hash "breaker:{backend_id}".  Redis runs a script to its end  *)
(* before it runs anything else, so each script is one function.           *)
(***************************************************************************)
EXTENDS Integers

CONSTANTS Threshold,  \* breaker_failure_threshold
          Cooldown    \* breaker_cooldown_seconds

ASSUME BreakerAssumption == Threshold \in Nat \ {0} /\ Cooldown \in Nat

(* A field HGET does not find.  Only `opened_at' and `state' can be missing   *)
(* in a way the scripts see: a missing `failures' is read as 0.               *)
NoTime == -1

BreakerStates == {"absent", "closed", "open", "half_open"}

Hash == [state: BreakerStates, failures: Nat, opened_at: Nat \cup {NoTime}]

NoHash == [state |-> "absent", failures |-> 0, opened_at |-> NoTime]

Tripped(h) == h.state \in {"open", "half_open"}

\* Mutant: the cooldown is one second short.
CooledDownEarly(h, now) == now - h.opened_at >= Cooldown - 1

CooledDown(h, now) == now - h.opened_at >= Cooldown

-----------------------------------------------------------------------------
(* _ALLOW_SCRIPT: its result, and the hash it leaves.                         *)

Allowed(h, now) == h.state = "open" => CooledDown(h, now)

\* Mutant: the transition to half-open is forgotten.
AfterAllowStaysOpen(h, now) == h

\* Mutant: the state is written as the documentation spells it.
AfterAllowHyphen(h, now) ==
  IF h.state = "open" /\ CooledDown(h, now)
  THEN [h EXCEPT !.state = "half-open"]
  ELSE h

AfterAllow(h, now) ==
  IF h.state = "open" /\ CooledDown(h, now)
  THEN [h EXCEPT !.state = "half_open"]
  ELSE h

-----------------------------------------------------------------------------
(* _RECORD_SCRIPT for ok = 1 and ok = 0.  A failure below the threshold       *)
(* writes `failures' only, and leaves a missing state missing.                *)

\* Mutant: a success closes the breaker but keeps the failure count.
AfterSuccessKeepsCount(h) == [h EXCEPT !.state = "closed"]

AfterSuccess(h) == [h EXCEPT !.state = "closed", !.failures = 0]

\* Mutant: a failure that finds the breaker open does not restart the cooldown.
AfterFailureKeepsOpenedAt(h, now) ==
  LET n == h.failures + 1 IN
  IF h.state # "open" /\ (h.state = "half_open" \/ n >= Threshold)
  THEN [state |-> "open", failures |-> n, opened_at |-> now]
  ELSE [h EXCEPT !.failures = n]

AfterFailure(h, now) ==
  LET n == h.failures + 1 IN
  IF h.state = "half_open" \/ n >= Threshold
  THEN [state |-> "open", failures |-> n, opened_at |-> now]
  ELSE [h EXCEPT !.failures = n]

=============================================================================
