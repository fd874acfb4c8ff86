------------------------ MODULE BreakerScriptsProofs ------------------------
(***************************************************************************)
(* What the scripts of BreakerScripts do to a hash, for every threshold    *)
(* and cooldown.  The proofs of CircuitBreaker and Orchestrator cite it.   *)
(***************************************************************************)
EXTENDS BreakerScripts, TLAPS

(* What the scripts return is again a hash (breaker.py's HSETs).              *)
LEMMA ScriptTypes ==
  ASSUME NEW h \in Hash, NEW now \in Nat
  PROVE  /\ AfterAllow(h, now) \in Hash
         /\ AfterSuccess(h) \in Hash
         /\ AfterFailure(h, now) \in Hash
<1>1. AfterAllow(h, now) \in Hash
  BY DEF Hash, BreakerStates, AfterAllow
<1>2. AfterSuccess(h) \in Hash
  BY DEF Hash, BreakerStates, AfterSuccess
<1>3. AfterFailure(h, now) \in Hash
  BY DEF Hash, BreakerStates, AfterFailure
<1>4. QED BY <1>1, <1>2, <1>3

(* The scripts keep "tripped" and "at least Threshold failures" equivalent.   *)
LEMMA ScriptsTrip ==
  ASSUME NEW h \in Hash, NEW now \in Nat,
         Tripped(h) <=> h.failures >= Threshold
  PROVE  /\ Tripped(AfterAllow(h, now)) <=> AfterAllow(h, now).failures >= Threshold
         /\ Tripped(AfterSuccess(h)) <=> AfterSuccess(h).failures >= Threshold
         /\ Tripped(AfterFailure(h, now)) <=> AfterFailure(h, now).failures >= Threshold
  BY BreakerAssumption
  DEF Hash, BreakerStates, Tripped, AfterAllow, AfterSuccess, AfterFailure

=============================================================================
