------------------------ MODULE CircuitBreakerProofs ------------------------
(***************************************************************************)
(* Proofs about CircuitBreaker for every number of backends, requests and  *)
(* replicas, every threshold, cooldown and bound on clock skew.            *)
(***************************************************************************)
EXTENDS CircuitBreaker, BreakerScriptsProofs, TLAPS

(* The inductive invariant: OpenedAtIsLastFailure carries the time of the     *)
(* last failure from the step that opens the breaker to the step that         *)
(* half-opens it, which is where CooldownHonoured needs it.                   *)
BreakerInv ==
  /\ TypeOK
  /\ TrippedByFailures
  /\ OpenedAtIsLastFailure
  /\ CooldownHonoured

-----------------------------------------------------------------------------
(* The initial state satisfies the invariant: no hash, no call, time 0.       *)
LEMMA InitInv == Init => BreakerInv
  BY BreakerAssumption, ClockAssumption
  DEF Init, BreakerInv, TypeOK, TrippedByFailures, OpenedAtIsLastFailure,
      CooldownHonoured, Hash, BreakerStates, NoHash, NoTime, Tripped, Idle, Calls

(* Every step of the breaker and of its callers preserves the invariant.      *)
LEMMA NextInv == BreakerInv /\ [Next]_vars => BreakerInv'
<1> SUFFICES ASSUME BreakerInv, [Next]_vars PROVE BreakerInv'
  OBVIOUS
<1> USE BreakerAssumption, ClockAssumption, NoneAssumption
<1>1. ASSUME NEW r \in Requests, NEW b \in Backends, NEW now \in Readings,
             Allow(r, b, now)
      PROVE  BreakerInv'
  <2>1. now \in 0..clock /\ now \in Nat
    BY DEF Readings, BreakerInv, TypeOK
  <2>2. hash[b] \in Hash
    BY DEF BreakerInv, TypeOK
  <2>3. TypeOK'
    <3>1. hash' \in [Backends -> Hash]
      BY <1>1, <2>1, <2>2, ScriptTypes DEF BreakerInv, TypeOK, Allow
    <3>2. [on |-> b, probe |-> Tripped(hash[b])] \in Calls
      BY DEF Calls, Tripped
    <3>3. call' \in [Requests -> Calls]
      BY <1>1, <3>2 DEF BreakerInv, TypeOK, Allow
    <3>4. QED BY <1>1, <3>1, <3>3 DEF BreakerInv, TypeOK, Allow
  <2>4. TrippedByFailures'
    <3> SUFFICES ASSUME NEW c \in Backends
                 PROVE  (Tripped(hash[c]) <=> hash[c].failures >= Threshold)'
      BY DEF TrippedByFailures
    <3>2. CASE c = b
      BY <1>1, <2>1, <2>2, <3>2, ScriptsTrip
      DEF BreakerInv, TypeOK, TrippedByFailures, Allow
    <3>3. CASE c # b
      BY <1>1, <3>3 DEF BreakerInv, TypeOK, TrippedByFailures, Allow
    <3>4. QED BY <3>2, <3>3
  <2>5. OpenedAtIsLastFailure'
    BY <1>1 DEF BreakerInv, TypeOK, OpenedAtIsLastFailure, Allow, AfterAllow, Hash
  <2>6. CooldownHonoured'
    <3> SUFFICES ASSUME NEW c \in Backends, hash'[c].state = "half_open"
                 PROVE  clock' - failedAt'[c] >= Cooldown - MaxLag
      BY DEF CooldownHonoured
    <3>2. CASE c = b /\ hash[b].state = "open"
      BY <1>1, <2>1, <2>2, <3>2
      DEF BreakerInv, TypeOK, OpenedAtIsLastFailure, Allow, AfterAllow, CooledDown, Hash
    <3>3. CASE ~(c = b /\ hash[b].state = "open")
      BY <1>1, <2>2, <3>3 DEF BreakerInv, TypeOK, CooldownHonoured, Allow, AfterAllow, Hash
    <3>4. QED BY <3>2, <3>3
  <2>7. QED BY <2>3, <2>4, <2>5, <2>6 DEF BreakerInv
<1>2. ASSUME NEW r \in Requests, RecordOk(r)
      PROVE  BreakerInv'
  <2> DEFINE b == call[r].on
  <2>1. b \in Backends /\ hash[b] \in Hash
    BY <1>2 DEF RecordOk, BreakerInv, TypeOK, Calls
  <2>2. hash' = [hash EXCEPT ![b] = AfterSuccess(hash[b])]
    BY <1>2 DEF RecordOk
  <2>3. TypeOK'
    <3>1. hash' \in [Backends -> Hash]
      BY <2>1, <2>2, ScriptTypes DEF BreakerInv, TypeOK
    <3>2. QED BY <1>2, <3>1 DEF BreakerInv, TypeOK, RecordOk, Idle, Calls
  <2>4. TrippedByFailures'
    <3> SUFFICES ASSUME NEW c \in Backends
                 PROVE  (Tripped(hash[c]) <=> hash[c].failures >= Threshold)'
      BY DEF TrippedByFailures
    <3>2. CASE c = b
      BY <2>1, <2>2, <3>2, ScriptsTrip DEF BreakerInv, TypeOK, TrippedByFailures
    <3>3. CASE c # b
      BY <2>2, <3>3 DEF BreakerInv, TypeOK, TrippedByFailures
    <3>4. QED BY <3>2, <3>3
  <2>5. OpenedAtIsLastFailure' /\ CooldownHonoured'
    BY <1>2, <2>1, <2>2
    DEF BreakerInv, TypeOK, OpenedAtIsLastFailure, CooldownHonoured, RecordOk,
        AfterSuccess, Hash
  <2>6. QED BY <2>3, <2>4, <2>5 DEF BreakerInv
<1>3. ASSUME NEW r \in Requests, NEW now \in Readings, RecordFailure(r, now)
      PROVE  BreakerInv'
  <2> DEFINE b == call[r].on
  <2>1. b \in Backends /\ hash[b] \in Hash
    BY <1>3 DEF RecordFailure, BreakerInv, TypeOK, Calls
  <2>2. hash' = [hash EXCEPT ![b] = AfterFailure(hash[b], now)]
    BY <1>3 DEF RecordFailure
  <2>3. now \in Nat /\ now <= clock /\ clock - now <= MaxLag /\ clock \in 0..MaxClock
    BY DEF Readings, BreakerInv, TypeOK
  <2>4. TypeOK'
    <3>1. hash' \in [Backends -> Hash]
      BY <2>1, <2>2, <2>3, ScriptTypes DEF BreakerInv, TypeOK
    <3>2. QED BY <1>3, <2>3, <3>1 DEF BreakerInv, TypeOK, RecordFailure, Idle, Calls
  <2>5. TrippedByFailures'
    <3> SUFFICES ASSUME NEW c \in Backends
                 PROVE  (Tripped(hash[c]) <=> hash[c].failures >= Threshold)'
      BY DEF TrippedByFailures
    <3>2. CASE c = b
      BY <2>1, <2>2, <2>3, <3>2, ScriptsTrip DEF BreakerInv, TypeOK, TrippedByFailures
    <3>3. CASE c # b
      BY <2>2, <3>3 DEF BreakerInv, TypeOK, TrippedByFailures
    <3>4. QED BY <3>2, <3>3
  <2>6. hash'[b].state # "half_open" /\
        (hash'[b].state = "open" => hash'[b].opened_at = now)
    BY <2>1, <2>2, <2>3
    DEF BreakerInv, TypeOK, TrippedByFailures, Tripped, AfterFailure, Hash, BreakerStates
  <2>7. failedAt' = [failedAt EXCEPT ![b] = clock] /\ clock' = clock
    BY <1>3 DEF RecordFailure
  <2>8. OpenedAtIsLastFailure' /\ CooldownHonoured'
    BY <2>1, <2>2, <2>3, <2>6, <2>7
    DEF BreakerInv, TypeOK, OpenedAtIsLastFailure, CooldownHonoured
  <2>9. QED BY <2>4, <2>5, <2>8 DEF BreakerInv
<1>4. ASSUME NEW r \in Requests, Abandon(r)
      PROVE  BreakerInv'
  BY <1>4 DEF Abandon, BreakerInv, TypeOK, TrippedByFailures, OpenedAtIsLastFailure,
              CooldownHonoured, Idle, Calls
<1>5. ASSUME NEW b \in Backends, LoseHash(b)
      PROVE  BreakerInv'
  BY <1>5 DEF LoseHash, BreakerInv, TypeOK, TrippedByFailures, OpenedAtIsLastFailure,
              CooldownHonoured, NoHash, NoTime, Tripped, Hash, BreakerStates
<1>6. CASE Tick
  BY <1>6 DEF Tick, BreakerInv, TypeOK, TrippedByFailures, OpenedAtIsLastFailure,
              CooldownHonoured
<1>7. CASE UNCHANGED vars
  BY <1>7 DEF vars, BreakerInv, TypeOK, TrippedByFailures, OpenedAtIsLastFailure,
              CooldownHonoured
<1>8. QED BY <1>1, <1>2, <1>3, <1>4, <1>5, <1>6, <1>7 DEF Next

(* The whole inductive invariant holds in every reachable state.              *)
THEOREM BreakerSafe == Spec => []BreakerInv
  BY InitInv, NextInv, PTL DEF Spec

(* The hashes and the callers' state keep their types.                        *)
THEOREM BreakerTypeCorrect == Spec => []TypeOK
<1>1. BreakerInv => TypeOK BY DEF BreakerInv
<1>2. QED BY <1>1, BreakerSafe, PTL

(* Tripped is the same as Threshold failures on record, for any interleaving. *)
THEOREM TripsAtThreshold == Spec => []TrippedByFailures
<1>1. BreakerInv => TrippedByFailures BY DEF BreakerInv
<1>2. QED BY <1>1, BreakerSafe, PTL

(* Half-open is reached only after a whole failure-free cooldown.             *)
THEOREM CooldownIsHonoured == Spec => []CooldownHonoured
<1>1. BreakerInv => CooldownHonoured BY DEF BreakerInv
<1>2. QED BY <1>1, BreakerSafe, PTL

(* An open breaker's cooldown counts from its last failure, and never from a  *)
(* field that is missing.                                                     *)
THEOREM CountsFromLastFailure == Spec => []OpenedAtIsLastFailure
<1>1. BreakerInv => OpenedAtIsLastFailure BY DEF BreakerInv
<1>2. QED BY <1>1, BreakerSafe, PTL

=============================================================================
