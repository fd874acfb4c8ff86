---------------------------- MODULE RateLimiter ----------------------------
(***************************************************************************)
(* The token-budget limiter of gateway/resilience/ratelimit.py for one API *)
(* key.  Redis holds the sorted set "ratelimit:{api_key_id}": one member   *)
(* "{reservation_id}:{cost}" per request, scored with the time of its last *)
(* write.  reserve() and reconcile() are Lua scripts, so each is one step. *)
(*                                                                         *)
(* Only differences of times matter to the scripts, so a score is kept as  *)
(* its age against the fastest replica's clock.  The `now' a script        *)
(* receives was read by some replica before the script ran: it lies `lag'  *)
(* behind, at most MaxLag.  Ages of MaxAge and more are indistinguishable  *)
(* to every script and are kept as MaxAge.                                 *)
(***************************************************************************)
EXTENDS Integers, FiniteSets

CONSTANTS Requests,   \* one reservation id (a fresh UUID) per request
          Estimates,  \* the values of estimate_tokens()
          Actuals,    \* the values of tokens_in + tokens_out
          Budget,     \* api_key.token_budget
          Window,     \* api_key.window_seconds
          MaxLag      \* bound on clock skew plus the delay of a script call

ASSUME LimiterAssumption ==
  /\ Estimates \subseteq Nat \ {0}
  /\ Actuals \subseteq Nat
  /\ Budget \in Nat
  /\ Window \in Nat \ {0}
  /\ MaxLag \in Nat

VARIABLES
  window,  \* the members of the sorted set
  ttl,     \* seconds until Redis deletes the key, or NoTTL
  req,     \* req[r]: how far request r got, and its estimate
  scored   \* auxiliary: the age of the last score given to r

vars == <<window, ttl, req, scored>>

NoTTL == 0

MaxAge == Window + MaxLag

Lags == 0..MaxLag

Entry == [rid: Requests, cost: Nat, age: 0..MaxAge]

Statuses == {"new", "denied", "reserved", "failed", "settled", "missed"}

TypeOK ==
  /\ window \subseteq Entry
  /\ ttl \in 0..Window
  /\ req \in [Requests -> [status: Statuses, est: Estimates]]
  /\ scored \in [Requests -> 0..MaxAge]

Init ==
  /\ window = {}
  /\ ttl = NoTTL
  /\ req \in [Requests -> [status: {"new"}, est: Estimates]]
  /\ scored = [r \in Requests |-> 0]

(* The sum that the script adds up, as the number of tokens charged.          *)
Tokens(w) == UNION {{e} \X (1..e.cost) : e \in w}

Total(w) == Cardinality(Tokens(w))

-----------------------------------------------------------------------------
(* Mutant: expired members are left in the set.                               *)
NotTrimmed(w, lag) == w

(* ZREMRANGEBYSCORE key -inf now-window.                                      *)
Trimmed(w, lag) == {e \in w : e.age < Window + lag}

(* Redis deletes a sorted set that becomes empty, and its TTL with it.        *)
KeptTTL(w) == IF w = {} THEN NoTTL ELSE ttl

(* Mutant: the estimate itself is not counted against the budget.             *)
FitsAnyEstimate(w, est) == Total(w) <= Budget

Fits(w, est) == Total(w) + est <= Budget

(* Mutant: EXPIRE ... NX, which leaves a TTL that is already there alone.     *)
ExpireOnce(w) == IF KeptTTL(w) = NoTTL THEN Window ELSE ttl

(* EXPIRE key window, on the set the trim left.                               *)
Expire(w) == Window

(* reserve() of a request or, after a 429, of the client's retry of it.       *)
Reserve(r, lag) ==
  LET kept == Trimmed(window, lag)
      est  == req[r].est
  IN  /\ req[r].status \in {"new", "denied"}
      /\ \/ /\ Fits(kept, est)
            /\ window' = kept \cup {[rid |-> r, cost |-> est, age |-> lag]}
            /\ ttl' = Expire(kept)
            /\ req' = [req EXCEPT ![r].status = "reserved"]
            /\ scored' = [scored EXCEPT ![r] = lag]
         \/ /\ ~Fits(kept, est)
            /\ window' = kept
            /\ ttl' = KeptTTL(kept)
            /\ req' = [req EXCEPT ![r].status = "denied"]
            /\ UNCHANGED scored

(* Mutant: the provisional member is left beside the corrected one.           *)
CorrectedBeside(w, r, actual, lag) ==
  w \cup {[rid |-> r, cost |-> actual, age |-> lag]}

(* Mutant: the difference to the estimate is written, not the actual cost.    *)
CorrectedByDifference(w, r, actual, lag) ==
  {e \in w : e.rid # r}
    \cup {[rid |-> r, cost |-> actual - req[r].est, age |-> lag]}

(* ZREM of the provisional member, then ZADD of the corrected one.            *)
Corrected(w, r, actual, lag) ==
  {e \in w : e.rid # r} \cup {[rid |-> r, cost |-> actual, age |-> lag]}

(* reconcile().  It does not EXPIRE; if the provisional member was the only   *)
(* one, the ZREM deletes the key and its TTL and the ZADD creates it anew.    *)
(* Without a provisional member it does nothing, and its result is ignored.   *)
Reconcile(r, actual, lag) ==
  /\ req[r].status = "reserved"
  /\ \/ /\ \E e \in window : e.rid = r
        /\ window' = Corrected(window, r, actual, lag)
        /\ ttl' = KeptTTL({e \in window : e.rid # r})
        /\ req' = [req EXCEPT ![r].status = "settled"]
        /\ scored' = [scored EXCEPT ![r] = lag]
     \/ /\ \A e \in window : e.rid # r
        /\ req' = [req EXCEPT ![r].status = "missed"]
        /\ UNCHANGED <<window, ttl, scored>>

(* The request ends without reconcile(): no backend, every backend failed,    *)
(* an exception after the reservation, a cancelled client.  Its estimate      *)
(* stays charged.                                                             *)
Fail(r) ==
  /\ req[r].status = "reserved"
  /\ req' = [req EXCEPT ![r].status = "failed"]
  /\ UNCHANGED <<window, ttl, scored>>

Aged(age) == IF age < MaxAge THEN age + 1 ELSE age

(* A second passes; Redis deletes the whole key when its TTL runs out.        *)
Tick ==
  /\ window' = IF ttl = 1 THEN {} ELSE {[e EXCEPT !.age = Aged(@)] : e \in window}
  /\ ttl' = IF ttl = NoTTL THEN NoTTL ELSE ttl - 1
  /\ scored' = [r \in Requests |-> Aged(scored[r])]
  /\ UNCHANGED req

Next ==
  \/ \E r \in Requests, lag \in Lags : Reserve(r, lag)
  \/ \E r \in Requests, actual \in Actuals, lag \in Lags : Reconcile(r, actual, lag)
  \/ \E r \in Requests : Fail(r)
  \/ Tick

Spec == Init /\ [][Next]_vars

(* Time passes, and a client that got a 429 tries again (Retry-After).        *)
Fairness ==
  /\ WF_vars(Tick)
  /\ \A r \in Requests : WF_vars(\E lag \in Lags : Reserve(r, lag))

FairSpec == Spec /\ Fairness

-----------------------------------------------------------------------------
(* The requests whose estimate is what the limiter knows of their cost, and   *)
(* was reserved less than Window ago.                                         *)
Outstanding ==
  {r \in Requests : req[r].status \in {"reserved", "failed"} /\ scored[r] < Window}

(* A request is never charged twice: whatever reserve, reconcile, trimming    *)
(* and the key's expiry do in which order, one member at most carries its id. *)
NoDoubleCharge ==
  \A d, e \in window : d.rid = e.rid => d = e

(* An estimate stays charged for the whole window: no trim by a replica with  *)
(* another clock, no expiry of the key that another request's reserve() or    *)
(* reconcile() left behind, drops it early.  So reconcile() finds it as long  *)
(* as it comes within the window.                                             *)
EstimateStaysCharged ==
  \A r \in Outstanding :
    [rid |-> r, cost |-> req[r].est, age |-> scored[r]] \in window

(* Concurrent requests of one key never hold more than its budget between     *)
(* them: reserve()'s trim, sum and add are atomic.                            *)
OutstandingWithinBudget ==
  Cardinality(UNION {{r} \X (1..req[r].est) : r \in Outstanding}) <= Budget

(* No key is locked out: what was charged leaves the window, also when        *)
(* reconcile() left the key without a TTL, and a client that retries gets in. *)
EventuallyAdmitted ==
  \A r \in Requests :
    req[r].est <= Budget => <>(req[r].status \notin {"new", "denied"})

-----------------------------------------------------------------------------
(* What the module comment says of the window, a "sliding-window-log over     *)
(* tokens": a cost that was recorded less than a window ago is in it.         *)
ActualCostStaysCharged ==
  \A r \in Requests :
    req[r].status = "settled" /\ scored[r] < Window =>
      \E e \in window : e.rid = r

(* What the design document says: reconcile() "corrects the provisional to    *)
(* the true cost after completion": the window has the cost of a request once *)
(* its reconcile() has run.                                                   *)
CorrectedAfterCompletion ==
  [][\A r \in Requests :
       req[r].status = "reserved" /\ req'[r].status \in {"settled", "missed"} =>
         \E e \in window' : e.rid = r]_vars

=============================================================================
