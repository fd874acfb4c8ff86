------------------------- MODULE RateLimiterProofs -------------------------
(***************************************************************************)
(* Proofs about RateLimiter for every number of requests, every budget,    *)
(* window, estimate and actual cost, and every bound on clock skew.        *)
(***************************************************************************)
EXTENDS RateLimiter, FiniteSetTheorems, TLAPS

(* Only a request that was granted a reservation has a member in the set.     *)
MembersWereReserved ==
  \A e \in window : req[e.rid].status \in {"reserved", "failed", "settled"}

(* A key that has a TTL outlives every estimate in it.                        *)
KeyOutlivesEstimates ==
  \A r \in Outstanding : ttl # NoTTL => ttl + scored[r] >= Window

(* The inductive invariant: NoDoubleCharge needs to know that a request that  *)
(* reserves has no member yet, EstimateStaysCharged that the key's expiry     *)
(* comes too late to take an estimate with it.                                *)
LimiterInv ==
  /\ TypeOK
  /\ MembersWereReserved
  /\ NoDoubleCharge
  /\ EstimateStaysCharged
  /\ KeyOutlivesEstimates

-----------------------------------------------------------------------------
(* The initial state satisfies the invariant: the key does not exist.         *)
LEMMA InitInv == Init => LimiterInv
  BY LimiterAssumption
  DEF Init, LimiterInv, TypeOK, MembersWereReserved, NoDoubleCharge,
      EstimateStaysCharged, KeyOutlivesEstimates, Outstanding, NoTTL, Statuses,
      MaxAge, Entry

(* ZREMRANGEBYSCORE with any replica's clock keeps every estimate less than   *)
(* Window old.                                                                *)
LEMMA TrimKeepsEstimates ==
  ASSUME LimiterInv, NEW r \in Outstanding, NEW lag \in Lags
  PROVE  [rid |-> r, cost |-> req[r].est, age |-> scored[r]] \in Trimmed(window, lag)
  BY LimiterAssumption
  DEF LimiterInv, TypeOK, EstimateStaysCharged, Outstanding, Trimmed, Lags, MaxAge

(* Every step of the limiter preserves the invariant.                         *)
LEMMA NextInv == LimiterInv /\ [Next]_vars => LimiterInv'
<1> SUFFICES ASSUME LimiterInv, [Next]_vars PROVE LimiterInv'
  OBVIOUS
<1> USE LimiterAssumption
<1>1. ASSUME NEW r \in Requests, NEW lag \in Lags, Reserve(r, lag)
      PROVE  LimiterInv'
  <2> DEFINE kept == Trimmed(window, lag)
             mine == [rid |-> r, cost |-> req[r].est, age |-> lag]
  <2>1. kept \subseteq window /\ req[r].status \in {"new", "denied"}
    BY <1>1 DEF Reserve, Trimmed
  <2>2. \A e \in window : e.rid # r
    BY <2>1 DEF LimiterInv, MembersWereReserved
  <2>3. lag \in 0..MaxAge /\ mine \in Entry
    <3>1. lag \in 0..MaxAge
      BY DEF Lags, MaxAge
    <3>2. req[r].est \in Nat
      BY DEF LimiterInv, TypeOK
    <3>3. QED BY <3>1, <3>2 DEF Entry
  <2>4. CASE /\ window' = kept \cup {mine}
             /\ ttl' = Window
             /\ req' = [req EXCEPT ![r].status = "reserved"]
             /\ scored' = [scored EXCEPT ![r] = lag]
    <3>1. TypeOK'
      BY <2>1, <2>3, <2>4 DEF LimiterInv, TypeOK, Statuses
    <3>2. MembersWereReserved'
      BY <2>1, <2>2, <2>4 DEF LimiterInv, TypeOK, Entry, MembersWereReserved
    <3>3. NoDoubleCharge'
      BY <2>1, <2>2, <2>4 DEF LimiterInv, NoDoubleCharge
    <3>4. EstimateStaysCharged'
      <4> SUFFICES ASSUME NEW q \in Outstanding'
                   PROVE  [rid |-> q, cost |-> req'[q].est, age |-> scored'[q]] \in window'
        BY DEF EstimateStaysCharged
      <4>1. q \in Requests
        BY DEF Outstanding
      <4>2. CASE q = r
        BY <2>4, <4>2 DEF LimiterInv, TypeOK
      <4>3. CASE q # r
        <5>1. q \in Outstanding /\ req'[q] = req[q] /\ scored'[q] = scored[q]
          BY <2>4, <4>1, <4>3 DEF LimiterInv, TypeOK, Outstanding
        <5>2. QED BY <2>4, <5>1, TrimKeepsEstimates
      <4>4. QED BY <4>2, <4>3
    <3>5. KeyOutlivesEstimates'
      BY <2>4, <3>1 DEF KeyOutlivesEstimates, Outstanding, TypeOK, MaxAge
    <3>6. QED BY <3>1, <3>2, <3>3, <3>4, <3>5 DEF LimiterInv
  <2>5. CASE /\ window' = kept
             /\ ttl' = KeptTTL(kept)
             /\ req' = [req EXCEPT ![r].status = "denied"]
             /\ UNCHANGED scored
    <3>1. TypeOK'
      BY <2>1, <2>5 DEF LimiterInv, TypeOK, Statuses, KeptTTL, NoTTL
    <3>2. MembersWereReserved' /\ NoDoubleCharge'
      BY <2>1, <2>2, <2>5
      DEF LimiterInv, TypeOK, Entry, MembersWereReserved, NoDoubleCharge
    <3>3. \A q \in Outstanding' : q \in Outstanding /\ req'[q].est = req[q].est
      BY <2>5 DEF LimiterInv, TypeOK, Outstanding
    <3>4. EstimateStaysCharged'
      BY <2>5, <3>3, TrimKeepsEstimates DEF EstimateStaysCharged
    <3>5. KeyOutlivesEstimates'
      BY <2>5, <3>3 DEF LimiterInv, KeyOutlivesEstimates, KeptTTL
    <3>6. QED BY <3>1, <3>2, <3>4, <3>5 DEF LimiterInv
  <2>6. QED BY <1>1, <2>4, <2>5 DEF Reserve, Expire
<1>2. ASSUME NEW r \in Requests, NEW actual \in Actuals, NEW lag \in Lags,
             Reconcile(r, actual, lag)
      PROVE  LimiterInv'
  <2> DEFINE others == {e \in window : e.rid # r}
             mine == [rid |-> r, cost |-> actual, age |-> lag]
  <2>1. CASE /\ window' = others \cup {mine}
             /\ ttl' = KeptTTL(others)
             /\ req' = [req EXCEPT ![r].status = "settled"]
             /\ scored' = [scored EXCEPT ![r] = lag]
    <3>1. mine \in Entry /\ lag \in 0..MaxAge
      BY DEF Entry, Lags, MaxAge
    <3>2. TypeOK'
      BY <2>1, <3>1 DEF LimiterInv, TypeOK, Statuses, KeptTTL, NoTTL
    <3>3. MembersWereReserved' /\ NoDoubleCharge'
      BY <2>1 DEF LimiterInv, TypeOK, Entry, MembersWereReserved, NoDoubleCharge
    <3>4. \A q \in Outstanding' : /\ q \in Outstanding /\ q # r
                                  /\ req'[q] = req[q] /\ scored'[q] = scored[q]
      BY <2>1 DEF LimiterInv, TypeOK, Outstanding
    <3>5. EstimateStaysCharged'
      BY <2>1, <3>4 DEF LimiterInv, EstimateStaysCharged
    <3>6. KeyOutlivesEstimates'
      BY <2>1, <3>4 DEF LimiterInv, KeyOutlivesEstimates, KeptTTL
    <3>7. QED BY <3>2, <3>3, <3>5, <3>6 DEF LimiterInv
  <2>2. CASE /\ req' = [req EXCEPT ![r].status = "missed"]
             /\ UNCHANGED <<window, ttl, scored>>
             /\ \A e \in window : e.rid # r
    <3>1. \A q \in Outstanding' : q \in Outstanding /\ req'[q] = req[q]
      BY <2>2 DEF LimiterInv, TypeOK, Outstanding
    <3>2. TypeOK' /\ NoDoubleCharge'
      BY <2>2 DEF LimiterInv, TypeOK, Statuses, NoDoubleCharge
    <3>3. MembersWereReserved'
      BY <2>2 DEF LimiterInv, TypeOK, Entry, MembersWereReserved
    <3>4. EstimateStaysCharged' /\ KeyOutlivesEstimates'
      BY <2>2, <3>1 DEF LimiterInv, EstimateStaysCharged, KeyOutlivesEstimates
    <3>5. QED BY <3>2, <3>3, <3>4 DEF LimiterInv
  <2>3. QED BY <1>2, <2>1, <2>2 DEF Reconcile, Corrected
<1>3. ASSUME NEW r \in Requests, Fail(r)
      PROVE  LimiterInv'
  <2>1. TypeOK' /\ NoDoubleCharge'
    BY <1>3 DEF Fail, LimiterInv, TypeOK, Statuses, NoDoubleCharge
  <2>2. MembersWereReserved'
    BY <1>3 DEF Fail, LimiterInv, TypeOK, Entry, MembersWereReserved
  <2>3. \A q \in Outstanding' : q \in Outstanding /\ req'[q].est = req[q].est
    BY <1>3 DEF Fail, LimiterInv, TypeOK, Outstanding
  <2>4. EstimateStaysCharged' /\ KeyOutlivesEstimates'
    BY <1>3, <2>3 DEF Fail, LimiterInv, EstimateStaysCharged, KeyOutlivesEstimates
  <2>5. QED BY <2>1, <2>2, <2>4 DEF LimiterInv
<1>4. CASE Tick
  <2> DEFINE Older(e) == [e EXCEPT !.age = Aged(@)]
  <2>1. \A e \in Entry :
          Older(e) = [rid |-> e.rid, cost |-> e.cost, age |-> Aged(e.age)]
    BY DEF Entry
  <2>2. \A d \in window' : \E e \in window :
          d = [rid |-> e.rid, cost |-> e.cost, age |-> Aged(e.age)]
    <3>1. \A d \in window' : \E e \in window : d = Older(e)
      BY <1>4 DEF Tick
    <3>2. window \subseteq Entry
      BY DEF LimiterInv, TypeOK
    <3> HIDE DEF Older
    <3>3. QED BY <2>1, <3>1, <3>2
  <2>3. TypeOK'
    <3>1. \A e \in window : e.rid \in Requests /\ e.cost \in Nat /\ e.age \in 0..MaxAge
      BY DEF LimiterInv, TypeOK, Entry
    <3>2. \A a \in 0..MaxAge : Aged(a) \in 0..MaxAge
      BY DEF Aged, MaxAge
    <3>3. window' \subseteq Entry
      BY <2>2, <3>1, <3>2 DEF Entry
    <3>4. scored' \in [Requests -> 0..MaxAge]
      BY <1>4, <3>2 DEF Tick, LimiterInv, TypeOK
    <3>5. ttl' \in 0..Window
      BY <1>4 DEF Tick, LimiterInv, TypeOK, NoTTL
    <3>6. QED BY <1>4, <3>3, <3>4, <3>5 DEF Tick, LimiterInv, TypeOK
  <2>4. MembersWereReserved'
    BY <1>4, <2>2 DEF Tick, LimiterInv, MembersWereReserved
  <2>5. NoDoubleCharge'
    BY <2>2 DEF LimiterInv, NoDoubleCharge
  <2>6. \A q \in Outstanding' : /\ q \in Outstanding
                                /\ scored'[q] = scored[q] + 1
                                /\ scored'[q] = Aged(scored[q])
    BY <1>4 DEF Tick, LimiterInv, TypeOK, Outstanding, Aged, MaxAge
  <2>7. KeyOutlivesEstimates'
    BY <1>4, <2>6 DEF Tick, LimiterInv, TypeOK, KeyOutlivesEstimates, Outstanding, NoTTL
  <2>8. EstimateStaysCharged'
    <3> SUFFICES ASSUME NEW q \in Outstanding'
                 PROVE  [rid |-> q, cost |-> req'[q].est, age |-> scored'[q]] \in window'
      BY DEF EstimateStaysCharged
    <3> DEFINE was == [rid |-> q, cost |-> req[q].est, age |-> scored[q]]
    <3>1. q \in Outstanding /\ q \in Requests /\ was \in window
      BY <2>6 DEF LimiterInv, EstimateStaysCharged, Outstanding
    <3>2. scored'[q] < Window /\ scored[q] \in Nat
      BY <3>1 DEF Outstanding, LimiterInv, TypeOK
    <3>3. ttl # 1
      BY <2>6, <3>1, <3>2 DEF LimiterInv, KeyOutlivesEstimates, NoTTL
    <3>4. Older(was) \in window'
      BY <1>4, <3>1, <3>3 DEF Tick
    <3>5. Older(was) = [rid |-> q, cost |-> req'[q].est, age |-> scored'[q]]
      BY <1>4, <2>1, <2>6, <3>1 DEF Tick, LimiterInv, TypeOK
    <3>6. QED BY <3>4, <3>5
  <2>9. QED BY <2>3, <2>4, <2>5, <2>7, <2>8 DEF LimiterInv
<1>5. CASE UNCHANGED vars
  BY <1>5 DEF vars, LimiterInv, TypeOK, MembersWereReserved, NoDoubleCharge,
              EstimateStaysCharged, KeyOutlivesEstimates, Outstanding
<1>6. QED BY <1>1, <1>2, <1>3, <1>4, <1>5 DEF Next

(* The whole inductive invariant holds in every reachable state.              *)
THEOREM LimiterSafe == Spec => []LimiterInv
  BY InitInv, NextInv, PTL DEF Spec

(* The sorted set, its TTL and the requests keep their types.                 *)
THEOREM LimiterTypeCorrect == Spec => []TypeOK
<1>1. LimiterInv => TypeOK BY DEF LimiterInv
<1>2. QED BY <1>1, LimiterSafe, PTL

(* No request is charged twice, in any interleaving of reserve() and          *)
(* reconcile().                                                               *)
THEOREM ChargedOnce == Spec => []NoDoubleCharge
<1>1. LimiterInv => NoDoubleCharge BY DEF LimiterInv
<1>2. QED BY <1>1, LimiterSafe, PTL

(* An estimate stays in the set for its whole window: neither a trim nor the  *)
(* key's TTL takes it early.                                                  *)
THEOREM EstimatesAreKept == Spec => []EstimateStaysCharged
<1>1. LimiterInv => EstimateStaysCharged BY DEF LimiterInv
<1>2. QED BY <1>1, LimiterSafe, PTL

-----------------------------------------------------------------------------
(* The budget.  The tokens that the requests of a set have estimated:         *)
EstTokens(R) == UNION {{r} \X (1..req[r].est) : r \in R}

LEMMA RangeFinite ==
  ASSUME NEW n \in Nat
  PROVE  IsFiniteSet(1..n) /\ Cardinality(1..n) = n
<1>1. 1 \in Int /\ n \in Int
  OBVIOUS
<1>2. IsFiniteSet(1..n) /\ Cardinality(1..n) = IF 1 > n THEN 0 ELSE n - 1 + 1
  BY <1>1, FS_Interval
<1>3. QED BY <1>2

(* A finite window has finitely many tokens.                                  *)
LEMMA TokensFinite ==
  ASSUME NEW w \in SUBSET Entry, IsFiniteSet(w)
  PROVE  IsFiniteSet(Tokens(w))
<1> DEFINE T == {{e} \X (1..e.cost) : e \in w}
           f == [e \in w |-> {e} \X (1..e.cost)]
<1>1. f \in Surjection(w, T)
  BY DEF Surjection
<1>2. IsFiniteSet(T)
  <2> HIDE DEF f, T
  <2>1. QED BY <1>1, FS_Surjection
<1>3. ASSUME NEW e \in w
      PROVE  IsFiniteSet({e} \X (1..e.cost))
  <2>1. e.cost \in Nat
    BY DEF Entry
  <2>2. IsFiniteSet(1..e.cost) /\ IsFiniteSet({e})
    BY <2>1, RangeFinite, FS_Singleton
  <2>3. QED BY <2>2, FS_Product
<1>4. \A t \in T : IsFiniteSet(t)
  BY <1>3, Zenon
<1>5. IsFiniteSet(UNION T)
  <2> HIDE DEF T
  <2>1. QED BY <1>2, <1>4, FS_UNION
<1>6. QED BY <1>5 DEF Tokens

(* Estimates whose members are all in w have no more tokens than w.           *)
LEMMA EstimatesWithin ==
  ASSUME NEW w \in SUBSET Entry, IsFiniteSet(w), NEW R,
         \A r \in R : [rid |-> r, cost |-> req[r].est, age |-> scored[r]] \in w
  PROVE  /\ IsFiniteSet(EstTokens(R)) /\ Cardinality(EstTokens(R)) \in Nat
         /\ Total(w) \in Nat /\ Cardinality(EstTokens(R)) <= Total(w)
<1> DEFINE Member(r) == [rid |-> r, cost |-> req[r].est, age |-> scored[r]]
           f == [t \in EstTokens(R) |-> <<Member(t[1]), t[2]>>]
<1>1. ASSUME NEW t \in EstTokens(R)
      PROVE  /\ t[1] \in R /\ t[2] \in 1..req[t[1]].est /\ t = <<t[1], t[2]>>
  BY DEF EstTokens
<1>2. \A r : Member(r).rid = r /\ Member(r).cost = req[r].est
  OBVIOUS
<1>3. \A r \in R : Member(r) \in w
  OBVIOUS
<1> HIDE DEF Member
<1>4. ASSUME NEW t \in EstTokens(R)
      PROVE  <<Member(t[1]), t[2]>> \in Tokens(w)
  <2>1. Member(t[1]) \in w /\ t[2] \in 1..Member(t[1]).cost
    BY <1>1, <1>2, <1>3
  <2>2. QED BY <2>1 DEF Tokens
<1>5. f \in [EstTokens(R) -> Tokens(w)]
  BY <1>4
<1>6. ASSUME NEW t \in EstTokens(R), NEW u \in EstTokens(R), f[t] = f[u]
      PROVE  t = u
  <2>1. Member(t[1]) = Member(u[1]) /\ t[2] = u[2]
    BY <1>6
  <2>2. t[1] = u[1]
    BY <1>2, <2>1
  <2>3. t = <<t[1], t[2]>> /\ u = <<u[1], u[2]>>
    BY <1>1
  <2>4. QED BY <2>1, <2>2, <2>3, Zenon
<1>7. f \in Injection(EstTokens(R), Tokens(w))
  <2> HIDE DEF f
  <2>1. QED BY <1>5, <1>6 DEF Injection, IsInjective
<1>8. IsFiniteSet(Tokens(w))
  BY TokensFinite
<1>9. /\ IsFiniteSet(EstTokens(R))
      /\ Cardinality(EstTokens(R)) <= Cardinality(Tokens(w))
  <2> HIDE DEF f
  <2>1. QED BY <1>7, <1>8, FS_Injection
<1>10. QED BY <1>8, <1>9, FS_CardinalityType DEF Total

(* The inductive invariant: what reserve() sums up is finite, and the         *)
(* estimates that still count are within the budget.                          *)
BudgetInv ==
  /\ IsFiniteSet(window)
  /\ Cardinality(EstTokens(Outstanding)) <= Budget

(* Estimates that are still outstanding were so before.                       *)
LEMMA BudgetKept ==
  ASSUME LimiterInv, BudgetInv,
         \A q \in Outstanding' : q \in Outstanding /\ req'[q].est = req[q].est
  PROVE  Cardinality(EstTokens(Outstanding)') <= Budget
<1> DEFINE old == EstTokens(Outstanding)
           new == EstTokens(Outstanding)'
<1>1. new \in SUBSET old
  <2>1. new = UNION {{q} \X (1..req'[q].est) : q \in Outstanding'}
    BY DEF EstTokens
  <2>2. QED BY <2>1 DEF EstTokens
<1>2. IsFiniteSet(old) /\ Cardinality(old) \in Nat
  BY EstimatesWithin DEF LimiterInv, BudgetInv, TypeOK, EstimateStaysCharged
<1>3. Cardinality(old) <= Budget
  BY DEF BudgetInv
<1> HIDE DEF old, new
<1>4. IsFiniteSet(new) /\ Cardinality(new) <= Cardinality(old)
  BY <1>1, <1>2, FS_Subset
<1>5. Cardinality(new) \in Nat
  BY <1>4, FS_CardinalityType
<1>6. Cardinality(new) <= Budget
  BY <1>2, <1>3, <1>4, <1>5, LimiterAssumption
<1>7. QED BY <1>6 DEF new

(* reserve() that grants r adds its estimate to what the trim left, which has *)
(* all the estimates that still count.                                        *)
LEMMA ReserveWithinBudget ==
  ASSUME LimiterInv, BudgetInv, NEW r \in Requests, NEW lag \in Lags,
         Fits(Trimmed(window, lag), req[r].est),
         req' = [req EXCEPT ![r].status = "reserved"],
         scored' = [scored EXCEPT ![r] = lag]
  PROVE  Cardinality(EstTokens(Outstanding)') <= Budget
<1> DEFINE kept == Trimmed(window, lag)
           est == req[r].est
           old == EstTokens(Outstanding)
           mine == {r} \X (1..est)
           new == EstTokens(Outstanding)'
<1>1. est \in Nat /\ kept \in SUBSET Entry /\ kept \in SUBSET window
  BY LimiterAssumption DEF LimiterInv, TypeOK, Trimmed
<1>2. IsFiniteSet(kept)
  BY <1>1, FS_Subset DEF BudgetInv
<1>3. /\ IsFiniteSet(old) /\ Cardinality(old) \in Nat
      /\ Total(kept) \in Nat /\ Cardinality(old) <= Total(kept)
  <2>1. \A q \in Outstanding :
          [rid |-> q, cost |-> req[q].est, age |-> scored[q]] \in kept
    BY TrimKeepsEstimates
  <2> HIDE DEF kept
  <2>2. QED BY <1>1, <1>2, <2>1, EstimatesWithin
<1>4. IsFiniteSet(mine) /\ Cardinality(mine) = est
  <2>1. IsFiniteSet(1..est) /\ Cardinality(1..est) = est
    BY <1>1, RangeFinite
  <2>2. IsFiniteSet({r}) /\ Cardinality({r}) = 1
    BY FS_Singleton
  <2>3. /\ IsFiniteSet(mine)
        /\ Cardinality(mine) = Cardinality({r}) * Cardinality(1..est)
    BY <2>1, <2>2, FS_Product
  <2>4. QED BY <1>1, <2>1, <2>2, <2>3
<1>5. new \in SUBSET (old \cup mine)
  <2>1. ASSUME NEW q \in Outstanding'
        PROVE  req'[q].est = req[q].est /\ (q = r \/ q \in Outstanding)
    BY DEF LimiterInv, TypeOK, Outstanding
  <2>2. new = UNION {{q} \X (1..req'[q].est) : q \in Outstanding'}
    BY DEF EstTokens
  <2>3. QED BY <2>1, <2>2 DEF EstTokens
<1>6. Total(kept) + est <= Budget
  BY DEF Fits
<1> HIDE DEF old, new, mine, est, kept
<1>7. /\ IsFiniteSet(old \cup mine)
      /\ Cardinality(old \cup mine)
           = Cardinality(old) + Cardinality(mine) - Cardinality(old \cap mine)
  BY <1>3, <1>4, FS_Union
<1>8. Cardinality(old \cap mine) \in Nat
  BY <1>3, FS_Intersection, FS_CardinalityType
<1>9. IsFiniteSet(new) /\ Cardinality(new) <= Cardinality(old \cup mine)
  BY <1>5, <1>7, FS_Subset
<1>10. Cardinality(new) \in Nat
  BY <1>9, FS_CardinalityType
<1>11. Cardinality(new) <= Budget
  BY <1>1, <1>3, <1>4, <1>6, <1>7, <1>8, <1>9, <1>10, LimiterAssumption
<1>12. QED BY <1>11 DEF new

LEMMA NextBudget == LimiterInv /\ BudgetInv /\ [Next]_vars => BudgetInv'
<1> SUFFICES ASSUME LimiterInv, BudgetInv, [Next]_vars
             PROVE  BudgetInv'
  OBVIOUS
<1> USE LimiterAssumption
<1>1. ASSUME NEW r \in Requests, NEW lag \in Lags, Reserve(r, lag)
      PROVE  BudgetInv'
  <2> DEFINE kept == Trimmed(window, lag)
             mine == [rid |-> r, cost |-> req[r].est, age |-> lag]
  <2>1. IsFiniteSet(kept) /\ IsFiniteSet(kept \cup {mine})
    <3>1. kept \in SUBSET window
      BY DEF Trimmed
    <3>2. IsFiniteSet(kept)
      BY <3>1, FS_Subset DEF BudgetInv
    <3>3. QED BY <3>2, FS_AddElement
  <2>2. CASE /\ Fits(kept, req[r].est)
             /\ window' = kept \cup {mine}
             /\ req' = [req EXCEPT ![r].status = "reserved"]
             /\ scored' = [scored EXCEPT ![r] = lag]
    <3>1. Cardinality(EstTokens(Outstanding)') <= Budget
      BY <2>2, ReserveWithinBudget
    <3>2. QED BY <2>1, <2>2, <3>1 DEF BudgetInv
  <2>3. CASE /\ window' = kept
             /\ req' = [req EXCEPT ![r].status = "denied"]
             /\ UNCHANGED scored
    <3>1. \A q \in Outstanding' : q \in Outstanding /\ req'[q].est = req[q].est
      BY <2>3 DEF LimiterInv, TypeOK, Outstanding
    <3>2. Cardinality(EstTokens(Outstanding)') <= Budget
      BY <3>1, BudgetKept
    <3>3. QED BY <2>1, <2>3, <3>2 DEF BudgetInv
  <2>4. QED BY <1>1, <2>2, <2>3, Zenon DEF Reserve
<1>2. ASSUME NEW r \in Requests, NEW actual \in Actuals, NEW lag \in Lags,
             Reconcile(r, actual, lag)
      PROVE  BudgetInv'
  <2> DEFINE others == {e \in window : e.rid # r}
             mine == [rid |-> r, cost |-> actual, age |-> lag]
  <2>1. CASE /\ window' = others \cup {mine}
             /\ req' = [req EXCEPT ![r].status = "settled"]
             /\ scored' = [scored EXCEPT ![r] = lag]
    <3>1. others \in SUBSET window
      OBVIOUS
    <3>2. IsFiniteSet(others \cup {mine})
      <4> HIDE DEF others, mine
      <4>1. QED BY <3>1, FS_Subset, FS_AddElement DEF BudgetInv
    <3>3. \A q \in Outstanding' : q \in Outstanding /\ req'[q].est = req[q].est
      BY <2>1 DEF LimiterInv, TypeOK, Outstanding
    <3>4. Cardinality(EstTokens(Outstanding)') <= Budget
      BY <3>3, BudgetKept
    <3>5. QED BY <2>1, <3>2, <3>4 DEF BudgetInv
  <2>2. CASE /\ req' = [req EXCEPT ![r].status = "missed"]
             /\ UNCHANGED <<window, ttl, scored>>
    <3>1. \A q \in Outstanding' : q \in Outstanding /\ req'[q].est = req[q].est
      BY <2>2 DEF LimiterInv, TypeOK, Outstanding
    <3>2. Cardinality(EstTokens(Outstanding)') <= Budget
      BY <3>1, BudgetKept
    <3>3. QED BY <2>2, <3>2 DEF BudgetInv
  <2>3. QED BY <1>2, <2>1, <2>2, Zenon DEF Reconcile, Corrected
<1>3. ASSUME NEW r \in Requests, Fail(r)
      PROVE  BudgetInv'
  <2>1. \A q \in Outstanding' : q \in Outstanding /\ req'[q].est = req[q].est
    BY <1>3 DEF Fail, LimiterInv, TypeOK, Outstanding
  <2>2. Cardinality(EstTokens(Outstanding)') <= Budget
    BY <2>1, BudgetKept
  <2>3. QED BY <1>3, <2>2 DEF BudgetInv, Fail
<1>4. CASE Tick
  <2> DEFINE T == {[e EXCEPT !.age = Aged(@)] : e \in window}
             f == [e \in window |-> [e EXCEPT !.age = Aged(@)]]
  <2>1. f \in Surjection(window, T)
    BY DEF Surjection
  <2>2. IsFiniteSet(T)
    <3> HIDE DEF f, T
    <3>1. QED BY <2>1, FS_Surjection DEF BudgetInv
  <2>3. IsFiniteSet(window')
    <3>1. window' = {} \/ window' = T
      BY <1>4 DEF Tick
    <3>2. QED BY <2>2, <3>1, FS_EmptySet
  <2>4. \A q \in Outstanding' : q \in Outstanding /\ req'[q].est = req[q].est
    BY <1>4 DEF Tick, LimiterInv, TypeOK, Outstanding, Aged, MaxAge
  <2>5. Cardinality(EstTokens(Outstanding)') <= Budget
    BY <2>4, BudgetKept
  <2>6. QED BY <2>3, <2>5 DEF BudgetInv
<1>5. CASE UNCHANGED vars
  BY <1>5 DEF vars, BudgetInv, EstTokens, Outstanding
<1>6. QED BY <1>1, <1>2, <1>3, <1>4, <1>5 DEF Next

(* Concurrent requests of one key never hold more than its budget between     *)
(* them, whatever their number, the clocks of the replicas and the order of   *)
(* the scripts.                                                               *)
THEOREM BudgetIsKept == Spec => []OutstandingWithinBudget
<1>1. Init => BudgetInv
  <2> SUFFICES ASSUME Init
               PROVE  BudgetInv
    OBVIOUS
  <2>1. window = {} /\ Outstanding = {}
    BY DEF Init, Outstanding
  <2>2. EstTokens(Outstanding) = {}
    BY <2>1 DEF EstTokens
  <2>3. QED BY <2>1, <2>2, FS_EmptySet, LimiterAssumption DEF BudgetInv
<1>2. BudgetInv => OutstandingWithinBudget
  BY Zenon DEF BudgetInv, EstTokens, OutstandingWithinBudget
<1>3. QED BY <1>1, <1>2, LimiterSafe, NextBudget, PTL DEF Spec

=============================================================================
