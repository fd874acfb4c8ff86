------------------------ MODULE ConnectionPoolProofs ------------------------
(***************************************************************************)
(* Proofs about ConnectionPool for every number of requests, connections   *)
(* and sessions of a pipeline.                                             *)
(***************************************************************************)
EXTENDS ConnectionPool, FiniteSetTheorems, TLAPS

(* Who holds what: only a chat request has the session of get_session, which  *)
(* holds one connection; a connection of another session is in use only       *)
(* inside that session.                                                       *)
HeldByStep ==
  /\ \A r \in Requests : pc[r] # "session" => using[r] = {}
  /\ \A r \in Requests : pc[r] \in {"auth", "query"} \/ kept[r] # {} => r \in Chats
  /\ \A r \in Requests : \A c, d \in kept[r] : c = d

(* The inductive invariant: ConnectionsAccounted needs HeldByStep where a     *)
(* request ends with only one of its two sessions to close, SomeoneProceeds   *)
(* to count the connections of those that wait.                               *)
PoolInv == TypeOK /\ ConnectionsAccounted /\ HeldByStep

-----------------------------------------------------------------------------
(* Initially nothing is checked out.                                          *)
LEMMA InitInv == Init => PoolInv
  BY PoolAssumption
  DEF Init, PoolInv, TypeOK, Steps, ConnectionsAccounted, HeldByStep, Held

(* What every step of a request r has in common: the others keep what they    *)
(* hold, and r goes to `step' with the connections K and U, of which those it *)
(* did not hold were free.                                                    *)
Moves(r, step, n, K, U) ==
  /\ pc' = [pc EXCEPT ![r] = step] /\ step \in Steps
  /\ todo' = [todo EXCEPT ![r] = n] /\ n \in 0..MaxSessions
  /\ kept' = [kept EXCEPT ![r] = K] /\ K \subseteq Connections
  /\ using' = [using EXCEPT ![r] = U] /\ U \subseteq Connections
  /\ K \cup U \subseteq Held(r) \cup Free
  /\ K \cap U = {}
  /\ step \in {"idle", "done"} => K = {}
  /\ step # "session" => U = {}
  /\ step \in {"auth", "query"} \/ K # {} => r \in Chats
  /\ \A c, d \in K : c = d

(* Such a step preserves the invariant.                                       *)
LEMMA MovesInv ==
  ASSUME PoolInv, NEW r \in Requests, NEW step, NEW n, NEW K, NEW U,
         Moves(r, step, n, K, U)
  PROVE  PoolInv'
<1>1. TypeOK'
  BY DEF Moves, PoolInv, TypeOK
<1>2. \A q \in Requests \ {r} : Held(q)' = Held(q) /\ pc'[q] = pc[q]
                                /\ kept'[q] = kept[q] /\ using'[q] = using[q]
  BY DEF Moves, PoolInv, TypeOK, Held
<1>3. /\ Held(r)' = K \cup U
      /\ pc'[r] = step /\ kept'[r] = K /\ using'[r] = U
  BY DEF Moves, PoolInv, TypeOK, Held
<1>4. \A q \in Requests \ {r} : Held(q) \cap (K \cup U) = {}
  BY DEF Moves, PoolInv, ConnectionsAccounted, Free
<1>5. ConnectionsAccounted'
  <2>1. ASSUME NEW p \in Requests, NEW q \in Requests, p # q
        PROVE  (Held(p) \cap Held(q) = {})'
    <3>1. CASE p = r
      BY <1>2, <1>3, <1>4, <2>1, <3>1
    <3>2. CASE q = r
      BY <1>2, <1>3, <1>4, <2>1, <3>2
    <3>3. CASE p # r /\ q # r
      BY <1>2, <2>1, <3>3 DEF PoolInv, ConnectionsAccounted
    <3>4. QED BY <3>1, <3>2, <3>3
  <2>2. \A q \in Requests : kept'[q] \cap using'[q] = {}
    BY <1>2, <1>3 DEF Moves, PoolInv, ConnectionsAccounted
  <2>3. \A q \in Requests : pc'[q] \in {"idle", "done"} => Held(q)' = {}
    BY <1>2, <1>3 DEF Moves, PoolInv, ConnectionsAccounted
  <2>4. QED BY <2>1, <2>2, <2>3 DEF ConnectionsAccounted
<1>6. HeldByStep'
  BY <1>2, <1>3 DEF Moves, PoolInv, HeldByStep
<1>7. QED BY <1>1, <1>5, <1>6 DEF PoolInv

(* Every step of the requests preserves the invariant.                        *)
LEMMA NextInv == PoolInv /\ [Next]_vars => PoolInv'
<1> SUFFICES ASSUME PoolInv, [Next]_vars PROVE PoolInv'
  OBVIOUS
<1>a. ASSUME NEW r \in Requests
      PROVE  /\ pc[r] \in Steps /\ todo[r] \in 0..MaxSessions
             /\ kept[r] \in SUBSET Connections /\ using[r] \in SUBSET Connections
             /\ pc[r] # "session" => using[r] = {}
             /\ pc[r] \in {"auth", "query"} \/ kept[r] # {} => r \in Chats
             /\ \A c, d \in kept[r] : c = d
             /\ kept[r] \cap using[r] = {}
             /\ pc[r] \in {"idle", "done"} => kept[r] = {} /\ using[r] = {}
             /\ todo = [todo EXCEPT ![r] = todo[r]]
             /\ kept = [kept EXCEPT ![r] = kept[r]]
             /\ using = [using EXCEPT ![r] = using[r]]
             /\ Held(r) = kept[r] \cup using[r]
  BY DEF PoolInv, TypeOK, ConnectionsAccounted, HeldByStep, Held
<1>b. 0 \in 0..MaxSessions /\ Free \subseteq Connections
  BY PoolAssumption DEF Free
<1>1. ASSUME NEW r \in Requests, MissingKey(r)
      PROVE  PoolInv'
  <2>1. Moves(r, "done", todo[r], kept[r], using[r])
    BY <1>a, <1>b, <1>1 DEF MissingKey, Goto, Moves, Steps
  <2>2. QED BY <2>1, MovesInv
<1>2. ASSUME NEW r \in Requests, Authenticate(r)
      PROVE  PoolInv'
  <2>1. Moves(r, "auth", todo[r], kept[r], using[r])
    BY <1>a, <1>b, <1>2 DEF Authenticate, Goto, Moves, Steps
  <2>2. QED BY <2>1, MovesInv
<1>3. ASSUME NEW r \in Requests, Abort(r)
      PROVE  PoolInv'
  <2>1. Moves(r, "done", 0, {}, {})
    BY <1>a, <1>b, <1>3 DEF Abort, Left, Goto, Moves, Steps
  <2>2. QED BY <2>1, MovesInv
<1>4. ASSUME NEW r \in Requests, NEW n \in 0..MaxSessions, Begin(r, n)
      PROVE  PoolInv'
  <2>1. Moves(r, "run", n, kept[r], using[r])
    BY <1>a, <1>b, <1>4 DEF Begin, Goto, Moves, Steps
  <2>2. QED BY <2>1, MovesInv
<1>5. ASSUME NEW r \in Requests, NEW c \in Connections, CheckOutKept(r, c)
      PROVE  PoolInv'
  <2>1. Moves(r, "query", todo[r], {c}, using[r])
    BY <1>a, <1>b, <1>5 DEF CheckOutKept, Goto, Moves, Steps
  <2>2. QED BY <2>1, MovesInv
<1>6. ASSUME NEW r \in Requests, NEW c \in Connections, CheckOut(r, c)
      PROVE  PoolInv'
  <2>1. Moves(r, "session", todo[r], kept[r], {c})
    BY <1>a, <1>b, <1>6 DEF CheckOut, Free, Goto, Moves, Steps
  <2>2. QED BY <2>1, MovesInv
<1>7. ASSUME NEW r \in Requests, InvalidKey(r)
      PROVE  PoolInv'
  <2>1. Moves(r, "done", todo[r], {}, using[r])
    BY <1>a, <1>b, <1>7 DEF InvalidKey, Goto, Moves, Steps
  <2>2. QED BY <2>1, MovesInv
<1>8. ASSUME NEW r \in Requests, NEW n \in 0..MaxSessions, NEW streams \in BOOLEAN,
             Accept(r, n, streams)
      PROVE  PoolInv'
  <2>1. Moves(r, "run", n, IF streams THEN {} ELSE kept[r], using[r])
    BY <1>a, <1>b, <1>8 DEF Accept, Goto, Moves, Steps
  <2>2. QED BY <2>1, MovesInv
<1>9. ASSUME NEW r \in Requests, Open(r)
      PROVE  PoolInv'
  <2>1. todo[r] - 1 \in 0..MaxSessions
    BY <1>a, <1>9, PoolAssumption DEF Open
  <2>2. Moves(r, "wait", todo[r] - 1, kept[r], using[r])
    BY <1>a, <1>b, <1>9, <2>1 DEF Open, Goto, Moves, Steps
  <2>3. QED BY <2>2, MovesInv
<1>10. ASSUME NEW r \in Requests, CheckIn(r)
       PROVE  PoolInv'
  <2>1. Moves(r, "run", todo[r], kept[r], {})
    BY <1>a, <1>b, <1>10 DEF CheckIn, Goto, Moves, Steps
  <2>2. QED BY <2>1, MovesInv
<1>11. ASSUME NEW r \in Requests, Finish(r)
       PROVE  PoolInv'
  <2>1. Moves(r, "done", todo[r], {}, using[r])
    BY <1>a, <1>b, <1>11 DEF Finish, Goto, Moves, Steps
  <2>2. QED BY <2>1, MovesInv
<1>12. CASE UNCHANGED vars
  BY <1>12 DEF vars, PoolInv, TypeOK, ConnectionsAccounted, HeldByStep, Held
<1>13. QED
  BY <1>1, <1>2, <1>3, <1>4, <1>5, <1>6, <1>7, <1>8, <1>9, <1>10, <1>11, <1>12
  DEF Next, Step

-----------------------------------------------------------------------------
(* The whole inductive invariant holds in every reachable state.              *)
THEOREM PoolSafe == Spec => []PoolInv
  BY InitInv, NextInv, PTL DEF Spec

(* The requests' steps and what they hold keep their types.                   *)
THEOREM PoolTypeCorrect == Spec => []TypeOK
<1>1. PoolInv => TypeOK BY DEF PoolInv
<1>2. QED BY <1>1, PoolSafe, PTL

(* No connection is in two sessions at once, and none outlives its request.   *)
THEOREM NoConnectionLost == Spec => []ConnectionsAccounted
<1>1. PoolInv => ConnectionsAccounted BY DEF PoolInv
<1>2. QED BY <1>1, PoolSafe, PTL

(* Everyone waiting on everyone takes a chat request for every connection.    *)
LEMMA SomeoneOutsideWait == PoolInv => SomeoneProceeds
<1> SUFFICES ASSUME PoolInv,
                    Cardinality(Chats) < Cardinality(Connections), Free = {},
                    \A r \in Requests : Held(r) # {} => pc[r] = "wait"
             PROVE  FALSE
  BY DEF SomeoneProceeds
<1>1. \A c \in Connections : \E r \in Chats : c \in kept[r]
  <2> SUFFICES ASSUME NEW c \in Connections PROVE \E r \in Chats : c \in kept[r]
    OBVIOUS
  <2>1. PICK r \in Requests : c \in Held(r)
    BY DEF Free
  <2>2. using[r] = {}
    BY <2>1 DEF PoolInv, HeldByStep
  <2>3. QED BY <2>1, <2>2 DEF Held, PoolInv, HeldByStep
<1> DEFINE keeper == [c \in Connections |-> CHOOSE r \in Chats : c \in kept[r]]
<1>2. keeper \in [Connections -> Chats]
  BY <1>1
<1>3. PICK c, d \in Connections : c # d /\ keeper[c] = keeper[d]
  <2> HIDE DEF keeper
  <2>1. QED BY <1>2, FS_PigeonHole, PoolAssumption
<1>4. c \in kept[keeper[c]] /\ d \in kept[keeper[c]]
  BY <1>1, <1>3
<1>5. keeper[c] \in Requests
  BY <1>2 DEF Requests
<1>6. QED
  <2> HIDE DEF keeper
  <2>1. QED BY <1>3, <1>4, <1>5 DEF PoolInv, HeldByStep

(* With more connections than concurrent chat requests the pool never has     *)
(* everyone waiting on everyone, whatever the numbers are.                    *)
THEOREM NoDeadlock == Spec => []SomeoneProceeds
  BY PoolSafe, SomeoneOutsideWait, PTL

=============================================================================
