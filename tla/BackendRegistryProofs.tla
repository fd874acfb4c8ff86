----------------------- MODULE BackendRegistryProofs ------------------------
(***************************************************************************)
(* Proofs about BackendRegistry for every number of replicas, admin calls, *)
(* backends and requests, and tables of every length.                      *)
(***************************************************************************)
EXTENDS BackendRegistry, TLAPS

(* A load that has not swapped yet has made no client and has none to close;  *)
(* the table it has read, or will read, holds the upsert that started it.     *)
LoadsInOrder ==
  \A l \in Loads :
    /\ load[l].upto <= Len(history)
    /\ load[l].stage # "idle" => load[l].at \in Replicas
    /\ load[l].stage \in {"idle", "read", "swap"} =>
         load[l].old = {} /\ \A c \in built : c.by # l
    /\ l \in Admins /\ load[l].stage = "read" =>
         \E i \in 1..Len(history) : history[i].by = l
    /\ l \in Admins /\ load[l].stage = "swap" =>
         \E i \in 1..load[l].upto : history[i].by = l

(* A pool that is not empty was made by a load of its own replica.            *)
PoolsOwned ==
  \A p \in Replicas :
    IF pool[p].by = None
    THEN pool[p].upto = 0
    ELSE /\ load[pool[p].by].at = p
         /\ load[pool[p].by].stage \notin {"idle", "read", "swap"}

(* A replica does not stop before the loads that run in it have ended.        *)
LoadsServed ==
  /\ \A p \in Replicas : load[p].at = p
  /\ \A l \in Loads :
       load[l].stage \in {"read", "swap", "close"} =>
         load[load[l].at].stage \notin {"stop", "down"}

(* The inductive invariant: ClientsAccounted needs LoadsInOrder so that the   *)
(* clients of a swap are new, PoolsOwned so that replicas share none, and     *)
(* LoadsServed so that those it replaces are not closed yet.                  *)
RegistryInv ==
  /\ TypeOK
  /\ LoadsInOrder
  /\ PoolsOwned
  /\ LoadsServed
  /\ ClientsAccounted
  /\ ReadsOwnWrite

(* What TypeOK says of the loads.                                             *)
LoadRecords == [stage: Stages, at: Replicas \cup {None}, upto: Nat,
                old: SUBSET Clients, lost: SUBSET Clients]

LoadsTyped == load \in [Loads -> LoadRecords]

-----------------------------------------------------------------------------
(* No rows, no clients.                                                       *)
LEMMA NoRows == ASSUME NEW by PROVE ClientsOf(by, 0) = {}
<1>1. \A i \in 1..0 : FALSE
  OBVIOUS
<1>2. QED BY <1>1 DEF ClientsOf

(* What is in a pool was made by the load the pool is of.                     *)
LEMMA PoolClients ==
  ASSUME RegistryInv, NEW p \in Replicas
  PROVE  /\ InPool(p) \subseteq Clients
         /\ \A c \in InPool(p) : c.by = pool[p].by /\ c.by # None
         /\ InPool(p) \subseteq built
<1>1. \A c \in InPool(p) : c.by = pool[p].by
  BY DEF InPool, ClientsOf
<1>2. pool[p].by = None => InPool(p) = {}
  BY DEF RegistryInv, PoolsOwned, InPool, ClientsOf
<1>3. InPool(p) \subseteq Clients
  <2>1. CASE pool[p].by = None
    BY <1>2, <2>1
  <2>2. CASE pool[p].by # None
    <3>1. pool[p].by \in Loads /\ pool[p].upto \in 0..Len(history)
      BY <2>2 DEF RegistryInv, TypeOK
    <3>2. \A i \in 1..Len(history) : history[i] \in Upserts
      BY DEF RegistryInv, TypeOK
    <3>3. \A i \in 1..pool[p].upto : history[i].backend \in Backends
      BY <3>1, <3>2 DEF RegistryInv, TypeOK, Upserts
    <3>4. QED BY <3>1, <3>3 DEF InPool, ClientsOf, Clients
  <2>3. QED BY <2>1, <2>2
<1>4. InPool(p) \subseteq built
  BY DEF RegistryInv, ClientsAccounted
<1>5. QED BY <1>1, <1>2, <1>3, <1>4

(* So the pools of two replicas have no client in common.                     *)
LEMMA PoolsDisjoint ==
  ASSUME RegistryInv, NEW p \in Replicas, NEW q \in Replicas, p # q
  PROVE  InPool(p) \cap InPool(q) = {}
<1> SUFFICES ASSUME NEW c \in InPool(p), c \in InPool(q) PROVE FALSE
  OBVIOUS
<1>1. c.by = pool[p].by /\ c.by = pool[q].by /\ c.by # None
  BY PoolClients
<1>2. load[c.by].at = p /\ load[c.by].at = q
  BY <1>1 DEF RegistryInv, PoolsOwned
<1>3. QED BY <1>2

(* A step that leaves the rows of the pools in place leaves the clients.      *)
LEMMA PoolsKept ==
  ASSUME RegistryInv, NEW p \in Replicas, pool'[p] = pool[p],
         \A i \in 1..Len(history) : history'[i] = history[i]
  PROVE  InPool(p)' = InPool(p)
<1>1. pool[p].upto \in 0..Len(history)
  BY DEF RegistryInv, TypeOK
<1>2. \A i \in 1..pool[p].upto : history'[i] = history[i]
  BY <1>1
<1>3. QED BY <1>2 DEF InPool, ClientsOf

(* Initially no client exists and no upsert is committed.                     *)
LEMMA InitInv == Init => RegistryInv
<1> SUFFICES ASSUME Init PROVE RegistryInv
  OBVIOUS
<1>1. TypeOK
  <2>1. history \in Seq(Upserts) /\ Len(history) = 0
    BY DEF Init
  <2>2. QED BY <2>1 DEF Init, TypeOK, Loads, Stages, Clients, Empty
<1>2. LoadsInOrder /\ PoolsOwned /\ LoadsServed /\ ReadsOwnWrite
  <2>1. Len(history) = 0 /\ built = {}
    BY DEF Init
  <2>2. \A l \in Loads : /\ load[l].upto = 0 /\ load[l].old = {}
                         /\ load[l].stage \in {"idle", "read"}
                         /\ load[l].stage = "read" => l \in Replicas /\ load[l].at = l
    BY DEF Init, Loads
  <2>3. \A p \in Replicas : /\ pool[p].by = None /\ pool[p].upto = 0
                            /\ load[p].stage = "read" /\ load[p].at = p
    BY DEF Init, Empty, Loads
  <2>4. QED
    BY <2>1, <2>2, <2>3, RegistryAssumption
    DEF LoadsInOrder, PoolsOwned, LoadsServed, ReadsOwnWrite, Loads
<1>3. \A p \in Replicas : InPool(p) = {}
  <2>1. \A p \in Replicas : pool[p].upto = 0
    BY DEF Init, Empty
  <2>2. QED BY <2>1, NoRows DEF InPool
<1>4. ClientsAccounted
  <2>1. \A l \in Loads : load[l].old = {} /\ load[l].lost = {}
    BY DEF Init
  <2>2. \A l \in Loads : Open(l) = {} /\ ForgetsOnFailure(l)
    BY <2>1 DEF Open, ForgetsOnFailure
  <2>3. QED BY <1>3, <2>2 DEF Init, ClientsAccounted
<1>5. QED BY <1>1, <1>2, <1>4 DEF RegistryInv

(* A load that has not swapped has no client at all.                          *)
LEMMA NothingOpen ==
  ASSUME RegistryInv, NEW l \in Loads, load[l].stage \in {"idle", "read", "swap"}
  PROVE  Open(l) = {} /\ load[l].old = {} /\ load[l].lost = {}
         /\ \A c \in built : c.by # l
  BY DEF RegistryInv, LoadsInOrder, ClientsAccounted, ForgetsOnFailure, Open

(* A step that moves no client keeps the account of them.                     *)
LEMMA AccountKept ==
  ASSUME RegistryInv,
         \A p \in Replicas : InPool(p)' = InPool(p),
         \A p \in Replicas : load[p].stage \in {"stop", "down"} =>
                               load'[p].stage \in {"stop", "down"},
         \A l \in Loads : Open(l)' = Open(l) /\ ForgetsOnFailure(l)',
         closed' = closed, built' = built
  PROVE  ClientsAccounted'
<1>1. UNION {InPool(p)' : p \in Replicas} = UNION {InPool(p) : p \in Replicas}
  OBVIOUS
<1>2. UNION {Open(l)' : l \in Loads} = UNION {Open(l) : l \in Loads}
  OBVIOUS
<1>3. QED BY <1>1, <1>2 DEF RegistryInv, ClientsAccounted

-----------------------------------------------------------------------------
(* The endpoint commits its upsert: the tables that were read stay prefixes.  *)
LEMMA UpsertInv ==
  ASSUME RegistryInv, NEW a \in Admins, NEW p \in Replicas, NEW b \in Backends,
         NEW usable \in BOOLEAN, Upsert(a, p, b, usable)
  PROVE  RegistryInv'
<1>1. /\ history' \in Seq(Upserts) /\ Len(history') = Len(history) + 1
      /\ Len(history) \in Nat
      /\ \A i \in 1..Len(history) : history'[i] = history[i]
      /\ history'[Len(history) + 1].by = a
  BY DEF Upsert, RegistryInv, TypeOK, Upserts
<1> a \in Loads
  BY DEF Loads
<1>2. /\ load[a].stage = "idle"
      /\ \A l \in Loads \ {a} : load'[l] = load[l]
      /\ LoadsTyped'
  <2>1. [load[a] EXCEPT !.stage = "read", !.at = p] \in LoadRecords
    BY DEF LoadRecords, Upsert, RegistryInv, TypeOK, Stages
  <2>2. load' = [load EXCEPT ![a] = [load[a] EXCEPT !.stage = "read", !.at = p]]
    BY DEF Upsert, RegistryInv, TypeOK
  <2>3. QED BY <2>1, <2>2 DEF LoadsTyped, LoadRecords, Upsert, RegistryInv, TypeOK
<1>3. /\ load'[a].stage = "read" /\ load'[a].at = p
      /\ load'[a].upto = load[a].upto /\ load'[a].old = load[a].old
      /\ load'[a].lost = load[a].lost
  BY DEF Upsert, RegistryInv, TypeOK
<1>4. UNCHANGED <<pool, held, closed, built>>
  BY DEF Upsert
<1>5. TypeOK'
  <2>1. 0..Len(history) \subseteq 0..Len(history')
    BY <1>1
  <2>2. pool' \in [Replicas -> [by: Loads \cup {None}, upto: 0..Len(history')]]
    BY <1>4, <2>1 DEF RegistryInv, TypeOK
  <2>3. QED BY <1>1, <1>2, <1>4, <2>2 DEF LoadsTyped, LoadRecords, RegistryInv, TypeOK
<1>6. LoadsInOrder'
  <2> SUFFICES ASSUME NEW l \in Loads
               PROVE  (/\ load[l].upto <= Len(history)
                       /\ load[l].stage # "idle" => load[l].at \in Replicas
                       /\ load[l].stage \in {"idle", "read", "swap"} =>
                            load[l].old = {} /\ \A c \in built : c.by # l
                       /\ l \in Admins /\ load[l].stage = "read" =>
                            \E i \in 1..Len(history) : history[i].by = l
                       /\ l \in Admins /\ load[l].stage = "swap" =>
                            \E i \in 1..load[l].upto : history[i].by = l)'
    BY DEF LoadsInOrder
  <2>1. load[l].upto \in Nat /\ load[l].upto <= Len(history)
    BY DEF RegistryInv, TypeOK, LoadsInOrder
  <2>2. CASE l = a
    <3>1. Len(history) + 1 \in 1..Len(history') /\ load[l].upto <= Len(history')
      BY <1>1, <2>1
    <3>2. load[l].old = {} /\ \A c \in built : c.by # l
      BY <1>2, <2>2 DEF RegistryInv, LoadsInOrder
    <3>3. QED BY <1>1, <1>3, <1>4, <2>2, <3>1, <3>2
  <2>3. CASE l # a
    <3>1. load'[l] = load[l]
      BY <1>2, <2>3
    <3>2. 1..Len(history) \subseteq 1..Len(history') /\ load[l].upto <= Len(history')
          /\ 1..load[l].upto \subseteq 1..Len(history)
      BY <1>1, <2>1
    <3>3. QED BY <1>1, <1>4, <3>1, <3>2 DEF RegistryInv, LoadsInOrder
  <2>4. QED BY <2>2, <2>3
<1>7. PoolsOwned'
  <2>1. \A q \in Replicas : pool[q].by # None => pool[q].by \in Loads \ {a}
    BY <1>2 DEF RegistryInv, PoolsOwned, TypeOK
  <2>2. QED BY <1>2, <1>4, <2>1 DEF RegistryInv, PoolsOwned
<1>8. ClientsAccounted'
  <2>1. \A q \in Replicas : InPool(q)' = InPool(q)
    BY <1>1, <1>4, PoolsKept
  <2>2. \A l \in Loads : load'[l].old = load[l].old /\ load'[l].lost = load[l].lost
    BY <1>2, <1>3
  <2>3. \A l \in Loads : Open(l)' = Open(l)
    BY <2>2 DEF Open
  <2>4. \A l \in Loads : ForgetsOnFailure(l)'
    BY <1>2, <1>3 DEF RegistryInv, ClientsAccounted, ForgetsOnFailure
  <2>5. \A q \in Replicas : q # a /\ q \in Loads
    BY RegistryAssumption DEF Loads
  <2>6. QED BY <1>2, <1>4, <2>1, <2>3, <2>4, <2>5, AccountKept
<1>11. LoadsServed'
  <2>1. \A q \in Replicas : q \in Loads \ {a} /\ load'[q] = load[q]
    BY <1>2, RegistryAssumption DEF Loads
  <2>2. load[p].stage \in {"done", "failed"}
    BY DEF Upsert, Serving
  <2>3. \A l \in Loads \ {a} : load[l].stage # "idle" => load[l].at \in Replicas
    BY DEF RegistryInv, LoadsInOrder
  <2>4. QED BY <1>2, <1>3, <2>1, <2>2, <2>3 DEF RegistryInv, LoadsServed
<1>9. ReadsOwnWrite'
  <2> SUFFICES ASSUME NEW d \in Admins, load'[d].stage \in {"close", "done"}
               PROVE  \E i \in 1..load'[d].upto : history'[i].by = d
    BY DEF ReadsOwnWrite
  <2>1. d # a /\ d \in Loads /\ load'[d] = load[d]
    BY <1>2, <1>3 DEF Loads
  <2>2. PICK i \in 1..load[d].upto : history[i].by = d
    BY <2>1 DEF RegistryInv, ReadsOwnWrite
  <2>3. i \in 1..Len(history)
    BY <2>1 DEF RegistryInv, TypeOK, LoadsInOrder
  <2>4. QED BY <1>1, <2>1, <2>2, <2>3
<1>10. QED BY <1>5, <1>6, <1>7, <1>8, <1>9, <1>11 DEF RegistryInv

(* A step in which the load l advances and no pool, client or row changes.    *)
Advances(l, step, n) ==
  /\ load'[l].stage = step /\ load'[l].at = load[l].at
  /\ load'[l].upto = n /\ Open(l)' = Open(l) /\ ForgetsOnFailure(l)'
  /\ \A m \in Loads \ {l} : load'[m] = load[m]
  /\ LoadsTyped'
  /\ UNCHANGED <<history, pool, held, closed, built>>
  /\ step \in {"swap", "done", "failed"} /\ n \in 0..Len(history)
  /\ load[l].stage \in {"read", "swap", "close"}
  /\ step = "swap" => load[l].stage = "read"
  /\ l \in Admins /\ step # "failed" => \E i \in 1..n : history[i].by = l

(* Such a step preserves the invariant.                                       *)
LEMMA AdvanceInv ==
  ASSUME RegistryInv, NEW l \in Loads, NEW step, NEW n, Advances(l, step, n)
  PROVE  RegistryInv'
<1>1. /\ load'[l].stage = step /\ load'[l].at = load[l].at
      /\ load'[l].upto = n
      /\ \A m \in Loads \ {l} : load'[m] = load[m]
  BY DEF Advances, RegistryInv, TypeOK
<1>2. step \in {"swap", "done", "failed"} /\ n \in 0..Len(history)
      /\ Len(history) \in Nat
      /\ load[l].stage \in {"read", "swap", "close"}
      /\ UNCHANGED <<history, pool, held, closed, built>>
  BY DEF Advances, RegistryInv, TypeOK
<1>3. TypeOK'
  BY <1>2 DEF Advances, LoadsTyped, LoadRecords, RegistryInv, TypeOK
<1>4. LoadsInOrder'
  <2>1. n <= Len(history) /\ load[l].at \in Replicas
    BY <1>2 DEF RegistryInv, LoadsInOrder
  <2>2. step = "swap" => load'[l].old = {} /\ \A c \in built : c.by # l
    BY <1>1 DEF Advances, RegistryInv, LoadsInOrder, ForgetsOnFailure
  <2>3. l \in Admins /\ step = "swap" => \E i \in 1..n : history[i].by = l
    BY DEF Advances
  <2>4. QED BY <1>1, <1>2, <2>1, <2>2, <2>3 DEF RegistryInv, LoadsInOrder
<1>5. PoolsOwned'
  <2> SUFFICES ASSUME NEW p \in Replicas, pool[p].by # None
               PROVE  /\ load'[pool[p].by].at = p
                      /\ load'[pool[p].by].stage \notin {"idle", "read", "swap"}
    BY <1>2 DEF RegistryInv, PoolsOwned
  <2>1. /\ pool[p].by \in Loads /\ load[pool[p].by].at = p
        /\ load[pool[p].by].stage \notin {"idle", "read", "swap"}
    BY DEF RegistryInv, TypeOK, PoolsOwned
  <2>2. QED BY <1>1, <1>2, <2>1 DEF Advances
<1>6. ClientsAccounted'
  <2>1. \A q \in Replicas : InPool(q)' = InPool(q)
    BY <1>2, PoolsKept
  <2>2. \A m \in Loads : Open(m)' = Open(m) /\ ForgetsOnFailure(m)'
    BY <1>1
    DEF Advances, Open, RegistryInv, ClientsAccounted, ForgetsOnFailure
  <2>3. \A q \in Replicas : load[q].stage \in {"stop", "down"} => load'[q] = load[q]
    BY <1>1, <1>2 DEF Loads
  <2>4. QED BY <1>2, <2>1, <2>2, <2>3, AccountKept
<1>9. LoadsServed'
  <2>1. \A m \in Loads : load'[m].at = load[m].at
    BY <1>1
  <2>2. \A m \in Loads : load'[m].stage \in {"read", "swap", "close"} =>
          load[m].stage \in {"read", "swap", "close"}
    BY <1>1, <1>2
  <2>3. \A m \in Loads : load[m].stage \notin {"stop", "down"} =>
          load'[m].stage \notin {"stop", "down"}
    BY <1>1, <1>2
  <2>4. \A m \in Loads : load[m].stage # "idle" => load[m].at \in Loads
    BY DEF RegistryInv, LoadsInOrder, Loads
  <2>5. QED BY <2>1, <2>2, <2>3, <2>4 DEF RegistryInv, LoadsServed, Loads
<1>7. ReadsOwnWrite'
  <2>1. Admins \subseteq Loads
    BY DEF Loads
  <2>2. l \in Admins /\ step # "failed" => \E i \in 1..n : history[i].by = l
    BY DEF Advances
  <2>3. QED BY <1>1, <1>2, <2>1, <2>2 DEF RegistryInv, ReadsOwnWrite
<1>8. QED BY <1>3, <1>4, <1>5, <1>6, <1>7, <1>9 DEF RegistryInv

(* reload() swaps: its clients are new, those it replaced are now its to      *)
(* close and nobody else's.                                                   *)
LEMMA SwapInv ==
  ASSUME RegistryInv, NEW l \in Loads, Swap(l)
  PROVE  RegistryInv'
<1>0. PICK p \in Replicas : p = load[l].at
  BY DEF Swap, RegistryInv, LoadsInOrder
<1> DEFINE new == ClientsOf(l, load[l].upto)
<1>1. /\ load[l].stage = "swap"
      /\ load[l].upto \in 0..Len(history) /\ Len(history) \in Nat
      /\ Open(l) = {} /\ load[l].lost = {} /\ \A c \in built : c.by # l
  BY NothingOpen DEF Swap, RegistryInv, TypeOK, LoadsInOrder
<1>2. UNCHANGED <<history, held, closed>> /\ built' = built \cup new
  BY DEF Swap
<1>3. /\ load'[l].stage = "close" /\ load'[l].at = p
      /\ load'[l].upto = load[l].upto /\ load'[l].old = InPool(p)
      /\ load'[l].lost = load[l].lost
      /\ \A m \in Loads \ {l} : load'[m] = load[m]
  BY <1>0 DEF Swap, OldClients, RegistryInv, TypeOK
<1>4. /\ pool'[p].by = l /\ pool'[p].upto = load[l].upto
      /\ \A q \in Replicas \ {p} : pool'[q] = pool[q]
  BY <1>0, <1>1 DEF Swap, RegistryInv, TypeOK
<1>5. new \subseteq Clients /\ (\A c \in new : c.by = l)
  <2>1. \A i \in 1..Len(history) : history[i] \in Upserts
    BY DEF RegistryInv, TypeOK
  <2>2. \A i \in 1..load[l].upto : history[i].backend \in Backends
    BY <1>1, <2>1 DEF Upserts
  <2>3. QED BY <2>2 DEF ClientsOf, Clients
<1>6. new \cap built = {}
  BY <1>1, <1>5
<1>7. /\ InPool(p)' = new
      /\ \A q \in Replicas \ {p} : InPool(q)' = InPool(q)
  <2>1. InPool(p)' = new
    BY <1>2, <1>4 DEF InPool, ClientsOf
  <2>2. QED BY <1>2, <1>4, <2>1, PoolsKept
<1>8. TypeOK'
  <2>1. InPool(p) \subseteq Clients
    BY <1>1, PoolClients
  <2>2. LoadsTyped'
    <3>1. [load[l] EXCEPT !.stage = "close", !.old = InPool(p)]
            \in [stage: Stages, at: Replicas \cup {None}, upto: Nat,
                 old: SUBSET Clients, lost: SUBSET Clients]
      BY <2>1 DEF RegistryInv, TypeOK, Stages
    <3>2. QED BY <1>0, <3>1 DEF LoadsTyped, LoadRecords, Swap, OldClients, RegistryInv, TypeOK
  <2>3. pool' \in [Replicas -> [by: Loads \cup {None}, upto: 0..Len(history')]]
    BY <1>1, <1>2 DEF Swap, RegistryInv, TypeOK
  <2>4. QED BY <1>2, <1>5, <2>2, <2>3 DEF LoadsTyped, LoadRecords, RegistryInv, TypeOK
<1>9. LoadsInOrder'
  <2> SUFFICES ASSUME NEW m \in Loads
               PROVE  (/\ load[m].upto <= Len(history)
                       /\ load[m].stage # "idle" => load[m].at \in Replicas
                       /\ load[m].stage \in {"idle", "read", "swap"} =>
                            load[m].old = {} /\ \A c \in built : c.by # m
                       /\ m \in Admins /\ load[m].stage = "read" =>
                            \E i \in 1..Len(history) : history[i].by = m
                       /\ m \in Admins /\ load[m].stage = "swap" =>
                            \E i \in 1..load[m].upto : history[i].by = m)'
    BY DEF LoadsInOrder
  <2>1. CASE m = l
    BY <1>1, <1>2, <1>3, <2>1
  <2>2. CASE m # l
    <3>1. load'[m] = load[m] /\ \A c \in new : c.by # m
      BY <1>3, <1>5, <2>2
    <3>2. QED BY <1>2, <3>1 DEF RegistryInv, LoadsInOrder
  <2>3. QED BY <2>1, <2>2
<1>10. PoolsOwned'
  <2> SUFFICES ASSUME NEW q \in Replicas
               PROVE  (IF pool[q].by = None
                       THEN pool[q].upto = 0
                       ELSE /\ load[pool[q].by].at = q
                            /\ load[pool[q].by].stage \notin {"idle", "read", "swap"})'
    BY DEF PoolsOwned
  <2>1. CASE q = p
    BY <1>3, <1>4, <2>1, RegistryAssumption
  <2>2. CASE q # p
    <3>1. pool'[q] = pool[q]
      BY <1>4, <2>2
    <3>2. pool[q].by # None => pool[q].by \in Loads \ {l}
      BY <1>1 DEF RegistryInv, TypeOK, PoolsOwned
    <3>3. QED BY <1>3, <3>1, <3>2 DEF RegistryInv, PoolsOwned
  <2>3. QED BY <2>1, <2>2
<1>11. ClientsAccounted'
  <2> HIDE DEF new
  <2>1. UNION {InPool(q)' : q \in Replicas}
          = new \cup (UNION {InPool(q) : q \in Replicas \ {p}})
    BY <1>1, <1>7
  <2>2. Open(l)' = InPool(p) /\ \A m \in Loads \ {l} : Open(m)' = Open(m)
    BY <1>1, <1>3 DEF Open
  <2>11. UNION {Open(m)' : m \in Loads} = InPool(p) \cup (UNION {Open(m) : m \in Loads})
    BY <1>1, <2>2
  <2>3. UNION {InPool(q) : q \in Replicas}
          = InPool(p) \cup (UNION {InPool(q) : q \in Replicas \ {p}})
    BY <1>1
  <2>4. built' = (UNION {InPool(q)' : q \in Replicas})
                   \cup (UNION {Open(m)' : m \in Loads}) \cup closed'
    BY <1>2, <2>1, <2>3, <2>11 DEF RegistryInv, ClientsAccounted
  <2>5. /\ InPool(p) \subseteq built /\ closed \subseteq built
        /\ \A m \in Loads : Open(m) \subseteq built
        /\ \A q \in Replicas \ {p} : InPool(p) \cap InPool(q) = {}
    BY <1>1, PoolsDisjoint DEF RegistryInv, ClientsAccounted
  <2>6. InPool(p) \cap closed = {}
    BY <1>0, <1>1 DEF RegistryInv, LoadsServed, ClientsAccounted
  <2>7. \A q \in Replicas : load'[q].stage \notin {"stop", "down"} =>
          InPool(q)' \cap closed' = {}
    <3>1. \A q \in Replicas : load'[q].stage \notin {"stop", "down"} =>
            load[q].stage \notin {"stop", "down"}
      BY <1>1, <1>3 DEF Loads
    <3>2. QED BY <1>2, <1>6, <1>7, <2>5, <3>1 DEF RegistryInv, ClientsAccounted
  <2>8. \A m \in Loads : Open(m)' \cap closed' = {}
    BY <1>2, <2>2, <2>6 DEF RegistryInv, ClientsAccounted
  <2>9. \A m \in Loads, q \in Replicas : Open(m)' \cap InPool(q)' = {}
    BY <1>6, <1>7, <2>2, <2>5 DEF RegistryInv, ClientsAccounted
  <2>10. \A m, k \in Loads : m # k => Open(m)' \cap Open(k)' = {}
    BY <2>2 DEF RegistryInv, ClientsAccounted
  <2>12. \A m \in Loads : ForgetsOnFailure(m)'
    BY <1>1, <1>3 DEF RegistryInv, ClientsAccounted, ForgetsOnFailure
  <2>13. QED BY <2>4, <2>7, <2>8, <2>9, <2>10, <2>12 DEF ClientsAccounted
<1>12. ReadsOwnWrite'
  <2>1. Admins \subseteq Loads
    BY DEF Loads
  <2>2. l \in Admins => \E i \in 1..load[l].upto : history[i].by = l
    BY <1>1 DEF RegistryInv, LoadsInOrder
  <2>3. QED BY <1>2, <1>3, <2>1, <2>2 DEF RegistryInv, ReadsOwnWrite
<1>13. LoadsServed'
  <2>1. \A m \in Loads : load'[m].at = load[m].at
    BY <1>0, <1>3
  <2>2. \A m \in Loads : load'[m].stage \in {"read", "swap", "close"} =>
          load[m].stage \in {"read", "swap", "close"}
    BY <1>1, <1>3
  <2>3. \A m \in Loads : load[m].stage \notin {"stop", "down"} =>
          load'[m].stage \notin {"stop", "down"}
    BY <1>1, <1>3
  <2>4. \A m \in Loads : load[m].stage # "idle" => load[m].at \in Loads
    BY DEF RegistryInv, LoadsInOrder, Loads
  <2>5. QED BY <2>1, <2>2, <2>3, <2>4 DEF RegistryInv, LoadsServed, Loads
<1>14. QED BY <1>8, <1>9, <1>10, <1>11, <1>12, <1>13 DEF RegistryInv

(* A reload that fails at a bad row: the clients it made are new, in no pool, *)
(* and stay open.                                                             *)
LEMMA ConfigErrorInv ==
  ASSUME RegistryInv, NEW l \in Loads, NEW made, ConfigError(l, made)
  PROVE  RegistryInv'
<1>1. /\ load[l].stage = "swap"
      /\ load[l].upto \in 0..Len(history) /\ Len(history) \in Nat
      /\ Open(l) = {} /\ load[l].old = {} /\ \A c \in built : c.by # l
  BY NothingOpen DEF ConfigError, RegistryInv, TypeOK, LoadsInOrder
<1>2. UNCHANGED <<history, pool, held, closed>> /\ built' = built \cup made
  BY DEF ConfigError
<1>3. made \subseteq Clients /\ (\A c \in made : c.by = l)
  <2>1. \A i \in 1..Len(history) : history[i] \in Upserts
    BY DEF RegistryInv, TypeOK
  <2>2. \A i \in 1..load[l].upto : history[i].backend \in Backends
    BY <1>1, <2>1 DEF Upserts
  <2>3. QED BY <2>2 DEF ConfigError, Makeable, Clients
<1>4. /\ load'[l].stage = "failed" /\ load'[l].at = load[l].at
      /\ load'[l].upto = load[l].upto /\ load'[l].old = {} /\ load'[l].lost = made
      /\ \A m \in Loads \ {l} : load'[m] = load[m]
  BY <1>1 DEF ConfigError, RegistryInv, TypeOK
<1>5. TypeOK'
  <2>1. [load[l] EXCEPT !.stage = "failed", !.lost = made] \in LoadRecords
    <3>1. load[l] \in LoadRecords /\ "failed" \in Stages /\ made \in SUBSET Clients
      BY <1>3 DEF LoadRecords, RegistryInv, TypeOK, Stages
    <3>2. QED BY <3>1 DEF LoadRecords
  <2>2. LoadsTyped'
    <3>1. load' = [load EXCEPT ![l] = [load[l] EXCEPT !.stage = "failed", !.lost = made]]
      BY DEF ConfigError, RegistryInv, TypeOK
    <3>2. QED BY <2>1, <3>1 DEF LoadsTyped, LoadRecords, RegistryInv, TypeOK
  <2>3. QED BY <1>2, <1>3, <2>2 DEF LoadsTyped, LoadRecords, RegistryInv, TypeOK
<1>6. LoadsInOrder'
  <2>1. \A m \in Loads \ {l} : \A c \in made : c.by # m
    BY <1>3
  <2>2. QED BY <1>1, <1>2, <1>4, <2>1 DEF RegistryInv, LoadsInOrder
<1>7. PoolsOwned'
  <2>1. \A q \in Replicas : pool[q].by # None => pool[q].by \in Loads \ {l}
    BY <1>1 DEF RegistryInv, TypeOK, PoolsOwned
  <2>2. QED BY <1>2, <1>4, <2>1 DEF RegistryInv, PoolsOwned
<1>8. LoadsServed'
  <2>1. \A m \in Loads : load'[m].at = load[m].at
    BY <1>4
  <2>2. \A m \in Loads : load'[m].stage \in {"read", "swap", "close"} =>
          load[m].stage \in {"read", "swap", "close"}
    BY <1>1, <1>4
  <2>3. \A m \in Loads : load[m].stage \notin {"stop", "down"} =>
          load'[m].stage \notin {"stop", "down"}
    BY <1>1, <1>4
  <2>4. \A m \in Loads : load[m].stage # "idle" => load[m].at \in Loads
    BY DEF RegistryInv, LoadsInOrder, Loads
  <2>5. QED BY <2>1, <2>2, <2>3, <2>4 DEF RegistryInv, LoadsServed, Loads
<1>9. ClientsAccounted'
  <2>1. \A q \in Replicas : InPool(q)' = InPool(q)
    BY <1>2, PoolsKept
  <2>2. Open(l)' = made /\ \A m \in Loads \ {l} : Open(m)' = Open(m)
    BY <1>4 DEF Open
  <2>3. UNION {Open(m)' : m \in Loads} = made \cup (UNION {Open(m) : m \in Loads})
    BY <1>1, <2>2
  <2>4. UNION {InPool(q)' : q \in Replicas} = UNION {InPool(q) : q \in Replicas}
    BY <2>1
  <2>5. built' = (UNION {InPool(q)' : q \in Replicas})
                   \cup (UNION {Open(m)' : m \in Loads}) \cup closed'
    BY <1>2, <2>3, <2>4 DEF RegistryInv, ClientsAccounted
  <2>6. /\ made \cap built = {} /\ closed \subseteq built
        /\ \A m \in Loads : Open(m) \subseteq built
        /\ \A q \in Replicas : InPool(q) \subseteq built
    BY <1>1, <1>3 DEF RegistryInv, ClientsAccounted
  <2>7. \A q \in Replicas : load'[q].stage \notin {"stop", "down"} =>
          InPool(q)' \cap closed' = {}
    <3>1. \A q \in Replicas : load'[q].stage \notin {"stop", "down"} =>
            load[q].stage \notin {"stop", "down"}
      BY <1>1, <1>4 DEF Loads
    <3>2. QED BY <1>2, <2>1, <3>1 DEF RegistryInv, ClientsAccounted
  <2>8. \A m \in Loads : Open(m)' \cap closed' = {}
    BY <1>2, <2>2, <2>6 DEF RegistryInv, ClientsAccounted
  <2>9. \A m \in Loads, q \in Replicas : Open(m)' \cap InPool(q)' = {}
    BY <2>1, <2>2, <2>6 DEF RegistryInv, ClientsAccounted
  <2>10. \A m, k \in Loads : m # k => Open(m)' \cap Open(k)' = {}
    BY <2>2, <2>6 DEF RegistryInv, ClientsAccounted
  <2>11. \A m \in Loads : ForgetsOnFailure(m)'
    BY <1>4 DEF RegistryInv, ClientsAccounted, ForgetsOnFailure
  <2>12. QED BY <2>5, <2>7, <2>8, <2>9, <2>10, <2>11 DEF ClientsAccounted
<1>10. ReadsOwnWrite'
  BY <1>2, <1>4 DEF RegistryInv, ReadsOwnWrite, Loads
<1>11. QED BY <1>5, <1>6, <1>7, <1>8, <1>9, <1>10 DEF RegistryInv

(* aclose() of one former client: it leaves the list of its load for good.    *)
LEMMA CloseOldInv ==
  ASSUME RegistryInv, NEW l \in Loads, NEW c \in load[l].old, CloseOld(l, c)
  PROVE  RegistryInv'
<1>1. /\ load'[l].stage = load[l].stage /\ load'[l].at = load[l].at
      /\ load'[l].upto = load[l].upto /\ load'[l].old = load[l].old \ {c}
      /\ load'[l].lost = load[l].lost /\ load[l].stage = "close"
      /\ \A m \in Loads \ {l} : load'[m] = load[m]
  BY DEF CloseOld, RegistryInv, TypeOK
<1>2. /\ UNCHANGED <<history, pool, held, built>>
      /\ closed' = closed \cup {c} /\ c \in Clients
  BY DEF CloseOld, RegistryInv, TypeOK
<1>3. TypeOK'
  <2>1. LoadsTyped'
    BY DEF LoadsTyped, LoadRecords, CloseOld, RegistryInv, TypeOK
  <2>2. QED BY <1>2, <2>1 DEF LoadsTyped, LoadRecords, RegistryInv, TypeOK
<1>4. LoadsInOrder'
  BY <1>1, <1>2 DEF RegistryInv, LoadsInOrder
<1>5. \A m \in Loads : load'[m].at = load[m].at /\ load'[m].stage = load[m].stage
  BY <1>1
<1>6. PoolsOwned'
  BY <1>2, <1>5 DEF RegistryInv, TypeOK, PoolsOwned
<1>7. LoadsServed'
  <2>1. \A m \in Loads : load[m].stage # "idle" => load[m].at \in Loads
    BY DEF RegistryInv, LoadsInOrder, Loads
  <2>2. QED BY <1>5, <2>1 DEF RegistryInv, LoadsServed, Loads
<1>8. ClientsAccounted'
  <2>1. \A q \in Replicas : InPool(q)' = InPool(q)
    BY <1>2, PoolsKept
  <2>2. UNION {InPool(q)' : q \in Replicas} = UNION {InPool(q) : q \in Replicas}
    BY <2>1
  <2>3. /\ c \in Open(l) /\ Open(l)' = Open(l) \ {c}
        /\ \A m \in Loads \ {l} : Open(m)' = Open(m)
    <3>1. load[l].lost = {}
      BY <1>1 DEF RegistryInv, ClientsAccounted, ForgetsOnFailure
    <3>2. QED BY <1>1, <3>1 DEF Open
  <2>4. (UNION {Open(m)' : m \in Loads}) \cup {c} = UNION {Open(m) : m \in Loads}
    BY <2>3
  <2>5. built' = (UNION {InPool(q)' : q \in Replicas})
                   \cup (UNION {Open(m)' : m \in Loads}) \cup closed'
    BY <1>2, <2>2, <2>4 DEF RegistryInv, ClientsAccounted
  <2>6. \A q \in Replicas : load'[q].stage \notin {"stop", "down"} =>
          InPool(q)' \cap closed' = {}
    <3>1. \A q \in Replicas : c \notin InPool(q)
      BY <2>3 DEF RegistryInv, ClientsAccounted
    <3>2. QED BY <1>2, <1>5, <2>1, <3>1 DEF RegistryInv, ClientsAccounted, Loads
  <2>7. \A m \in Loads : Open(m)' \cap closed' = {}
    BY <1>2, <2>3 DEF RegistryInv, ClientsAccounted
  <2>8. \A m \in Loads, q \in Replicas : Open(m)' \cap InPool(q)' = {}
    BY <2>1, <2>3 DEF RegistryInv, ClientsAccounted
  <2>9. \A m, k \in Loads : m # k => Open(m)' \cap Open(k)' = {}
    BY <2>3 DEF RegistryInv, ClientsAccounted
  <2>10. \A m \in Loads : ForgetsOnFailure(m)'
    BY <1>1 DEF RegistryInv, ClientsAccounted, ForgetsOnFailure
  <2>11. QED BY <2>5, <2>6, <2>7, <2>8, <2>9, <2>10 DEF ClientsAccounted
<1>9. ReadsOwnWrite'
  BY <1>1, <1>2 DEF RegistryInv, ReadsOwnWrite, Loads
<1>10. QED BY <1>3, <1>4, <1>6, <1>7, <1>8, <1>9 DEF RegistryInv

(* A step in which replica p begins or ends its stop and moves no client.     *)
Stops(p) ==
  /\ \/ load[p].stage \in {"done", "failed"} /\ load'[p].stage = "stop"
     \/ load[p].stage = "stop" /\ load'[p].stage = "down"
  /\ load'[p].at = load[p].at /\ load'[p].upto = load[p].upto
  /\ load'[p].old = load[p].old /\ load'[p].lost = load[p].lost
  /\ \A m \in Loads \ {p} : load'[m] = load[m]
  /\ LoadsTyped'
  /\ \A m \in Loads : load[m].at = p => load[m].stage \notin {"read", "swap", "close"}

(* Such a step keeps what concerns the loads alone.                           *)
LEMMA StopsKeep ==
  ASSUME RegistryInv, NEW p \in Replicas, Stops(p), UNCHANGED <<history, built>>
  PROVE  /\ LoadsInOrder' /\ LoadsServed' /\ ReadsOwnWrite'
         /\ \A m \in Loads : Open(m)' = Open(m) /\ ForgetsOnFailure(m)'
         /\ \A m \in Loads : load'[m].at = load[m].at
              /\ (load'[m].stage \in {"idle", "read", "swap"} =>
                    load[m].stage \in {"idle", "read", "swap"})
<1> p \in Loads
  BY DEF Loads
<1>1. LoadsInOrder'
  BY DEF Stops, RegistryInv, LoadsInOrder
<1>2. LoadsServed'
  <2>1. \A m \in Loads : load'[m].at = load[m].at
    BY DEF Stops
  <2>2. \A m \in Loads : load'[m].stage \in {"read", "swap", "close"} =>
          load'[m] = load[m] /\ load[m].at # p
    BY DEF Stops
  <2>3. \A m \in Loads : load[m].stage # "idle" => load[m].at \in Loads
    BY DEF RegistryInv, LoadsInOrder, Loads
  <2>4. \A m \in Loads : m # p => load'[m] = load[m]
    BY DEF Stops
  <2>5. \A m \in Loads : load'[m].stage \in {"read", "swap", "close"} =>
          load'[load'[m].at].stage \notin {"stop", "down"}
    BY <2>1, <2>2, <2>3, <2>4 DEF RegistryInv, LoadsServed
  <2>6. QED BY <2>1, <2>5 DEF RegistryInv, LoadsServed, Loads
<1>3. ReadsOwnWrite'
  <2>1. \A a \in Admins : a \in Loads /\ a # p
    BY RegistryAssumption DEF Loads
  <2>2. QED BY <2>1 DEF Stops, RegistryInv, ReadsOwnWrite
<1>4. \A m \in Loads : Open(m)' = Open(m)
  BY DEF Stops, Open
<1>5. \A m \in Loads : ForgetsOnFailure(m)'
  BY DEF Stops, RegistryInv, ClientsAccounted, ForgetsOnFailure
<1>6. QED BY <1>1, <1>2, <1>3, <1>4, <1>5 DEF Stops

(* A replica begins its stop, or an aclose() raises in it.                    *)
LEMMA StopInv ==
  ASSUME RegistryInv, NEW p \in Replicas, Stops(p),
         UNCHANGED <<history, pool, held, closed, built>>
  PROVE  RegistryInv'
<1>1. TypeOK'
  BY DEF Stops, LoadsTyped, LoadRecords, RegistryInv, TypeOK
<1>2. PoolsOwned'
  BY StopsKeep DEF RegistryInv, TypeOK, PoolsOwned
<1>3. ClientsAccounted'
  <2>1. \A q \in Replicas : InPool(q)' = InPool(q)
    BY PoolsKept
  <2>2. \A q \in Replicas : load[q].stage \in {"stop", "down"} =>
          load'[q].stage \in {"stop", "down"}
    BY DEF Stops, Loads
  <2>3. QED BY <2>1, <2>2, StopsKeep, AccountKept
<1>4. QED BY <1>1, <1>2, <1>3, StopsKeep DEF RegistryInv

(* The emptied pool of a replica that has closed all its clients.             *)
LEMMA StoppedInv ==
  ASSUME RegistryInv, NEW p \in Replicas, Stopped(p), Stops(p)
  PROVE  RegistryInv'
<1>1. /\ UNCHANGED <<history, held, closed, built>> /\ InPool(p) \subseteq closed
      /\ pool'[p].by = None /\ pool'[p].upto = 0
      /\ \A q \in Replicas \ {p} : pool'[q] = pool[q]
  BY DEF Stopped, Empty, RegistryInv, TypeOK
<1>2. TypeOK'
  <2>1. Empty \in [by: Loads \cup {None}, upto: 0..Len(history)]
    BY DEF Empty, RegistryInv, TypeOK
  <2>2. pool' \in [Replicas -> [by: Loads \cup {None}, upto: 0..Len(history')]]
    BY <1>1, <2>1 DEF Stopped, RegistryInv, TypeOK
  <2>3. QED BY <1>1, <2>2 DEF Stops, LoadsTyped, LoadRecords, RegistryInv, TypeOK
<1>3. PoolsOwned'
  <2> SUFFICES ASSUME NEW q \in Replicas, pool'[q].by # None
               PROVE  /\ load'[pool'[q].by].at = q
                      /\ load'[pool'[q].by].stage \notin {"idle", "read", "swap"}
    BY <1>1 DEF RegistryInv, PoolsOwned
  <2>1. pool'[q] = pool[q] /\ pool[q].by \in Loads
    BY <1>1 DEF RegistryInv, TypeOK
  <2>2. /\ load[pool[q].by].at = q
        /\ load[pool[q].by].stage \notin {"idle", "read", "swap"}
    BY <2>1 DEF RegistryInv, PoolsOwned
  <2>3. QED BY <1>1, <2>1, <2>2, StopsKeep
<1>4. ClientsAccounted'
  <2>1. InPool(p)' = {} /\ \A q \in Replicas \ {p} : InPool(q)' = InPool(q)
    BY <1>1, PoolsKept, NoRows DEF InPool, ClientsOf
  <2>2. \A m \in Loads : Open(m)' = Open(m) /\ ForgetsOnFailure(m)'
    BY <1>1, StopsKeep
  <2>3. (UNION {InPool(q)' : q \in Replicas}) \cup InPool(p)
          = UNION {InPool(q) : q \in Replicas}
    BY <2>1
  <2>4. UNION {Open(m)' : m \in Loads} = UNION {Open(m) : m \in Loads}
    BY <2>2
  <2>5. built' = (UNION {InPool(q)' : q \in Replicas})
                   \cup (UNION {Open(m)' : m \in Loads}) \cup closed'
    BY <1>1, <2>3, <2>4 DEF RegistryInv, ClientsAccounted
  <2>6. \A q \in Replicas : load'[q].stage \notin {"stop", "down"} =>
          InPool(q)' \cap closed' = {}
    BY <1>1, <2>1 DEF Stops, RegistryInv, ClientsAccounted, Loads
  <2>7. \A m \in Loads : /\ Open(m)' \cap closed' = {}
                          /\ \A q \in Replicas : Open(m)' \cap InPool(q)' = {}
                          /\ \A k \in Loads \ {m} : Open(m)' \cap Open(k)' = {}
    BY <1>1, <2>1, <2>2 DEF RegistryInv, ClientsAccounted
  <2>8. QED BY <2>2, <2>5, <2>6, <2>7 DEF ClientsAccounted
<1>5. QED BY <1>1, <1>2, <1>3, <1>4, StopsKeep DEF RegistryInv

(* A stopping replica closes a client of its pool, which no other one has.    *)
LEMMA CloseAtStopInv ==
  ASSUME RegistryInv, NEW p \in Replicas, NEW c \in InPool(p), CloseAtStop(p, c)
  PROVE  RegistryInv'
<1>1. /\ UNCHANGED <<history, load, pool, held, built>>
      /\ closed' = closed \cup {c} /\ load[p].stage = "stop"
  BY DEF CloseAtStop
<1>2. c \in Clients /\ c \in built
  BY PoolClients
<1>3. TypeOK' /\ LoadsInOrder' /\ PoolsOwned' /\ LoadsServed' /\ ReadsOwnWrite'
  BY <1>1, <1>2
  DEF RegistryInv, TypeOK, LoadsInOrder, PoolsOwned, LoadsServed, ReadsOwnWrite
<1>4. ClientsAccounted'
  <2>1. \A q \in Replicas : InPool(q)' = InPool(q)
    BY <1>1, PoolsKept
  <2>2. \A m \in Loads : Open(m)' = Open(m) /\ (ForgetsOnFailure(m)' <=> ForgetsOnFailure(m))
    BY <1>1 DEF Open, ForgetsOnFailure
  <2>3. /\ UNION {InPool(q)' : q \in Replicas} = UNION {InPool(q) : q \in Replicas}
        /\ UNION {Open(m)' : m \in Loads} = UNION {Open(m) : m \in Loads}
    BY <2>1, <2>2
  <2>4. built' = (UNION {InPool(q)' : q \in Replicas})
                   \cup (UNION {Open(m)' : m \in Loads}) \cup closed'
    BY <1>1, <1>2, <2>3 DEF RegistryInv, ClientsAccounted
  <2>5. \A q \in Replicas : load'[q].stage \notin {"stop", "down"} =>
          InPool(q)' \cap closed' = {}
    <3>1. \A q \in Replicas \ {p} : c \notin InPool(q)
      BY PoolsDisjoint
    <3>2. QED BY <1>1, <2>1, <3>1 DEF RegistryInv, ClientsAccounted
  <2>6. \A m \in Loads : c \notin Open(m)
    BY DEF RegistryInv, ClientsAccounted
  <2>7. QED BY <1>1, <2>1, <2>2, <2>4, <2>5, <2>6 DEF RegistryInv, ClientsAccounted
<1>5. QED BY <1>3, <1>4 DEF RegistryInv

(* A request takes or leaves clients, or nothing happens.                     *)
LEMMA HeldInv ==
  ASSUME RegistryInv, UNCHANGED <<history, load, pool, closed, built>>,
         held' \in [Requests -> SUBSET Clients]
  PROVE  RegistryInv'
<1>1. \A q \in Replicas : InPool(q)' = InPool(q)
  BY PoolsKept
<1>2. ClientsAccounted'
  <2>1. \A l \in Loads : Open(l)' = Open(l) /\ (ForgetsOnFailure(l)' <=> ForgetsOnFailure(l))
    BY DEF Open, ForgetsOnFailure
  <2>2. \A l \in Loads : ForgetsOnFailure(l)
    BY DEF RegistryInv, ClientsAccounted
  <2>3. QED BY <1>1, <2>1, <2>2, AccountKept
<1>3. TypeOK' /\ LoadsInOrder' /\ PoolsOwned' /\ LoadsServed' /\ ReadsOwnWrite'
  BY DEF RegistryInv, TypeOK, LoadsInOrder, PoolsOwned, LoadsServed, ReadsOwnWrite
<1>4. QED BY <1>2, <1>3 DEF RegistryInv

(* Every step of the loads, the requests and the replicas.                    *)
LEMMA NextInv == RegistryInv /\ [Next]_vars => RegistryInv'
<1> SUFFICES ASSUME RegistryInv, [Next]_vars PROVE RegistryInv'
  OBVIOUS
<1>0. LoadsTyped
  BY DEF RegistryInv, TypeOK, LoadsTyped, LoadRecords
<1>1. ASSUME NEW l \in Loads, Read(l)
      PROVE  RegistryInv'
  <2>1. l \in Admins => \E i \in 1..Len(history) : history[i].by = l
    BY <1>1 DEF Read, RegistryInv, LoadsInOrder
  <2>2. Len(history) \in 0..Len(history) /\ Len(history) \in Nat
    BY DEF RegistryInv, TypeOK
  <2>3. Open(l)' = Open(l) /\ ForgetsOnFailure(l)'
    BY <1>0, <1>1, NothingOpen DEF Read, LoadsTyped, LoadRecords, Open, ForgetsOnFailure
  <2>4. Advances(l, "swap", Len(history))
    <3>1. LoadsTyped'
      BY <1>0, <1>1, <2>2 DEF Read, Sees, LoadsTyped, LoadRecords, Stages
    <3>2. QED
      BY <1>0, <1>1, <2>1, <2>2, <2>3, <3>1
      DEF Read, Sees, Advances, LoadsTyped, LoadRecords
  <2>5. QED BY <2>4, AdvanceInv
<1>2. ASSUME NEW l \in Loads, LoadFails(l)
      PROVE  RegistryInv'
  <2>1. load[l].upto \in 0..Len(history)
    BY DEF RegistryInv, TypeOK, LoadsInOrder
  <2>2. load[l].lost = {}
    BY <1>2 DEF LoadFails, RegistryInv, ClientsAccounted, ForgetsOnFailure
  <2>3. Open(l)' = Open(l) /\ ForgetsOnFailure(l)'
    BY <1>0, <1>2, <2>2 DEF LoadFails, LoadsTyped, LoadRecords, Open, ForgetsOnFailure
  <2>4. Advances(l, "failed", load[l].upto)
    <3>1. [load[l] EXCEPT !.stage = "failed", !.old = {}, !.lost = load[l].old]
            \in LoadRecords
      BY <1>0 DEF LoadsTyped, LoadRecords, Stages
    <3>2. load' = [load EXCEPT ![l] =
                     [load[l] EXCEPT !.stage = "failed", !.old = {}, !.lost = load[l].old]]
      BY <1>0, <1>2 DEF LoadFails, LoadsTyped, LoadRecords
    <3>3. LoadsTyped'
      BY <1>0, <3>1, <3>2 DEF LoadsTyped
    <3>4. QED
      BY <1>0, <1>2, <2>1, <2>3, <3>2, <3>3 DEF LoadFails, Advances, LoadsTyped, LoadRecords
  <2>5. QED BY <2>4, AdvanceInv
<1>3. ASSUME NEW l \in Loads, Return(l)
      PROVE  RegistryInv'
  <2>1. l \in Admins => \E i \in 1..load[l].upto : history[i].by = l
    BY <1>3 DEF Return, RegistryInv, ReadsOwnWrite
  <2>2. load[l].upto \in 0..Len(history)
    BY DEF RegistryInv, TypeOK, LoadsInOrder
  <2>3. load[l].lost = {}
    BY <1>3 DEF Return, RegistryInv, ClientsAccounted, ForgetsOnFailure
  <2>4. Open(l)' = Open(l) /\ ForgetsOnFailure(l)'
    BY <1>0, <1>3, <2>3 DEF Return, LoadsTyped, LoadRecords, Open, ForgetsOnFailure
  <2>5. Advances(l, "done", load[l].upto)
    BY <1>0, <1>3, <2>1, <2>2, <2>4 DEF Return, Advances, LoadsTyped, LoadRecords, Stages
  <2>6. QED BY <2>5, AdvanceInv
<1>4. ASSUME NEW r \in Requests, NEW p \in Replicas, Take(r, p)
      PROVE  RegistryInv'
  <2>1. InPool(p) \subseteq Clients
    BY PoolClients
  <2>2. held' \in [Requests -> SUBSET Clients]
    BY <1>4, <2>1 DEF Take, RegistryInv, TypeOK
  <2>3. QED BY <1>4, <2>2, HeldInv DEF Take
<1>5. ASSUME NEW r \in Requests, Leave(r)
      PROVE  RegistryInv'
  <2>1. held' \in [Requests -> SUBSET Clients]
    BY <1>5 DEF Leave, RegistryInv, TypeOK
  <2>2. QED BY <1>5, <2>1, HeldInv DEF Leave
<1>6. ASSUME NEW p \in Replicas, Stop(p)
      PROVE  RegistryInv'
  <2>1. \A m \in Loads : load[m].at = p => load[m].stage \notin {"read", "swap", "close"}
    <3>1. \A m \in Replicas : load[m].at = p => m = p
      BY DEF RegistryInv, LoadsServed
    <3>2. QED BY <1>6, <3>1 DEF Stop, Serving, Loads
  <2>2. Stops(p)
    BY <1>0, <1>6, <2>1 DEF Stop, Serving, Stops, LoadsTyped, LoadRecords, Stages, Loads
  <2>3. QED BY <1>6, <2>2, StopInv DEF Stop
<1>7. ASSUME NEW p \in Replicas, Stopped(p) \/ StopFails(p)
      PROVE  RegistryInv'
  <2>1. \A m \in Loads : load[m].at = p => load[m].stage \notin {"read", "swap", "close"}
    BY <1>7 DEF Stopped, StopFails, RegistryInv, LoadsServed
  <2>2. Stops(p)
    BY <1>0, <1>7, <2>1 DEF Stopped, StopFails, Stops, LoadsTyped, LoadRecords, Stages, Loads
  <2>3. QED BY <1>7, <2>2, StopInv, StoppedInv DEF StopFails
<1>8. CASE UNCHANGED vars
  <2>1. held' \in [Requests -> SUBSET Clients]
    BY <1>8 DEF vars, RegistryInv, TypeOK
  <2>2. QED BY <1>8, <2>1, HeldInv DEF vars
<1>9. QED
  BY <1>1, <1>2, <1>3, <1>4, <1>5, <1>6, <1>7, <1>8, UpsertInv, SwapInv,
     ConfigErrorInv, CloseOldInv, CloseAtStopInv
  DEF Next, Proceed

-----------------------------------------------------------------------------
(* The whole inductive invariant holds in every reachable state.              *)
THEOREM RegistrySafe == Spec => []RegistryInv
  BY InitInv, NextInv, PTL DEF Spec

(* The table, the loads, the pools and the clients keep their types.          *)
THEOREM RegistryTypeCorrect == Spec => []TypeOK
<1>1. RegistryInv => TypeOK BY DEF RegistryInv
<1>2. QED BY <1>1, RegistrySafe, PTL

(* However many reloads overlap or fail, no client of a serving pool is       *)
(* closed, none is closed by two reloads, and only a reload that fails (in    *)
(* its close loop, or at a bad row after good ones) leaves clients open.      *)
THEOREM EveryClientAccounted == Spec => []ClientsAccounted
<1>1. RegistryInv => ClientsAccounted BY DEF RegistryInv
<1>2. QED BY <1>1, RegistrySafe, PTL

(* The reload of an admin call has its own upsert in the table it loads.      *)
THEOREM AdminReadsOwnWrite == Spec => []ReadsOwnWrite
<1>1. RegistryInv => ReadsOwnWrite BY DEF RegistryInv
<1>2. QED BY <1>1, RegistrySafe, PTL

=============================================================================
