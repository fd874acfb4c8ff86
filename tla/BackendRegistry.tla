--------------------------- MODULE BackendRegistry ---------------------------
(***************************************************************************)
(* The hot-reloadable client pool of gateway/backends/registry.py in every *)
(* replica, the start-up of main.py and POST /admin/backends of            *)
(* api/routers.py that load it, and the requests that take clients from    *)
(* it.                                                                     *)
(*                                                                         *)
(* The backend table is the sequence of its committed upserts: a table a   *)
(* reload has read is a prefix of it.  Nothing disables or deletes a row.  *)
(* A load is one execution of reload(), named by what started it: a        *)
(* replica's start-up or an admin call.  A client is named by the load     *)
(* that made it and by its backend.                                        *)
(***************************************************************************)
EXTENDS Integers, Sequences

CONSTANTS Replicas,
          Admins,     \* the calls of POST /admin/backends
          Backends,
          Requests,
          None        \* the load of a pool that was never loaded

Loads == Replicas \cup Admins

ASSUME RegistryAssumption == Replicas \cap Admins = {} /\ None \notin Loads

VARIABLES
  history,  \* the committed upserts, in commit order
  load,     \* load[l]: how far l got, in which replica, the length of the
            \* table it read, the clients it still has to close, and those
            \* that it forgot when it failed
  pool,     \* pool[p]: the load that made p's clients, from how much table
  held,     \* held[r]: the clients among r's candidates
  closed,   \* the clients that were closed
  built     \* auxiliary: the clients that were ever made

vars == <<history, load, pool, held, closed, built>>

Upserts == [by: Admins, backend: Backends, usable: BOOLEAN]

Clients == [by: Loads, backend: Backends]

Stages == {"idle", "read", "swap", "close", "done", "failed", "stop", "down"}

Empty == [by |-> None, upto |-> 0]

TypeOK ==
  /\ history \in Seq(Upserts)
  /\ load \in [Loads -> [stage: Stages, at: Replicas \cup {None}, upto: Nat,
                         old: SUBSET Clients, lost: SUBSET Clients]]
  /\ pool \in [Replicas -> [by: Loads \cup {None}, upto: 0..Len(history)]]
  /\ held \in [Requests -> SUBSET Clients]
  /\ closed \subseteq Clients /\ built \subseteq Clients

(* Every replica starts with an empty registry and its own reload() to do.    *)
Init ==
  /\ history = <<>>
  /\ load = [l \in Loads |-> [stage |-> IF l \in Replicas THEN "read" ELSE "idle",
                              at |-> IF l \in Replicas THEN l ELSE None,
                              upto |-> 0, old |-> {}, lost |-> {}]]
  /\ pool = [p \in Replicas |-> Empty]
  /\ held = [r \in Requests |-> {}]
  /\ closed = {}
  /\ built = {}

(* The last of the first n upserts of backend b: its row in that table.       *)
IsRow(i, n) == \A j \in i+1..n : history[j].backend # history[i].backend

(* client_factory raises ConfigError for a row it cannot make a client of.    *)
Loadable(n) == \A i \in 1..n : IsRow(i, n) => history[i].usable

(* The clients of a pool that load `by' made from a table of length n.        *)
ClientsOf(by, n) == {[by |-> by, backend |-> history[i].backend] : i \in 1..n}

InPool(p) == ClientsOf(pool[p].by, pool[p].upto)

(* A replica serves once its start-up is through, whether it loaded or not.   *)
Serving(p) == load[p].stage \in {"done", "failed"}

-----------------------------------------------------------------------------
(* The admin endpoint: the upsert is committed, then reload() is awaited.     *)
Upsert(a, p, b, usable) ==
  /\ load[a].stage = "idle"
  /\ Serving(p)
  /\ history' = Append(history, [by |-> a, backend |-> b, usable |-> usable])
  /\ load' = [load EXCEPT ![a].stage = "read", ![a].at = p]
  /\ UNCHANGED <<pool, held, closed, built>>

(* Mutant: the upsert of the admin call is not committed yet when reload()    *)
(* reads the table.                                                           *)
SeesWithoutOwn(l) ==
  IF \E i \in 1..Len(history) : history[i].by = l
  THEN (CHOOSE i \in 1..Len(history) : history[i].by = l) - 1
  ELSE Len(history)

Sees(l) == Len(history)

(* reload(): list_all() in a session of its own.                              *)
Read(l) ==
  /\ load[l].stage = "read"
  /\ load' = [load EXCEPT ![l].stage = "swap", ![l].upto = Sees(l)]
  /\ UNCHANGED <<history, pool, held, closed, built>>

(* Mutant: the clients to close are looked up after the swap.                 *)
OldClientsAfterSwap(l) == ClientsOf(l, load[l].upto)

(* Mutant: the keys of the pool's dictionary are listed, not its values.      *)
OldClientsKeys(l) == {c.backend : c \in InPool(load[l].at)}

OldClients(l) == InPool(load[l].at)

(* The session is closed; the pool is built and swapped without an await.     *)
Swap(l) ==
  /\ load[l].stage = "swap"
  /\ Loadable(load[l].upto)
  /\ pool' = [pool EXCEPT ![load[l].at] = [by |-> l, upto |-> load[l].upto]]
  /\ built' = built \cup ClientsOf(l, load[l].upto)
  /\ load' = [load EXCEPT ![l].stage = "close", ![l].old = OldClients(l)]
  /\ UNCHANGED <<history, held, closed>>

(* The clients that can be made of the first n upserts.                       *)
Makeable(by, n) ==
  {[by |-> by, backend |-> history[i].backend] :
     i \in {j \in 1..n : IsRow(j, n) /\ history[j].usable}}

(* A row that no client can be made of: reload() raises before the swap.  The *)
(* rows come in any order, and the clients of those before it are dropped     *)
(* without being closed.                                                      *)
ConfigError(l, made) ==
  /\ load[l].stage = "swap"
  /\ ~Loadable(load[l].upto)
  /\ made \subseteq Makeable(l, load[l].upto)
  /\ built' = built \cup made
  /\ load' = [load EXCEPT ![l].stage = "failed", ![l].lost = made]
  /\ UNCHANGED <<history, pool, held, closed>>

(* aclose() of the clients of the former pool, one after the other.           *)
CloseOld(l, c) ==
  /\ load[l].stage = "close"
  /\ c \in load[l].old
  /\ closed' = closed \cup {c}
  /\ load' = [load EXCEPT ![l].old = @ \ {c}]
  /\ UNCHANGED <<history, pool, held, built>>

Return(l) ==
  /\ load[l].stage = "close"
  /\ load[l].old = {}
  /\ load' = [load EXCEPT ![l].stage = "done"]
  /\ UNCHANGED <<history, pool, held, closed, built>>

(* An exception at one of the awaits (Postgres, aclose), or cancellation:     *)
(* the list of the clients that are not closed yet is gone.  At start-up it   *)
(* is caught, and the replica serves with what it has.                        *)
LoadFails(l) ==
  /\ load[l].stage \in {"read", "swap", "close"}
  /\ load' = [load EXCEPT ![l].stage = "failed", ![l].old = {},
                          ![l].lost = load[l].old]
  /\ UNCHANGED <<history, pool, held, closed, built>>

-----------------------------------------------------------------------------
(* candidates(): a request takes clients, and works with them until it ends.  *)
Take(r, p) ==
  /\ Serving(p)
  /\ held[r] = {} /\ InPool(p) # {}
  /\ held' = [held EXCEPT ![r] = InPool(p)]
  /\ UNCHANGED <<history, load, pool, closed, built>>

Leave(r) ==
  /\ held[r] # {}
  /\ held' = [held EXCEPT ![r] = {}]
  /\ UNCHANGED <<history, load, pool, closed, built>>

(* registry.aclose(), after the server has let its requests end: it closes    *)
(* the clients one after the other, and then empties the pool.                *)
Stop(p) ==
  /\ Serving(p)
  /\ \A a \in Admins : load[a].at = p => load[a].stage \in {"done", "failed"}
  /\ \A r \in Requests : \A c \in held[r] : load[c.by].at # p
  /\ load' = [load EXCEPT ![p].stage = "stop"]
  /\ UNCHANGED <<history, pool, held, closed, built>>

CloseAtStop(p, c) ==
  /\ load[p].stage = "stop"
  /\ c \in InPool(p) \ closed
  /\ closed' = closed \cup {c}
  /\ UNCHANGED <<history, load, pool, held, built>>

Stopped(p) ==
  /\ load[p].stage = "stop"
  /\ InPool(p) \subseteq closed
  /\ pool' = [pool EXCEPT ![p] = Empty]
  /\ load' = [load EXCEPT ![p].stage = "down"]
  /\ UNCHANGED <<history, held, closed, built>>

(* An aclose() raises: the process ends with the rest of the pool.            *)
StopFails(p) ==
  /\ load[p].stage = "stop"
  /\ load' = [load EXCEPT ![p].stage = "down"]
  /\ UNCHANGED <<history, pool, held, closed, built>>

Proceed(l) ==
  \/ Read(l) \/ Swap(l) \/ Return(l)
  \/ \E made \in SUBSET Makeable(l, load[l].upto) : ConfigError(l, made)
  \/ \E c \in load[l].old : CloseOld(l, c)

Next ==
  \/ \E a \in Admins, p \in Replicas, b \in Backends, usable \in BOOLEAN :
       Upsert(a, p, b, usable)
  \/ \E l \in Loads : Proceed(l) \/ LoadFails(l)
  \/ \E r \in Requests, p \in Replicas : Take(r, p)
  \/ \E r \in Requests : Leave(r)
  \/ \E p \in Replicas : Stop(p) \/ Stopped(p) \/ StopFails(p)
  \/ \E p \in Replicas : \E c \in InPool(p) : CloseAtStop(p, c)

Spec == Init /\ [][Next]_vars

(* The awaits of reload() return; requests end.                               *)
Fairness ==
  /\ \A l \in Loads : WF_vars(Proceed(l))
  /\ \A r \in Requests : WF_vars(Leave(r))

FairSpec == Spec /\ Fairness

-----------------------------------------------------------------------------
(* The clients that load l took out of a pool, or made, and has not closed.   *)
Open(l) == load[l].old \cup load[l].lost

(* Only a reload in its close loop has clients to close, and only one that    *)
(* failed has forgotten any.                                                  *)
ForgetsOnFailure(l) ==
  /\ load[l].stage # "close" => load[l].old = {}
  /\ load[l].stage \notin {"failed", "stop", "down"} => load[l].lost = {}

(* Overlapping reloads account for every client once: it is in its replica's  *)
(* pool, or closed, or one reload and no other has still to close it or has   *)
(* forgotten it.  So no client of a serving pool is ever closed and none is   *)
(* closed twice; a reload that runs or returns has forgotten none, one that   *)
(* failed will close none.                                                    *)
ClientsAccounted ==
  /\ built = (UNION {InPool(p) : p \in Replicas})
               \cup (UNION {Open(l) : l \in Loads}) \cup closed
  /\ \A p \in Replicas :
       load[p].stage \notin {"stop", "down"} => InPool(p) \cap closed = {}
  /\ \A l \in Loads :
       /\ Open(l) \cap closed = {}
       /\ \A p \in Replicas : Open(l) \cap InPool(p) = {}
       /\ \A m \in Loads \ {l} : Open(l) \cap Open(m) = {}
       /\ ForgetsOnFailure(l)

(* An admin call loads the table with its own upsert in it.                   *)
ReadsOwnWrite ==
  \A a \in Admins :
    load[a].stage \in {"close", "done"} =>
      \E i \in 1..load[a].upto : history[i].by = a

(* "or an admin POST /admin/backends reloads it": an admin call repopulates   *)
(* the registry of the replica it reaches, also one whose start-up load       *)
(* failed, unless the call itself fails.                                      *)
AdminRepairs ==
  \A a \in Admins, p \in Replicas :
    load[a].at = p /\ load[a].stage = "read" ~>
      pool[p].upto > 0 \/ load[a].stage = "failed"

-----------------------------------------------------------------------------
(* What upsert_backend says of its order of calls: the row it "just wrote" is *)
(* in the registry when the call returns.                                     *)
AcknowledgedIsServed ==
  \A a \in Admins :
    load[a].stage = "done" /\ Serving(load[a].at) =>
      \E i \in 1..pool[load[a].at].upto : history[i].by = a

(* What main.py says of a failed start-up: completions answer 503 "until      *)
(* either the schema catches up or an admin POST /admin/backends reloads it". *)
(* Without an admin call to p the former is left: a table with rows, all of   *)
(* them good, has caught up.                                                  *)
HealsWithTheSchema ==
  \A p \in Replicas :
    load[p].stage = "failed" /\ history # <<>> /\ Loadable(Len(history)) ~>
      \/ pool[p].upto > 0 \/ load[p].stage # "failed"
      \/ \E a \in Admins : load[a].at = p

=============================================================================
