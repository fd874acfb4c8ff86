--------------------------- MODULE ConnectionPool ---------------------------
(***************************************************************************)
(* The database connections of one gateway process and the requests that   *)
(* share them.  A session checks a connection out with its first statement *)
(* and keeps it until its transaction ends.                                *)
(*                                                                         *)
(* A chat request looks its API key up in the session of get_session,      *)
(* which FastAPI closes only after the handler; the L2 cache and _log open *)
(* sessions of their own meanwhile.  So it waits for a second connection   *)
(* while it keeps the first.  The other endpoints use one at a time.       *)
(***************************************************************************)
EXTENDS Integers, FiniteSets

CONSTANTS Chats,        \* the requests of POST /v1/chat/completions
          Others,       \* the requests of the other endpoints with a session
          Connections,  \* db_pool_size + db_max_overflow of them
          MaxSessions   \* the sessions of a pipeline: L2 get, L2 put, _log

ASSUME PoolAssumption ==
  /\ IsFiniteSet(Chats) /\ IsFiniteSet(Connections)
  /\ Chats \cap Others = {}
  /\ MaxSessions \in Nat

Requests == Chats \cup Others

VARIABLES
  pc,     \* pc[r]: where r is
  todo,   \* todo[r]: the sessions r has still to open
  kept,   \* kept[r]: the connection of get_session, while r keeps it
  using   \* using[r]: the connection of the session r is in

vars == <<pc, todo, kept, using>>

Steps == {"idle", "auth", "query", "run", "wait", "session", "done"}

TypeOK ==
  /\ pc \in [Requests -> Steps]
  /\ todo \in [Requests -> 0..MaxSessions]
  /\ kept \in [Requests -> SUBSET Connections]
  /\ using \in [Requests -> SUBSET Connections]

Held(r) == kept[r] \cup using[r]

Free == Connections \ UNION {Held(r) : r \in Requests}

Init ==
  /\ pc = [r \in Requests |-> "idle"]
  /\ todo = [r \in Requests |-> 0]
  /\ kept = [r \in Requests |-> {}]
  /\ using = [r \in Requests |-> {}]

Goto(r, step) == pc' = [pc EXCEPT ![r] = step]

-----------------------------------------------------------------------------
(* require_api_key without a header: 401 before any statement.                *)
MissingKey(r) ==
  /\ r \in Chats /\ pc[r] = "idle"
  /\ Goto(r, "done")
  /\ UNCHANGED <<todo, kept, using>>

(* require_api_key with one: get_by_hash needs a connection.                  *)
Authenticate(r) ==
  /\ r \in Chats /\ pc[r] = "idle"
  /\ Goto(r, "auth")
  /\ UNCHANGED <<todo, kept, using>>

CheckOutKept(r, c) ==
  /\ pc[r] = "auth"
  /\ c \in Free
  /\ kept' = [kept EXCEPT ![r] = {c}]
  /\ Goto(r, "query")
  /\ UNCHANGED <<todo, using>>

(* No such key: 401, and the session is closed.                               *)
InvalidKey(r) ==
  /\ pc[r] = "query"
  /\ kept' = [kept EXCEPT ![r] = {}]
  /\ Goto(r, "done")
  /\ UNCHANGED <<todo, using>>

(* The pipeline begins: none of its sessions after a 429, up to three on a    *)
(* miss.  Of a stream FastAPI may have closed the session by then: some       *)
(* releases do it before the response, others after it.                       *)
Accept(r, n, streams) ==
  /\ pc[r] = "query"
  /\ todo' = [todo EXCEPT ![r] = n]
  /\ kept' = [kept EXCEPT ![r] = IF streams THEN {} ELSE @]
  /\ Goto(r, "run")
  /\ UNCHANGED using

(* /v1/models, /ready and /admin/keys: one session.  /admin/backends: one for *)
(* the upsert, and another one for reload().                                  *)
Begin(r, n) ==
  /\ r \in Others /\ pc[r] = "idle"
  /\ todo' = [todo EXCEPT ![r] = n]
  /\ Goto(r, "run")
  /\ UNCHANGED <<kept, using>>

(* Mutant: one session more than the pipeline has.                            *)
OpenAlways(r) ==
  /\ pc[r] = "run"
  /\ todo' = [todo EXCEPT ![r] = @ - 1]
  /\ Goto(r, "wait")
  /\ UNCHANGED <<kept, using>>

Open(r) ==
  /\ pc[r] = "run" /\ todo[r] > 0
  /\ todo' = [todo EXCEPT ![r] = @ - 1]
  /\ Goto(r, "wait")
  /\ UNCHANGED <<kept, using>>

CheckOut(r, c) ==
  /\ pc[r] = "wait"
  /\ c \in Free
  /\ using' = [using EXCEPT ![r] = {c}]
  /\ Goto(r, "session")
  /\ UNCHANGED <<todo, kept>>

(* Mutant: the session is left without being closed.                          *)
CheckInNever(r) ==
  /\ pc[r] = "session"
  /\ kept' = [kept EXCEPT ![r] = @ \cup using[r]]
  /\ using' = [using EXCEPT ![r] = {}]
  /\ Goto(r, "run")
  /\ UNCHANGED todo

(* session_scope commits and gives the connection back.                       *)
CheckIn(r) ==
  /\ pc[r] = "session"
  /\ using' = [using EXCEPT ![r] = {}]
  /\ Goto(r, "run")
  /\ UNCHANGED <<todo, kept>>

(* The handler has returned, and FastAPI closes the session of get_session.   *)
Finish(r) ==
  /\ pc[r] = "run" /\ todo[r] = 0
  /\ kept' = [kept EXCEPT ![r] = {}]
  /\ Goto(r, "done")
  /\ UNCHANGED <<todo, using>>

(* Mutant: only the innermost session is left on the way out.                 *)
LeftKept(r) == kept[r]

(* What an exception leaves checked out: `async with' closes every session.   *)
Left(r) == {}

(* An exception of the pipeline, a cancelled request, or the pool's timeout   *)
(* of a request that waits.                                                   *)
Abort(r) ==
  /\ pc[r] \notin {"idle", "done"}
  /\ todo' = [todo EXCEPT ![r] = 0]
  /\ kept' = [kept EXCEPT ![r] = Left(r)]
  /\ using' = [using EXCEPT ![r] = {}]
  /\ Goto(r, "done")

Step(r) ==
  \/ \E c \in Connections : CheckOutKept(r, c) \/ CheckOut(r, c)
  \/ InvalidKey(r)
  \/ \E n \in 0..MaxSessions, streams \in BOOLEAN : Accept(r, n, streams)
  \/ Open(r) \/ CheckIn(r) \/ Finish(r)

Next ==
  \E r \in Requests :
    \/ MissingKey(r) \/ Authenticate(r) \/ Abort(r)
    \/ \E n \in {1, 2} \cap 0..MaxSessions : Begin(r, n)
    \/ Step(r)

Spec == Init /\ [][Next]_vars

(* Queries return, and the pool wakes a waiter when a connection comes back.  *)
(* Nothing is assumed of Abort: requests must not need the pool's timeout.    *)
Fairness == \A r \in Requests : WF_vars(Step(r))

FairSpec == Spec /\ Fairness

-----------------------------------------------------------------------------
(* A connection is never in two sessions, and none is lost: when a request    *)
(* has ended, however it ended, it holds none.                                *)
ConnectionsAccounted ==
  /\ \A q, r \in Requests : q # r => Held(q) \cap Held(r) = {}
  /\ \A r \in Requests : kept[r] \cap using[r] = {}
  /\ \A r \in Requests : pc[r] \in {"idle", "done"} => Held(r) = {}

(* A pool that is larger than the number of concurrent chat requests never    *)
(* has everyone waiting on everyone: when it is empty, some connection is in  *)
(* a request that does not wait for another one.                              *)
SomeoneProceeds ==
  Cardinality(Chats) < Cardinality(Connections) /\ Free = {} =>
    \E r \in Requests : Held(r) # {} /\ pc[r] # "wait"

(* With such a pool every request ends, without the help of a timeout.        *)
EveryRequestEnds ==
  \A r \in Requests : pc[r] # "idle" ~> pc[r] = "done"

-----------------------------------------------------------------------------
(* The settings are said to be sized "above" the "expected concurrency", and  *)
(* give 50 connections to the 50 users of the load test: somebody proceeds    *)
(* with one connection for each concurrent request, too.                      *)
OneEachSuffices ==
  Cardinality(Chats) <= Cardinality(Connections) /\ Free = {} =>
    \E r \in Requests : Held(r) # {} /\ pc[r] # "wait"

=============================================================================
