--------------------------- MODULE SemanticStore ----------------------------
(***************************************************************************)
(* What a cache in front of the backends promises, whatever its tiers are: *)
(* a request is answered by a backend, or with the answer a backend gave   *)
(* to a compatible earlier request; the store may forget at any time.      *)
(***************************************************************************)
CONSTANTS Requests, Nobody

VARIABLES compatible,  \* the pairs <<r, q>> such that q's answer will do for r
          asked,   \* the requests that have arrived
          got,     \* got[r]: the request whose answer r received
          store    \* the requests whose answers are stored

vars == <<compatible, asked, got, store>>

Init ==
  /\ compatible \subseteq Requests \X Requests
  /\ asked = {}
  /\ got = [r \in Requests |-> Nobody]
  /\ store = {}

Ask(r) ==
  /\ r \notin asked
  /\ asked' = asked \cup {r}
  /\ UNCHANGED <<compatible, got, store>>

(* q is r itself when a backend answers.                                      *)
Answer(r, q) ==
  /\ r \in asked /\ got[r] = Nobody
  /\ q = r \/ (q \in store /\ <<r, q>> \in compatible)
  /\ got' = [got EXCEPT ![r] = q]
  /\ UNCHANGED <<compatible, asked, store>>

(* Storing an answer may displace others.                                     *)
Store(r) ==
  /\ got[r] = r
  /\ store' \subseteq store \cup {r}
  /\ UNCHANGED <<compatible, asked, got>>

Forget ==
  /\ store' \subseteq store
  /\ UNCHANGED <<compatible, asked, got>>

Next ==
  \/ \E r \in Requests : Ask(r) \/ Store(r)
  \/ \E r, q \in Requests : Answer(r, q)
  \/ Forget

Spec == Init /\ [][Next]_vars

=============================================================================
