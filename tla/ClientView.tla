----------------------------- MODULE ClientView -----------------------------
(***************************************************************************)
(* What the gateway promises the clients of POST /v1/chat/completions,     *)
(* whichever backend, cache tier or failover is behind the answer: a       *)
(* client receives a growing prefix of one answer of one backend, and then *)
(* one end.  If the end is a result, the answer is whole.                  *)
(***************************************************************************)
EXTENDS Integers, Sequences

CONSTANTS Requests,
          Backends,
          MaxChunks  \* bound on the chunks of an answer

VARIABLES
  sent,   \* sent[r]: the chunks r's client has received
  end,    \* end[r]: "open", or how the response ended
  whole   \* the answers that some backend has completed

vars == <<sent, end, whole>>

(* The first n chunks of an answer of backend b.                              *)
Answer(b, n) == [i \in 1..n |-> [src |-> b, no |-> i]]

Answers == {Answer(b, n) : b \in Backends, n \in 0..MaxChunks}

Errors == {"rate_limited", "no_backend", "unavailable", "crashed", "gone"}

Ends == Errors \cup {"result"}

Begins(s, t) == Len(s) <= Len(t) /\ \A i \in 1..Len(s) : s[i] = t[i]

Init ==
  /\ sent = [r \in Requests |-> <<>>]
  /\ end = [r \in Requests |-> "open"]
  /\ whole = {}

(* A backend completes an answer.                                             *)
Complete(a) ==
  /\ whole' = whole \cup {a}
  /\ UNCHANGED <<sent, end>>

(* The client receives more of the answer it has begun to receive.            *)
Deliver(r, a) ==
  /\ end[r] = "open"
  /\ Begins(sent[r], a)
  /\ sent' = [sent EXCEPT ![r] = a]
  /\ UNCHANGED <<end, whole>>

(* The client receives what is missing of a whole answer, and its end.        *)
Finish(r, a) ==
  /\ end[r] = "open"
  /\ a \in whole
  /\ Begins(sent[r], a)
  /\ sent' = [sent EXCEPT ![r] = a]
  /\ end' = [end EXCEPT ![r] = "result"]
  /\ UNCHANGED whole

(* The response ends short of a result.                                       *)
Break(r, e) ==
  /\ end[r] = "open"
  /\ end' = [end EXCEPT ![r] = e]
  /\ UNCHANGED <<sent, whole>>

Next ==
  \/ \E a \in Answers : Complete(a)
  \/ \E r \in Requests, a \in Answers : Deliver(r, a) \/ Finish(r, a)
  \/ \E r \in Requests, e \in Errors : Break(r, e)

Spec == Init /\ [][Next]_vars

=============================================================================
