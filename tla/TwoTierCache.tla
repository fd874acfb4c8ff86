---------------------------- MODULE TwoTierCache ----------------------------
(***************************************************************************)
(* The two cache tiers, shared by the requests of several processes: L1 is *)
(* a Redis key per model and prompt hash, L2 the rows of semantic_cache.   *)
(* An answer is named by the request a backend gave it to.                 *)
(*                                                                         *)
(* Every await of get() and put() is a step of its own, so that concurrent *)
(* misses, expiring keys and restarts come between any two of them.        *)
(***************************************************************************)
EXTENDS Integers, Sequences, FiniteSets

CONSTANTS Requests, Processes, Models,
          Roles, Words,
          Prompts,   \* the message lists: sequences of [role, content]
          Points,    \* where the embeddings lie, on a line
          Near,      \* 1 - similarity_threshold, as a distance
          EfSearch,  \* the values hnsw.ef_search may have, 40 by default
          Nobody

-----------------------------------------------------------------------------
(* The conversions of a prompt.  A content is a sequence of words.            *)

(* Mutant: the role is not hashed.                                            *)
PromptHashText(model, prompt) ==
  LET raw[n \in 0..Len(prompt)] ==
        IF n = 0 THEN <<model>> ELSE raw[n - 1] \o <<"|">> \o prompt[n].content
  IN  IF prompt = <<>> THEN <<model, "|">> ELSE raw[Len(prompt)]

(* prompt_hash before SHA-256, which is taken to be injective.  The join      *)
(* escapes nothing, and a content may be any string.                          *)
PromptHash(model, prompt) ==
  LET raw[n \in 0..Len(prompt)] ==
        IF n = 0 THEN <<model>>
        ELSE raw[n - 1] \o <<"|", prompt[n].role, ":">> \o prompt[n].content
  IN  IF prompt = <<>> THEN <<model, "|">> ELSE raw[Len(prompt)]

(* prompt_text: what is embedded has no roles.                                *)
PromptText(prompt) ==
  LET text[n \in 0..Len(prompt)] ==
        IF n <= 1 THEN IF n = 0 THEN <<>> ELSE prompt[n].content
        ELSE text[n - 1] \o <<"\n">> \o prompt[n].content
  IN  text[Len(prompt)]

Texts == {PromptText(p) : p \in Prompts}
Keys  == {<<m, PromptHash(m, p)>> : m \in Models, p \in Prompts}

(* No content of the prompt has the separator of prompt_hash in it.           *)
Plain(p) ==
  \A n \in 1..Len(p) : \A i \in 1..Len(p[n].content) : p[n].content[i] # "|"

ASSUME PromptAssumption ==
  Prompts \subseteq Seq([role: Roles, content: Seq(Words)])

ASSUME CacheAssumption ==
  /\ Points \subseteq Int /\ Near \in Nat
  /\ EfSearch \subseteq Nat \ {0}
  /\ Nobody \notin Requests /\ IsFiniteSet(Requests)

VARIABLES
  ef,        \* hnsw.ef_search: how many rows a scan of the index visits
  service,   \* service[p]: the lazily loaded embeddings of the process p
  l1,        \* l1[k]: the answer under the Redis key k, or Nobody
  l2,        \* the answers that have a row in semantic_cache
  pc,        \* pc[r]: where r is
  at,        \* at[r]: the process that handles r
  model,     \* model[r], prompt[r]: what r asks
  prompt,
  key,       \* key[r]: the Redis key of that, with p_hash
  vector,    \* vector[r]: the embedding of p_text
  got,       \* got[r]: the answer r received, or Nobody
  tier,      \* tier[r]: the tier it came from, or "none"
  before     \* history: the rows there were when r began

given == <<ef, at, model, prompt, key, vector>>
vars == <<given, service, l1, l2, pc, got, tier, before>>

Steps == {"idle", "l1", "embed", "l2", "call", "putL1", "embedPut", "putL2",
          "done"}

TypeOK ==
  /\ ef \in EfSearch
  /\ service \in [Processes -> {"unresolved", "on", "off"}]
  /\ l1 \in [Keys -> Requests \cup {Nobody}]
  /\ l2 \subseteq Requests
  /\ pc \in [Requests -> Steps]
  /\ at \in [Requests -> Processes]
  /\ model \in [Requests -> Models]
  /\ prompt \in [Requests -> Prompts]
  /\ key \in [Requests -> Keys]
  /\ vector \in [Requests -> Points]
  /\ got \in [Requests -> Requests \cup {Nobody}]
  /\ tier \in [Requests -> {"none", "L1", "L2"}]
  /\ before \in [Requests -> SUBSET Requests]

Init ==
  /\ ef \in EfSearch
  /\ service = [p \in Processes |-> "unresolved"]
  /\ l1 = [k \in Keys |-> Nobody]
  /\ l2 = {}
  /\ pc = [r \in Requests |-> "idle"]
  /\ at \in [Requests -> Processes]
  /\ model \in [Requests -> Models]
  /\ prompt \in [Requests -> Prompts]
  /\ key = [r \in Requests |-> <<model[r], PromptHash(model[r], prompt[r])>>]
  /\ \E embedding \in [Texts -> Points] :
       vector = [r \in Requests |-> embedding[PromptText(prompt[r])]]
  /\ got = [r \in Requests |-> Nobody]
  /\ tier = [r \in Requests |-> "none"]
  /\ before = [r \in Requests |-> {}]

Goto(r, step) == pc' = [pc EXCEPT ![r] = step]

(* cosine_distance, as the distance of two points.                            *)
Distance(q, r) ==
  IF vector[q] < vector[r] THEN vector[r] - vector[q] ELSE vector[q] - vector[r]

-----------------------------------------------------------------------------
Begin(r) ==
  /\ pc[r] = "idle"
  /\ before' = [before EXCEPT ![r] = l2]
  /\ Goto(r, "l1")
  /\ UNCHANGED <<given, service, l1, l2, got, tier>>

(* Mutant: the tier of the hit is left to the caller, which has none.         *)
HitUntold(r, q, t) ==
  /\ got' = [got EXCEPT ![r] = q]
  /\ tier' = [tier EXCEPT ![r] = Nobody]
  /\ Goto(r, "done")

(* r has the answer of q, of tier t.                                          *)
Hit(r, q, t) ==
  /\ got' = [got EXCEPT ![r] = q]
  /\ tier' = [tier EXCEPT ![r] = t]
  /\ Goto(r, "done")

Miss(r, step) == Goto(r, step) /\ UNCHANGED <<got, tier>>

(* ExactCache.get.                                                            *)
GetL1(r) ==
  /\ pc[r] = "l1"
  /\ IF l1[key[r]] # Nobody THEN Hit(r, l1[key[r]], "L1") ELSE Miss(r, "embed")
  /\ UNCHANGED <<given, service, l1, l2, before>>

(* SemanticCache.embed: the first caller of a process loads the model, and    *)
(* what came of it stays for the life of the process.  `on' and `off' are     *)
(* where the request goes on.                                                 *)
Embed(r, result, on, off) ==
  /\ result \in IF service[at[r]] = "unresolved" THEN {"on", "off"}
                                                 ELSE {service[at[r]]}
  /\ service' = [service EXCEPT ![at[r]] = result]
  /\ Goto(r, IF result = "on" THEN on ELSE off)
  /\ UNCHANGED <<given, l1, l2, before, got, tier>>

EmbedGet(r, result) == pc[r] = "embed" /\ Embed(r, result, "l2", "call")

(* The rows the query looks at: the whole table, or ef rows of all models if  *)
(* the planner takes ix_cache_vec, which filters afterwards.  The index is    *)
(* approximate: nothing says that these are the nearest ones.                 *)
Scans(r) == {l2} \cup {S \in SUBSET l2 : Cardinality(S) = ef}

(* Mutants of find_similar: no filter on the model; no order by distance.     *)
FoundOfAny(r, scan) ==
  {q \in scan : \A o \in scan : Distance(q, r) <= Distance(o, r)}

FoundUnordered(r, scan) == {q \in scan : model[q] = model[r]}

(* find_similar: the rows the query may return first; ties are broken by the  *)
(* database.                                                                  *)
Found(r, scan) ==
  LET rows == {q \in scan : model[q] = model[r]}
  IN  {q \in rows : \A o \in rows : Distance(q, r) <= Distance(o, r)}

(* Mutant: the threshold is not applied.                                      *)
CloseAlways(q, r) == TRUE

Close(q, r) == Distance(q, r) <= Near

(* SemanticCache.get.                                                         *)
GetL2(r) ==
  /\ pc[r] = "l2"
  /\ \E scan \in Scans(r) :
       \/ \E q \in Found(r, scan) :
            IF Close(q, r) THEN Hit(r, q, "L2") ELSE Miss(r, "call")
       \/ Found(r, scan) = {} /\ Miss(r, "call")
  /\ UNCHANGED <<given, service, l1, l2, before>>

(* The failover walk finds a backend that answers.                            *)
Call(r) ==
  /\ pc[r] = "call"
  /\ got' = [got EXCEPT ![r] = r]
  /\ Goto(r, "putL1")
  /\ UNCHANGED <<given, service, l1, l2, before, tier>>

(* ExactCache.put: the last writer wins.                                      *)
PutL1(r) ==
  /\ pc[r] = "putL1"
  /\ l1' = [l1 EXCEPT ![key[r]] = r]
  /\ Goto(r, "embedPut")
  /\ UNCHANGED <<given, service, l2, before, got, tier>>

EmbedPut(r, result) == pc[r] = "embedPut" /\ Embed(r, result, "putL2", "done")

(* SemanticCacheRepo.insert, and its commit.                                  *)
PutL2(r) ==
  /\ pc[r] = "putL2"
  /\ l2' = l2 \cup {r}
  /\ Goto(r, "done")
  /\ UNCHANGED <<given, service, l1, before, got, tier>>

(* Mutant: an exception is swallowed, and what there is of the answer is put. *)
FailedPut(r) == "putL1"

(* Where an exception or a cancellation leaves a request.                     *)
Failed(r) == "done"

(* A step of r fails: embed(), Redis, Postgres, all backends, a disconnect.   *)
Fail(r) ==
  /\ pc[r] \notin {"idle", "done"}
  /\ Goto(r, Failed(r))
  /\ UNCHANGED <<given, service, l1, l2, before, got, tier>>

(* The ttl of a key runs out.  Rows have none.                                *)
Expire(k) ==
  /\ l1[k] # Nobody
  /\ l1' = [l1 EXCEPT ![k] = Nobody]
  /\ UNCHANGED <<given, service, l2, pc, before, got, tier>>

(* A process is restarted: its requests end where they are.                   *)
Restart(p) ==
  /\ service[p] # "unresolved"
  /\ service' = [service EXCEPT ![p] = "unresolved"]
  /\ pc' = [r \in Requests |->
              IF at[r] = p /\ pc[r] # "idle" THEN "done" ELSE pc[r]]
  /\ UNCHANGED <<given, l1, l2, before, got, tier>>

Next ==
  \/ \E r \in Requests :
       \/ Begin(r) \/ GetL1(r) \/ GetL2(r) \/ Call(r) \/ PutL1(r) \/ PutL2(r)
       \/ Fail(r)
       \/ \E result \in {"on", "off"} : EmbedGet(r, result) \/ EmbedPut(r, result)
  \/ \E k \in Keys : Expire(k)
  \/ \E p \in Processes : Restart(p)

Spec == Init /\ [][Next]_vars

-----------------------------------------------------------------------------
(* "never cross-serve models": whatever the tier, the answer a request gets   *)
(* is one that a backend gave for the model it asked for.                     *)
NeverCrossServes ==
  \A r \in Requests : got[r] # Nobody => model[got[r]] = model[r]

(* Between prompts without separators an L1 hit is the answer to exactly the  *)
(* same messages, their number and their roles included, although the rows of *)
(* L2 and the embeddings ignore the roles.                                    *)
L1ExactWithoutSeparators ==
  \A r \in Requests :
    tier[r] = "L1" /\ Plain(prompt[r]) /\ Plain(prompt[got[r]]) =>
      prompt[got[r]] = prompt[r]

(* What was cached when a request began keeps it from the backends: in a      *)
(* process with embeddings it is at no backend while a row close enough was   *)
(* there from the start, whatever was put, expired or restarted meanwhile.    *)
(* A table larger than ef_search has no such guarantee.                       *)
NoRepeatedCall ==
  \A r \in Requests :
    pc[r] = "call" /\ service[at[r]] = "on" /\ Cardinality(l2) <= ef =>
      ~\E q \in before[r] : model[q] = model[r] /\ Distance(q, r) <= Near

(* Two prompts with one hash that need not be the same: a content of one of   *)
(* them has the separator in it.                                              *)
MayCollide(q, r) ==
  key[q] = key[r] /\ ~(Plain(prompt[q]) /\ Plain(prompt[r]))

(* What a store holds is found in one of the tiers.                           *)
Cache == INSTANCE SemanticStore WITH
  compatible <- {pair \in Requests \X Requests :
                   /\ model[pair[2]] = model[pair[1]]
                   /\ \/ Distance(pair[2], pair[1]) <= Near
                      \/ MayCollide(pair[2], pair[1])},
  asked <- {r \in Requests : pc[r] # "idle"},
  store <- l2 \cup {l1[k] : k \in {c \in DOMAIN l1 : l1[c] # Nobody}}

(* The two tiers together implement one store: every answer a request gets is *)
(* fresh from a backend, or a backend gave it to an earlier request for the   *)
(* same model and for a close enough prompt; nothing else is ever stored.     *)
(* Only a prompt with a separator in a content may get the answer to one that *)
(* is not close: one that collides with it.                                   *)
ImplementsStore == Cache!Spec

-----------------------------------------------------------------------------
(* What the design document says of L1: "identical prompts hit L1", and no    *)
(* other ones.                                                                *)
L1IsExact ==
  \A r \in Requests : tier[r] = "L1" => prompt[got[r]] = prompt[r]

(* What it says of L2: "near-duplicates hit L2 via vector similarity",        *)
(* however many rows there are.                                               *)
NearDuplicatesHitL2 ==
  \A r \in Requests :
    pc[r] = "call" /\ service[at[r]] = "on" =>
      ~\E q \in before[r] : model[q] = model[r] /\ Distance(q, r) <= Near

=============================================================================
