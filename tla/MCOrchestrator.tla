--------------------------- MODULE MCOrchestrator ---------------------------
(***************************************************************************)
(* The kinds of requests that the runs of Orchestrator mix.                *)
(***************************************************************************)
EXTENDS Orchestrator, TLC

(* Both handlers read x_cache in the same way: no-store is enough on one.     *)
MixedKinds == [stream: BOOLEAN, bypass: {FALSE}] \cup [stream: {FALSE}, bypass: {TRUE}]

StreamKind == [stream: {TRUE}, bypass: {FALSE}]

(* Requests and backends are interchangeable; used only where no property is  *)
(* about liveness.                                                            *)
Interchangeable == Permutations(Requests) \cup Permutations(Backends)

CacheKinds == [stream: BOOLEAN, bypass: {FALSE}]

=============================================================================
