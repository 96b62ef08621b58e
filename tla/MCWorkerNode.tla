------------------------------ MODULE MCWorkerNode ------------------------------
(***************************************************************************)
(* Values for checking WorkerNode: a pool of three units and a batch of    *)
(* three.  As a prefill node it serves two prefills, one of which never    *)
(* fits, and a colocated call with an empty prompt; as a decode node a     *)
(* call that leaves the size of its cache to the metadata, one that asks   *)
(* for a size below zero and has no metadata, and one that fits beside     *)
(* them for that reason.                                                   *)
(***************************************************************************)
EXTENDS WorkerNode, TLC

CONSTANTS r1, d1, d2, d3, c1, c2, ka, kc, kd, ke, kf, kg

MCGenerates == {r1}
MCDecodeCalls == {d1, d2, d3}
MCPrefillCalls == {c1, c2}
MCKvIds == {ka, kc, kd, ke, kf, kg}
MCTotalMB == 3
MCPolicies == {"lru", "none"}

\* Two units per token.  An empty prompt counts for a token.
MCWords == r1 :> 0 @@ c1 :> 1 @@ c2 :> 2
MCAsked == d1 :> 0 @@ d2 :> -1 @@ d3 :> 2
MCMeta == d1 :> 2
MCKvOf == r1 :> ka @@ c1 :> kc @@ c2 :> kd @@ d1 :> ke @@ d2 :> kf @@ d3 :> kg
MCMaxTok == r1 :> 2 @@ d1 :> 1 @@ d2 :> 1 @@ d3 :> 1

StrictTicks == {1}
===============================================================================
