--------------------------- MODULE MCDecodeScheduler ---------------------------
(***************************************************************************)
(* Values for checking DecodeScheduler: a pool of three units, a batch of  *)
(* three, five requests.  Some pairs of them fill the pool, some need an   *)
(* eviction, one never fits.  Their max_tokens are two, absent (0),        *)
(* negative and one.                                                       *)
(***************************************************************************)
EXTENDS DecodeScheduler, TLC

CONSTANTS r1, r2, r3, r4, r5, ka, kb, kc, kd, ke

MCReqs == {r1, r2, r3, r4, r5}
MCKvIds == {ka, kb, kc, kd, ke}
MCTotalMB == 3
MCPolicies == {"lru", "fifo", "none"}

\* Every request with the id of its own prefill, as the router sends them.
OwnKv == r1 :> ka @@ r2 :> kb @@ r3 :> kc @@ r4 :> kd @@ r5 :> ke

\* Two requests for one KV cache, as a repeated call sends them.
SharedKv == r1 :> ka @@ r2 :> ka @@ r3 :> kc @@ r4 :> kd @@ r5 :> ke

MCSizes == r1 :> 2 @@ r2 :> 1 @@ r3 :> 2 @@ r4 :> 4 @@ r5 :> 1

MCMaxTok == r1 :> 2 @@ r2 :> 0 @@ r3 :> -1 @@ r4 :> 1 @@ r5 :> 2

\* time.time() tells two readings apart.
StrictTicks == {1}
===============================================================================
