--------------------------- MODULE MCMemorySimulator ---------------------------
(***************************************************************************)
(* Values for checking MemorySimulator: three ids, a pool of three units,  *)
(* blocks of one and two units and one that cannot fit.                    *)
(***************************************************************************)
EXTENDS MemorySimulator

CONSTANTS a, b, c

MCKvIds == {a, b, c}
MCSizes == {1, 2, 4}
MCTotalMB == 3
MCPolicies == {"lru", "fifo", "none"}

\* time.time() tells two calls apart.
StrictTicks == {1}
===============================================================================
