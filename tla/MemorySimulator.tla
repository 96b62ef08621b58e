---------------------------- MODULE MemorySimulator ----------------------------
(***************************************************************************)
(* common/memory_sim.py on its own: one MemorySimulator and any sequence   *)
(* of allocate, touch and free calls.  allocate holds the lock over a loop *)
(* that evicts one block per iteration and may give up in the middle, so   *)
(* it is several steps here; the other calls are one step each.            *)
(***************************************************************************)
EXTENDS KVPool

CONSTANTS
    Sizes,      \* the block sizes callers ask for
    Ticks,      \* what time.time() may gain between two readings
    MaxOps      \* bound: calls made to the simulator

ASSUME SimulatorAssumption ==
    /\ Sizes \subseteq Nat
    /\ Ticks \subseteq Int
    /\ MaxOps \in Nat

VARIABLES
    pool,       \* the simulator's fields
    holder,     \* the allocate call inside the lock, if any
    clock,      \* the latest reading of time.time()
    ops,        \* calls made so far
    lastUse     \* history: the call that last entered or touched each id

vars == <<pool, holder, clock, ops, lastUse>>

(***************************************************************************)
(* An allocate call in the lock: its arguments, and the other blocks that  *)
(* were present when it took the lock (history).                           *)
(***************************************************************************)
Call == [id : KvIds, size : Nat, others : SUBSET KvIds]

Init ==
    /\ \E policy \in Policies : pool = EmptyPool(policy)
    /\ holder = {}
    /\ clock = 0
    /\ ops = 0
    /\ lastUse = [b \in KvIds |-> 0]

CountCall == ops < MaxOps /\ ops' = ops + 1

\* A call that takes the lock starts only when no allocate is in it.
StartCall == holder = {} /\ CountCall

-------------------------------------------------------------------------------
\* allocate of a block larger than the pool is refused before the lock,
\* also while another call is in it.
AllocateTooBig(size) ==
    /\ CountCall
    /\ size > TotalMB
    /\ pool' = CountOom(pool)
    /\ UNCHANGED <<holder, clock, lastUse>>

\* allocate takes the lock and drops the old footprint of the same id.
AllocateBegin(b, size) ==
    /\ StartCall
    /\ size <= TotalMB
    /\ pool' = Release(pool, b)
    /\ holder' = {[id |-> b, size |-> size, others |-> Held(pool) \ {b}]}
    /\ UNCHANGED <<clock, lastUse>>

\* One iteration of the eviction loop.
AllocateEvict(call) ==
    /\ ~HasRoom(pool, call.size)
    /\ \E v \in Victims(pool) : pool' = Evict(pool, v)
    /\ UNCHANGED <<holder, clock, ops, lastUse>>

\* The loop finds no victim: OutOfMemoryError, with what was dropped gone.
AllocateFail(call) ==
    /\ ~HasRoom(pool, call.size)
    /\ Victims(pool) = {}
    /\ pool' = CountOom(pool)
    /\ holder' = {}
    /\ UNCHANGED <<clock, ops, lastUse>>

\* There is room: enter the block and release the lock.
AllocateCommit(call) ==
    /\ HasRoom(pool, call.size)
    /\ \E tick \in Ticks :
        /\ clock' = clock + tick
        /\ pool' = Insert(pool, call.id, call.size, clock + tick)
    /\ holder' = {}
    /\ lastUse' = [lastUse EXCEPT ![call.id] = ops]
    /\ UNCHANGED ops

TouchCall(b) ==
    /\ StartCall
    /\ IF b \in Held(pool)
       THEN /\ \E tick \in Ticks :
                /\ clock' = clock + tick
                /\ pool' = Touch(pool, b, clock + tick)
            /\ lastUse' = [lastUse EXCEPT ![b] = ops + 1]
       ELSE UNCHANGED <<pool, clock, lastUse>>
    /\ UNCHANGED holder

FreeCall(b) ==
    /\ StartCall
    /\ pool' = Release(pool, b)
    /\ UNCHANGED <<holder, clock, lastUse>>

Next ==
    \/ \E size \in Sizes : AllocateTooBig(size)
    \/ \E b \in KvIds, size \in Sizes : AllocateBegin(b, size)
    \/ \E call \in holder : AllocateEvict(call)
    \/ \E call \in holder : AllocateFail(call)
    \/ \E call \in holder : AllocateCommit(call)
    \/ \E b \in KvIds : TouchCall(b)
    \/ \E b \in KvIds : FreeCall(b)

\* An allocate call in the lock runs to its end; nothing makes callers call.
Fairness == WF_vars(\E call \in holder : \/ AllocateEvict(call)
                                         \/ AllocateFail(call)
                                         \/ AllocateCommit(call))

Spec == Init /\ [][Next]_vars /\ Fairness

-------------------------------------------------------------------------------
(***************************************************************************)
(* Types.                                                                  *)
(***************************************************************************)
TypeOK ==
    /\ IsPool(pool)
    /\ holder \in SUBSET Call
    /\ clock \in Int
    /\ ops \in 0..MaxOps
    /\ lastUse \in [KvIds -> Nat]

(***************************************************************************)
(* used_mb is the sum of the sizes of the blocks present, at every point   *)
(* of every call, also after an allocation that gave up half-way, and it   *)
(* never exceeds the pool.  (_used_mb is adjusted in four places of        *)
(* memory_sim.py and never recomputed.)                                    *)
(***************************************************************************)
Accounting == pool.used = Taken(pool) /\ pool.used <= TotalMB

(***************************************************************************)
(* While an evicting policy is in force, a block that fits the pool can    *)
(* always be allocated: the eviction loop never runs out of victims, so    *)
(* it never gives up after evicting other sessions' blocks for nothing.    *)
(***************************************************************************)
NoSpuriousOom ==
    \A call \in holder :
        pool.policy # "none" /\ ~HasRoom(pool, call.size) => Victims(pool) # {}

(***************************************************************************)
(* An allocation that ends in OutOfMemoryError has taken no block from     *)
(* anyone else: whatever else was present when it started still is.  (Its  *)
(* own previous block is gone, see the README.)                            *)
(***************************************************************************)
FailureSparesOthers ==
    [][\A call \in holder : AllocateFail(call) => call.others \subseteq Held(pool')]_vars

(***************************************************************************)
(* LRU evicts the block whose last use, in the order of the calls, is the  *)
(* earliest.  The code compares wall-clock readings, so this is about them *)
(* telling the calls apart.                                                *)
(***************************************************************************)
EvictsLeastRecentlyUsed ==
    [][\A v \in Held(pool) \ Held(pool') :
            pool.policy # "fifo" /\ pool'.evictions > pool.evictions =>
                \A b \in Held(pool') : lastUse[v] < lastUse[b]]_vars

(***************************************************************************)
(* FIFO evicts in the order of insertion, whatever was touched since:      *)
(* every block left behind was entered after the one evicted.              *)
(***************************************************************************)
EvictsOldest ==
    [][\A v \in Held(pool) \ Held(pool') :
            pool.policy = "fifo" /\ pool'.evictions > pool.evictions =>
                \A b \in Held(pool') : pool.blocks[v].pos < pool.blocks[b].pos]_vars

\* A call that took the lock gives it back.
LockReleased == holder # {} ~> holder = {}
===============================================================================
