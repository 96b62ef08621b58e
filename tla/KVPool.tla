-------------------------------- MODULE KVPool --------------------------------
(***************************************************************************)
(* The data of common/memory_sim.py: a fixed pool of simulated GPU memory  *)
(* holding KV-cache blocks, and what each piece of MemorySimulator's       *)
(* methods does to it.  A module that owns a pool (the simulator on its    *)
(* own, a decode node, a prefill node) keeps it in a variable and applies  *)
(* these operators, one per loop iteration or branch of the code.          *)
(*                                                                         *)
(* Memory is counted in whole units; the code's floats are exact for the   *)
(* shipped KV_MB_PER_TOKEN of 0.5.  Time stamps are integers of which the  *)
(* pool only reads the order.                                              *)
(***************************************************************************)
EXTENDS Integers, FiniteSets, Functions

CONSTANTS
    KvIds,      \* the kv_cache_ids in use
    TotalMB,    \* MemorySimulator.total_mb, in units
    Policies    \* the eviction policies a pool may be set up with: "none",
                \* "fifo", and any other word means LRU

ASSUME PoolAssumption == TotalMB \in Nat /\ Policies \subseteq STRING

(***************************************************************************)
(* KVBlock, with pos, its place in the insertion order of the _blocks      *)
(* dictionary: min() returns the first of several equal blocks in that     *)
(* order.  pos is the value of the allocations counter at insertion.       *)
(* allocate takes a size below zero as it takes any other.                 *)
(***************************************************************************)
Block == [size : Int, created : Int, last : Int, pos : Nat]

\* MemorySimulator's fields.  blocks is a function on the ids present.
IsPool(pool) ==
    /\ DOMAIN pool = {"policy", "blocks", "used", "evictions", "oom", "allocs"}
    /\ pool.policy \in Policies
    /\ DOMAIN pool.blocks \subseteq KvIds
    /\ pool.blocks \in [DOMAIN pool.blocks -> Block]
    /\ pool.used \in Int
    /\ pool.evictions \in Nat /\ pool.oom \in Nat /\ pool.allocs \in Nat

EmptyPool(policy) ==
    [policy |-> policy, blocks |-> [b \in {} |-> 0],
     used |-> 0, evictions |-> 0, oom |-> 0, allocs |-> 0]

Held(pool) == DOMAIN pool.blocks

-------------------------------------------------------------------------------
(***************************************************************************)
(* The memory units taken by the blocks, and those that blocks of a size   *)
(* below zero add to the pool.  The difference of their numbers is the sum *)
(* of the block sizes, which used is meant to be.                          *)
(***************************************************************************)
Footprint(blocks) == UNION {{b} \X (1..blocks[b].size) : b \in DOMAIN blocks}

Lent(blocks) == UNION {{b} \X (1..(-blocks[b].size)) : b \in DOMAIN blocks}

Taken(pool) == Cardinality(Footprint(pool.blocks)) - Cardinality(Lent(pool.blocks))

-------------------------------------------------------------------------------
(***************************************************************************)
(* Plausible slips, each used by a mutant of the definition it shadows: a  *)
(* pop that leaves the books alone, an off-by-one in the loop condition,   *)
(* the two stamps swapped, the newest block for a victim, a victim looked  *)
(* up but not popped, a counter run backwards, a pool reset on failure, a  *)
(* touch without effect.                                                   *)
(***************************************************************************)
DropForgettingUsed(pool, b) ==
    [pool EXCEPT !.blocks = Restrict(@, DOMAIN @ \ {b})]

RoomOffByOne(pool, size) == pool.used + size <= TotalMB + 1

StampSwapped(policy, blk) == IF policy = "fifo" THEN blk.last ELSE blk.created

NewestVictims(pool) ==
    {v \in Held(pool) : \A b \in Held(pool) :
        pool.blocks[b].pos <= pool.blocks[v].pos}

EvictNothing(pool, v) == pool

EvictCountingDown(pool, v) ==
    [pool EXCEPT !.blocks = Restrict(@, DOMAIN @ \ {v}),
                 !.used = @ - pool.blocks[v].size,
                 !.evictions = @ - 1]

CountOomResetting(pool) ==
    [EmptyPool(pool.policy) EXCEPT !.evictions = pool.evictions, !.oom = pool.oom + 1,
                                   !.allocs = pool.allocs]

TouchNothing(pool, b, now) == pool

-------------------------------------------------------------------------------
(***************************************************************************)
(* self._used_mb -= self._blocks.pop(b).size_mb, the form every removal    *)
(* takes.                                                                  *)
(***************************************************************************)
Drop(pool, b) ==
    [pool EXCEPT !.blocks = Restrict(@, DOMAIN @ \ {b}),
                 !.used = @ - pool.blocks[b].size]

\* free(b), and the first step of allocate under the lock: drop b if present.
Release(pool, b) == IF b \in Held(pool) THEN Drop(pool, b) ELSE pool

\* The negation of allocate's loop condition.
HasRoom(pool, size) == pool.used + size <= TotalMB

\* What the policy compares.
Stamp(policy, blk) == IF policy = "fifo" THEN blk.created ELSE blk.last

(***************************************************************************)
(* _pick_victim: the block of least stamp, the first in dictionary order   *)
(* among equals; none when the pool is empty or the policy forbids it.     *)
(***************************************************************************)
Before(policy, a, b) ==
    \/ Stamp(policy, a) < Stamp(policy, b)
    \/ Stamp(policy, a) = Stamp(policy, b) /\ a.pos <= b.pos

Victims(pool) ==
    {v \in Held(pool) :
        /\ pool.policy # "none"
        /\ \A b \in Held(pool) : Before(pool.policy, pool.blocks[v], pool.blocks[b])}

\* One iteration of allocate's eviction loop.
Evict(pool, v) == [Drop(pool, v) EXCEPT !.evictions = @ + 1]

\* The end of allocate: enter the new block.
Insert(pool, b, size, now) ==
    [pool EXCEPT !.blocks = [x \in DOMAIN @ \cup {b} |->
                                IF x = b THEN [size |-> size, created |-> now,
                                               last |-> now, pos |-> pool.allocs]
                                         ELSE @[x]],
                 !.used = @ + size,
                 !.allocs = @ + 1]

\* Both places where allocate gives up.
CountOom(pool) == [pool EXCEPT !.oom = @ + 1]

\* touch(b) of a block that is present.
Touch(pool, b, now) == [pool EXCEPT !.blocks[b].last = now]

===============================================================================
