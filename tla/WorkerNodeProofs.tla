--------------------------- MODULE WorkerNodeProofs ---------------------------
(***************************************************************************)
(* A worker node: the handlers of WorkerNode around the scheduler.  Its    *)
(* types, the books its two users keep of one pool, the metrics, and what  *)
(* refusals and streams promise: for any calls, sizes, ids, pool, policy,  *)
(* batch size and clock.                                                   *)
(*                                                                         *)
(* Nothing of the scheduler is proved again: WorkerNode instantiates it,   *)
(* Sched instantiates the proofs about it, and the first lemmas show that  *)
(* the two speak of the same actions.  What is left are the steps of the   *)
(* prefills.                                                               *)
(***************************************************************************)
EXTENDS WorkerNode, KVPoolProofs, SequenceTheorems

\* What is proved of the scheduler.
Sched == INSTANCE DecodeSchedulerProofs

-------------------------------------------------------------------------------
(***************************************************************************)
(* What the handlers submit and allocate has a size.                       *)
(***************************************************************************)
LEMMA SizeIsInt ==
    /\ SizeOf \in [Reqs -> Int]
    /\ \A x \in Prompted : KvSize(Words[x]) \in Nat
<1>1. \A w \in Nat : KvSize(w) \in Nat
  BY ModelAssumption DEF KvSize, CountTokens
<1>2. \A x \in Prompted : KvSize(Words[x]) \in Nat
  BY <1>1, NodeAssumption
<1>3. \A r \in Reqs : r \notin Generates => r \in DecodeCalls
  BY DEF Reqs
<1> QED
  BY <1>2, <1>3, NodeAssumption DEF SizeOf, Prompted

(***************************************************************************)
(* The scheduler of a worker node is one of those its proofs are about.    *)
(***************************************************************************)
LEMMA SchedAssumptions == Sched!SchedulerAssumption /\ Sched!PoolAssumption
BY SizeIsInt, NodeAssumption, PoolAssumption
   DEF Sched!SchedulerAssumption, Sched!PoolAssumption, Reqs, Calls

(***************************************************************************)
(* The scheduler inside WorkerNode is the one the lemmas of                *)
(* DecodeSchedulerProofs speak of, action by action.                       *)
(***************************************************************************)
LEMMA SameSubmit ==
    ASSUME NEW r, Scheduler!Submit(r)
    PROVE  Sched!Submit(r)
BY DEF Scheduler!Submit, Sched!Submit, Scheduler!Submitted, Sched!Submitted,
       Scheduler!Closed, Sched!Closed

LEMMA SameAdmit ==
    ASSUME NEW r
    PROVE  /\ Scheduler!AdmitEvict(r) <=> Sched!AdmitEvict(r)
           /\ Scheduler!AdmitReject(r) <=> Sched!AdmitReject(r)
           /\ Scheduler!AdmitSeat(r) <=> Sched!AdmitSeat(r)
<1> USE DEF Scheduler!HasRoom, Sched!HasRoom, Scheduler!Victims, Sched!Victims,
       Scheduler!Held, Sched!Held, Scheduler!Before, Sched!Before,
       Scheduler!Stamp, Sched!Stamp
<1>1. Scheduler!AdmitEvict(r) <=> Sched!AdmitEvict(r)
  BY DEF Scheduler!AdmitEvict, Sched!AdmitEvict, Scheduler!Evict, Sched!Evict,
       Scheduler!Drop, Sched!Drop, Scheduler!Restrict, Sched!Restrict
<1>2. Scheduler!AdmitReject(r) <=> Sched!AdmitReject(r)
  BY DEF Scheduler!AdmitReject, Sched!AdmitReject, Scheduler!CountOom, Sched!CountOom,
       Scheduler!Put, Sched!Put, Scheduler!Final, Sched!Final
<1>3. Scheduler!AdmitSeat(r) <=> Sched!AdmitSeat(r)
  BY DEF Scheduler!AdmitSeat, Sched!AdmitSeat, Scheduler!Insert, Sched!Insert
<1> QED
  BY <1>1, <1>2, <1>3

(***************************************************************************)
(* An instance has its own copy of the library: the copies agree.          *)
(***************************************************************************)
LEMMA SameSize ==
    /\ \A S : Sched!Cardinality(S) = Cardinality(S)
    /\ \A S : Scheduler!Cardinality(S) = Cardinality(S)
    /\ \A S : Sched!IsFiniteSet(S) <=> IsFiniteSet(S)
<1>1. \A S : Sched!Cardinality(S) = Cardinality(S)
  BY DEF Sched!Cardinality, Cardinality
<1>2. \A S : Scheduler!Cardinality(S) = Cardinality(S)
  BY DEF Scheduler!Cardinality, Cardinality
<1>3. \A S : Sched!IsFiniteSet(S) <=> IsFiniteSet(S)
  BY DEF Sched!IsFiniteSet, IsFiniteSet
<1> QED
  BY <1>1, <1>2, <1>3

LEMMA SameLoop ==
    /\ Scheduler!AdmitDone <=> Sched!AdmitDone
    /\ Scheduler!PassDone <=> Sched!PassDone
    /\ Scheduler!AdmitTooBig <=> Sched!AdmitTooBig
    /\ Scheduler!AdmitTake <=> Sched!AdmitTake
    /\ Scheduler!WakeIdle <=> Sched!WakeIdle
    /\ Scheduler!WakeStep <=> Sched!WakeStep
    /\ Scheduler!Stop <=> Sched!Stop
    /\ \A r : Scheduler!Emit(r) <=> Sched!Emit(r)
    /\ \A r : Scheduler!Retire(r) <=> Sched!Retire(r)
<1>0. Scheduler!CanAdmit <=> Sched!CanAdmit
  BY SameSize DEF Scheduler!CanAdmit, Sched!CanAdmit
<1> USE DEF Scheduler!Held, Sched!Held, Scheduler!Admitting, Sched!Admitting,
       Scheduler!Put, Sched!Put, Scheduler!Final, Sched!Final,
       Scheduler!Closed, Sched!Closed, Scheduler!IsFirst, Sched!IsFirst,
       Scheduler!Release, Sched!Release, Scheduler!Drop, Sched!Drop, 
       Scheduler!Restrict, Sched!Restrict
<1>1. /\ Scheduler!AdmitDone <=> Sched!AdmitDone
      /\ Scheduler!WakeIdle <=> Sched!WakeIdle
      /\ Scheduler!WakeStep <=> Sched!WakeStep
      /\ Scheduler!Stop <=> Sched!Stop
  BY <1>0 DEF Scheduler!AdmitDone, Sched!AdmitDone, Scheduler!WakeIdle, Sched!WakeIdle,
       Scheduler!WakeStep, Sched!WakeStep, Scheduler!Stop, Sched!Stop
<1>2. Scheduler!PassDone <=> Sched!PassDone
  BY DEF Scheduler!PassDone, Sched!PassDone
<1>3. Scheduler!AdmitTooBig <=> Sched!AdmitTooBig
  BY <1>0 DEF Scheduler!AdmitTooBig, Sched!AdmitTooBig, Scheduler!CountOom, Sched!CountOom
<1>4. Scheduler!AdmitTake <=> Sched!AdmitTake
  BY <1>0 DEF Scheduler!AdmitTake, Sched!AdmitTake
<1>5. ASSUME NEW r
      PROVE  Scheduler!Emit(r) <=> Sched!Emit(r)
  BY DEF Scheduler!Emit, Sched!Emit, Scheduler!TouchBlock, Sched!TouchBlock,
     Scheduler!Touch, Sched!Touch, Scheduler!Token, Sched!Token, Scheduler!Goal, Sched!Goal
<1>6. ASSUME NEW r
      PROVE  Scheduler!Retire(r) <=> Sched!Retire(r)
  BY DEF Scheduler!Retire, Sched!Retire
<1> QED
  BY <1>1, <1>2, <1>3, <1>4, <1>5, <1>6

(***************************************************************************)
(* So is its pool.                                                         *)
(***************************************************************************)
LEMMA SamePool ==
    /\ \A p : Sched!SoundPool(p) <=> SoundPool(p)
    /\ \A p : Sched!Held(p) = Held(p)
    /\ \A p, q : Sched!NothingMore(p, q) <=> NothingMore(p, q)
    /\ \A p, q, b, size : Sched!OneMore(p, q, b, size) <=> OneMore(p, q, b, size)
<1>1. \A p : Sched!Held(p) = Held(p)
  BY DEF Sched!Held, Held
<1>2. ASSUME NEW p
      PROVE  Sched!IsPool(p) <=> IsPool(p)
  BY DEF Sched!IsPool, IsPool, Sched!Block, Block
<1>3. ASSUME NEW p
      PROVE  Sched!Gross(p) = Gross(p) /\ Sched!Owed(p) = Owed(p)
  BY SameSize DEF Sched!Gross, Gross, Sched!Owed, Owed,
     Sched!Footprint, Footprint, Sched!Lent, Lent
<1>4. ASSUME NEW p
      PROVE  Sched!Taken(p) = Taken(p)
  BY <1>3 DEF Sched!Taken, Taken, Sched!Gross, Gross, Sched!Owed, Owed
<1>5. ASSUME NEW p
      PROVE  Sched!SoundPool(p) <=> SoundPool(p)
  BY <1>1, <1>2, <1>4, SameSize DEF Sched!SoundPool, SoundPool
<1>6. ASSUME NEW p, NEW q
      PROVE  Sched!NothingMore(p, q) <=> NothingMore(p, q)
  BY <1>1, <1>3 DEF Sched!NothingMore, NothingMore
<1>7. ASSUME NEW p, NEW q, NEW b, NEW size
      PROVE  Sched!OneMore(p, q, b, size) <=> OneMore(p, q, b, size)
  BY <1>1, <1>3 DEF Sched!OneMore, OneMore
<1> QED
  BY <1>1, <1>5, <1>6, <1>7

(***************************************************************************)
(* And what the scheduler computes of the pool is what the prefill handler *)
(* computes.                                                               *)
(***************************************************************************)
LEMMA SameHelpers ==
    /\ \A p, size : Scheduler!HasRoom(p, size) <=> HasRoom(p, size)
    /\ \A p : Scheduler!Victims(p) = Victims(p)
    /\ \A p, v : Scheduler!Evict(p, v) = Evict(p, v)
<1>1. \A p, size : Scheduler!HasRoom(p, size) <=> HasRoom(p, size)
  BY DEF Scheduler!HasRoom, HasRoom
<1>2. \A p : Scheduler!Victims(p) = Victims(p)
  BY DEF Scheduler!Victims, Victims, Scheduler!Held, Held, Scheduler!Before, Before,
         Scheduler!Stamp, Stamp
<1>3. \A p, v : Scheduler!Evict(p, v) = Evict(p, v)
  BY DEF Scheduler!Evict, Evict, Scheduler!Drop, Drop, Scheduler!Restrict, Restrict
<1> QED
  BY <1>1, <1>2, <1>3

\* A step of the scheduler, as DecodeSchedulerProofs sees it.
SchedStep == [Sched!Next]_(Sched!vars)

(***************************************************************************)
(* Whatever the node does on behalf of its scheduler is a step of it.      *)
(***************************************************************************)
LEMMA SchedulerSteps ==
    ASSUME RunScheduler \/ Shutdown \/ (\E r \in Reqs : SubmitSeq(r))
    PROVE  SchedStep
<1>1. CASE RunScheduler
  BY <1>1, SameAdmit, SameLoop DEF RunScheduler, SchedStep, Sched!Next, Sched!Loop
<1>2. CASE Shutdown
  BY <1>2, SameLoop DEF Shutdown, SchedStep, Sched!Next
<1>3. CASE \E r \in Reqs : SubmitSeq(r)
  BY <1>3, SameSubmit DEF SubmitSeq, SchedStep, Sched!Next
<1> QED
  BY <1>1, <1>2, <1>3

-------------------------------------------------------------------------------
(***************************************************************************)
(* The scheduler's own invariant, NoLeftovers apart, which does not hold   *)
(* in a pool with a second user.                                           *)
(***************************************************************************)
SchedInv ==
    /\ Sched!TypeInv /\ Sched!PoolInv /\ Sched!QueueInv /\ Sched!StreamInv
    /\ IsFiniteSet(active)

LEMMA SameInit == Scheduler!Init => Sched!Init
BY DEF Scheduler!Init, Sched!Init, Scheduler!EmptyPool, Sched!EmptyPool

(***************************************************************************)
(* It holds initially.                                                     *)
(***************************************************************************)
LEMMA SchedInit == Init => SchedInv
<1> SUFFICES ASSUME Init PROVE SchedInv
  OBVIOUS
<1>1. Sched!Init
  BY SameInit DEF Init
<1>2. Sched!TypeInv /\ Sched!PoolInv /\ Sched!QueueInv
  BY <1>1, SchedAssumptions, Sched!InitInv
<1>3. Sched!StreamInv
  BY <1>1, SchedAssumptions, Sched!InitStream
<1>4. IsFiniteSet(active)
  BY <1>1, FS_EmptySet DEF Sched!Init
<1> QED
  BY <1>2, <1>3, <1>4 DEF SchedInv

(***************************************************************************)
(* The scheduler's own steps keep it.                                      *)
(***************************************************************************)
LEMMA SchedKept ==
    ASSUME SchedInv, SchedStep
    PROVE  SchedInv'
<1> USE SchedAssumptions DEF SchedStep, SchedInv
<1>1. Sched!TypeInv'
  BY Sched!TypeStep
<1>2. Sched!PoolInv'
  BY Sched!PoolStep
<1>3. Sched!QueueInv'
  BY Sched!QueueStep
<1>4. Sched!StreamInv'
  BY Sched!StreamStep
<1>5. IsFiniteSet(active')
  BY Sched!FiniteStep, SameSize
<1> QED
  BY <1>1, <1>2, <1>3, <1>4, <1>5

(***************************************************************************)
(* So does whoever changes the pool alone, and leaves it sound, while      *)
(* nobody is being admitted: the invariant of the scheduler speaks of the  *)
(* content of the pool only where it is about the request inside allocate. *)
(***************************************************************************)
LEMMA PoolAlone ==
    ASSUME SchedInv, UNCHANGED queueVars, taken = {}, clock' \in Int,
           SoundPool(pool')
    PROVE  SchedInv'
<1> USE DEF SchedInv, queueVars
<1>1. Sched!TypeInv'
  BY DEF Sched!TypeInv
<1>2. Sched!PoolInv'
  BY SamePool DEF Sched!PoolInv
<1>3. Sched!QueueInv'
  BY DEF Sched!QueueInv
<1>4. Sched!StreamInv'
  BY DEF Sched!StreamInv, Sched!Closed, Sched!Queued, Sched!LimitBar, Sched!Goal
<1> QED
  BY <1>1, <1>2, <1>3, <1>4

-------------------------------------------------------------------------------
(***************************************************************************)
(* The inductive invariant, part by part. The handlers': a call that has   *)
(* begun is one the node serves, and no handler has read more chunks than  *)
(* there are.                                                              *)
(***************************************************************************)
HandlerInv ==
    /\ role \in {"prefill", "decode"}
    /\ stage \in [Calls -> {"new", "reading", "storing", "done", "gone", "ok", "error"}]
    /\ \A x \in Calls : stage[x] # "new" => Serves(x)
    /\ read \in [Reqs -> Nat]
    /\ \A r \in Reqs : read[r] <= Len(out[r])
    /\ evicted \in Nat
    /\ metrics \in [queue : Nat, batch : Nat, evictions : Nat]

(***************************************************************************)
(* A prefill inside allocate is alone there, the scheduler sleeps, it has  *)
(* passed the size check, and its id has no block any more.                *)
(***************************************************************************)
AllocInv ==
    /\ inside \subseteq PrefillCalls
    /\ \A c, d \in inside : c = d
    /\ \A c \in inside :
        /\ pc \in {"asleep", "stopped"}
        /\ stage[c] = "new" /\ Serves(c)
        /\ PrefillSize(c) <= TotalMB /\ KvOf[c] \notin Held(pool)

(***************************************************************************)
(* Every block is that of a running sequence or of a prefill past its      *)
(* allocation.                                                             *)
(***************************************************************************)
Past(c) == stage[c] \in {"storing", "ok", "error"}

BookInv ==
    \A b \in Held(pool) :
        (\E r \in active : KvOf[r] = b) \/ (\E c \in PrefillCalls : Past(c) /\ KvOf[c] = b)

(***************************************************************************)
(* Finitely many sequences were submitted, those in the queue and the one  *)
(* inside allocate among them.                                             *)
(***************************************************************************)
AskInv ==
    /\ IsFiniteSet(Submitted)
    /\ taken \subseteq Submitted
    /\ \A i \in 1..Len(waiting) : waiting[i] \in Submitted

(***************************************************************************)
(* What the blocks take passes the pool by what was asked for below zero   *)
(* at most, and a block below zero is one that was asked for.  (That used  *)
(* is within this bound is not inductive: a block below zero that goes     *)
(* lifts it.)                                                              *)
(***************************************************************************)
UnitInv ==
    /\ Gross(pool) <= TotalMB + BelowZero
    /\ \A b \in Held(pool) :
        \/ pool.blocks[b].size >= 0
        \/ \E r \in Submitted : KvOf[r] = b /\ SizeOf[r] = pool.blocks[b].size

(***************************************************************************)
(* The victims of the allocation under way are those the metric lacks;     *)
(* without eviction there are none, so nothing is missed when allocate     *)
(* raises.                                                                 *)
(***************************************************************************)
MetricInv ==
    /\ metrics.evictions + evicted = pool.evictions
    /\ pool.policy = "none" => evicted = 0
    /\ taken = {} /\ inside = {} => evicted = 0
    /\ pc \in {"asleep", "stopped"} =>
        metrics.queue = Len(waiting) /\ metrics.batch = Cardinality(active)

NodeInv ==
    /\ SchedInv /\ HandlerInv /\ AllocInv /\ BookInv /\ AskInv /\ UnitInv
    /\ AnnouncedStays /\ MetricInv

(***************************************************************************)
(* What the invariant says of the pool, the queue and the batch.           *)
(***************************************************************************)
LEMMA PoolParts ==
    ASSUME SchedInv
    PROVE  /\ SoundPool(pool)
           /\ pool.policy \in Policies /\ pool.evictions \in Nat /\ pool.oom \in Nat
           /\ \A r \in taken : /\ r \in Reqs /\ pc = "admit" /\ SizeOf[r] \in Int /\ SizeOf[r] <= TotalMB
                               /\ KvOf[r] \notin Held(pool)
           /\ waiting \in Seq(Reqs) /\ active \subseteq Reqs /\ clock \in Int
           /\ out \in [Reqs -> Seq(Sched!Chunks)]
           /\ Cardinality(active) \in Nat
<1>1. SoundPool(pool)
  BY SamePool DEF SchedInv, Sched!PoolInv
<1> QED
  BY <1>1, SamePool, SizeIsInt, FS_CardinalityType
     DEF SchedInv, Sched!PoolInv, Sched!TypeInv, SoundPool, IsPool

(***************************************************************************)
(* While the scheduler sleeps nobody is being admitted.                    *)
(***************************************************************************)
LEMMA NobodyTaken ==
    ASSUME SchedInv, pc \in {"asleep", "stopped"}
    PROVE  taken = {}
BY PoolParts

(***************************************************************************)
(* An allocation that could fit gives up only when nobody may be evicted   *)
(* although something is held.                                             *)
(***************************************************************************)
LEMMA RefusalMeans ==
    ASSUME SchedInv, NEW size \in Int, size <= TotalMB, ~HasRoom(pool, size), Victims(pool) = {}
    PROVE  pool.policy = "none" /\ Held(pool) # {}
<1>1. Held(pool) # {}
  BY EmptyHasRoom, PoolParts
<1> QED
  BY <1>1, VictimExists, PoolParts

(***************************************************************************)
(* What a step of the scheduler does to the blocks and the counters.       *)
(***************************************************************************)
LEMMA SchedEffect ==
    ASSUME SchedInv, SchedStep
    PROVE  /\ pool'.policy = pool.policy
           /\ Held(pool') \subseteq {KvOf[r] : r \in active'} \cup
                            (Held(pool) \ {KvOf[r] : r \in active \ active'})
           /\ pool.policy = "none" =>
                Held(pool) \ {KvOf[r] : r \in Reqs} \subseteq Held(pool')
           /\ \/ pool'.evictions = pool.evictions
              \/ /\ \E r \in taken : Scheduler!AdmitEvict(r)
                 /\ pool'.evictions = pool.evictions + 1 /\ pool.policy # "none"
           /\ \/ pool'.oom = pool.oom
              \/ Scheduler!AdmitTooBig
              \/ \E r \in taken : Scheduler!AdmitReject(r)
<1> USE SchedAssumptions DEF SchedStep, SchedInv
<1>1. Sched!OwnBlocksOnly
  BY Sched!PoolStep
<1>2. /\ \/ pool'.evictions = pool.evictions
         \/ /\ \E r \in taken : Sched!AdmitEvict(r)
            /\ pool'.evictions = pool.evictions + 1 /\ pool.policy # "none"
      /\ \/ pool'.oom = pool.oom
         \/ Sched!AdmitTooBig
         \/ \E r \in taken : Sched!AdmitReject(r)
  BY Sched!CountersStep
<1>3. \A p : Sched!Held(p) = Held(p)
  BY SamePool
<1> QED
  BY <1>1, <1>2, <1>3, SameAdmit, SameLoop DEF Sched!OwnBlocksOnly

(***************************************************************************)
(* An eviction by the scheduler is counted by the pool.                    *)
(***************************************************************************)
LEMMA SchedEvicts ==
    ASSUME SchedInv, NEW r, Scheduler!AdmitEvict(r)
    PROVE  pool'.evictions = pool.evictions + 1 /\ pool.policy # "none"
<1>1. PICK v \in Victims(pool) : pool' = Evict(pool, v)
  BY SameHelpers DEF Scheduler!AdmitEvict
<1>2. v \in Held(pool) /\ pool.policy # "none"
  BY <1>1 DEF Victims
<1> QED
  BY <1>1, <1>2, EvictSound, PoolParts

(***************************************************************************)
(* It never takes a chunk back.                                            *)
(***************************************************************************)
LEMMA OutGrows ==
    ASSUME SchedInv, SchedStep
    PROVE  \A r \in Reqs : Len(out[r]) <= Len(out'[r])
BY SchedAssumptions, Sched!StreamsGrow DEF SchedStep, SchedInv

-------------------------------------------------------------------------------
\* What a step of a prefill does to the pool: its blocks are then held, and
\* so many more were evicted.
PoolBecomes(held, victims) ==
    /\ SoundPool(pool') /\ pool'.policy = pool.policy
    /\ Held(pool') = held
    /\ pool'.evictions = pool.evictions + victims

(***************************************************************************)
(* The five steps of a prefill.                                            *)
(***************************************************************************)
LEMMA TooBigEffect ==
    ASSUME SchedInv, NEW c \in PrefillCalls, PrefillTooBig(c)
    PROVE  PoolBecomes(Held(pool), 0)
BY CountOomSound, PoolParts DEF PrefillTooBig, PoolBecomes, Held

LEMMA BeginEffect ==
    ASSUME SchedInv, NEW c \in PrefillCalls, PrefillBegin(c)
    PROVE  PoolBecomes(Held(pool) \ {KvOf[c]}, 0)
BY ReleaseSound, PoolParts DEF PrefillBegin, PoolBecomes

LEMMA EvictEffect ==
    ASSUME SchedInv, NEW c \in inside, PrefillEvict(c)
    PROVE  /\ pool.policy # "none"
           /\ \E v \in Held(pool) : PoolBecomes(Held(pool) \ {v}, 1)
<1>1. PICK v \in Victims(pool) : pool' = Evict(pool, v)
  BY DEF PrefillEvict
<1>2. v \in Held(pool) /\ pool.policy # "none"
  BY <1>1 DEF Victims
<1> QED
  BY <1>1, <1>2, EvictSound, PoolParts DEF PoolBecomes

LEMMA RefusedEffect ==
    ASSUME SchedInv, AllocInv, NEW c \in inside, PrefillRefused(c)
    PROVE  PoolBecomes(Held(pool), 0) /\ pool.policy = "none" /\ Held(pool) # {}
<1>1. PrefillSize(c) \in Nat /\ PrefillSize(c) <= TotalMB
  BY SizeIsInt DEF AllocInv, PrefillSize, Prompted
<1>2. pool.policy = "none" /\ Held(pool) # {}
  BY <1>1, RefusalMeans DEF PrefillRefused
<1> QED
  BY <1>2, CountOomSound, PoolParts DEF PrefillRefused, PoolBecomes, Held

LEMMA EnterEffect ==
    ASSUME SchedInv, AllocInv, NEW c \in inside, PrefillEnter(c)
    PROVE  PoolBecomes(Held(pool) \cup {KvOf[c]}, 0) /\ clock' \in Int
<1>1. PICK tick \in Ticks :
        /\ clock' = clock + tick
        /\ pool' = Insert(pool, KvOf[c], PrefillSize(c), clock + tick)
  BY DEF PrefillEnter
<1>2. tick \in Int /\ clock + tick \in Int
  BY NodeAssumption, PoolParts
<1>3. PrefillSize(c) \in Nat /\ KvOf[c] \in KvIds /\ KvOf[c] \notin Held(pool)
  BY SizeIsInt, NodeAssumption DEF AllocInv, PrefillSize, Prompted, Calls
<1>4. SoundPool(pool) /\ pool.evictions \in Nat
  BY PoolParts
<1> QED
  BY <1>1, <1>2, <1>3, <1>4, InsertSound DEF PoolBecomes

-------------------------------------------------------------------------------
(***************************************************************************)
(* Every step keeps the scheduler's part.                                  *)
(***************************************************************************)
LEMMA SchedPartStep ==
    ASSUME SchedInv, AllocInv, [Next]_vars
    PROVE  SchedInv'
<1>1. ASSUME UNCHANGED schedVars
      PROVE  SchedInv'
  <2>1. SchedStep
    BY <1>1 DEF SchedStep, Sched!vars, schedVars
  <2> QED
    BY <2>1, SchedKept
<1>2. \A held, victims : PoolBecomes(held, victims) => SoundPool(pool')
  BY DEF PoolBecomes
<1>3. ASSUME NEW c \in PrefillCalls, PrefillTooBig(c)
      PROVE  SchedInv'
  <2>1. taken = {} /\ UNCHANGED queueVars /\ clock' \in Int
    BY <1>3, NobodyTaken, PoolParts DEF PrefillTooBig, Arrives, Idle
  <2> QED
    BY <1>2, <1>3, <2>1, TooBigEffect, PoolAlone
<1>4. ASSUME NEW c \in PrefillCalls, PrefillBegin(c)
      PROVE  SchedInv'
  <2>1. taken = {} /\ UNCHANGED queueVars /\ clock' \in Int
    BY <1>4, NobodyTaken, PoolParts DEF PrefillBegin, Arrives, Idle
  <2> QED
    BY <1>2, <1>4, <2>1, BeginEffect, PoolAlone
<1>5. inside # {} => taken = {}
  BY NobodyTaken DEF AllocInv
<1>6. ASSUME NEW c \in inside, PrefillEvict(c)
      PROVE  SchedInv'
  <2>1. taken = {} /\ UNCHANGED queueVars /\ clock' \in Int
    BY <1>5, <1>6, PoolParts DEF PrefillEvict
  <2> QED
    BY <1>2, <1>6, <2>1, EvictEffect, PoolAlone
<1>7. ASSUME NEW c \in inside, PrefillRefused(c)
      PROVE  SchedInv'
  <2>1. taken = {} /\ UNCHANGED queueVars /\ clock' \in Int
    BY <1>5, <1>7, PoolParts DEF PrefillRefused
  <2> QED
    BY <1>2, <1>7, <2>1, RefusedEffect, PoolAlone
<1>8. ASSUME NEW c \in inside, PrefillEnter(c)
      PROVE  SchedInv'
  <2>1. taken = {} /\ UNCHANGED queueVars
    BY <1>5, <1>8 DEF PrefillEnter
  <2> QED
    BY <1>2, <1>8, <2>1, EnterEffect, PoolAlone
<1>9. CASE RunScheduler \/ Shutdown \/ \E r \in Reqs : SubmitSeq(r)
  BY <1>9, SchedulerSteps, SchedKept
<1> QED
  BY <1>1, <1>3, <1>4, <1>6, <1>7, <1>8, <1>9
     DEF Next, Handler, ResolveFails, PassOn, Disconnect, Store, vars

(***************************************************************************)
(* A call moves its own handler on, and a sequence is no prefill.          *)
(***************************************************************************)
LEMMA OnlyOwnStage ==
    ASSUME HandlerInv, NEW x \in Calls, NEW s, GoTo(x, s)
    PROVE  /\ stage'[x] = s
           /\ \A y \in Calls \ {x} : stage'[y] = stage[y]
           /\ x \in Reqs => \A c \in PrefillCalls : stage'[c] = stage[c]
BY NodeAssumption DEF HandlerInv, GoTo, Calls

(***************************************************************************)
(* Every step keeps the handlers' part.                                    *)
(***************************************************************************)
LEMMA HandlerPartStep ==
    ASSUME SchedInv, SchedInv', HandlerInv, AllocInv, [Next]_vars
    PROVE  HandlerInv'
<1> USE DEF HandlerInv, EvictsOne, AllocationCounted, AllocationRaises, GaugesPublished
<1>1. /\ Len(waiting') \in Nat /\ Cardinality(active') \in Nat
      /\ \A r \in Reqs : Len(out[r]) \in Nat /\ Len(out'[r]) \in Nat
  BY FS_CardinalityType DEF SchedInv, Sched!TypeInv
<1>2. (\A x \in Calls : Serves(x)' <=> Serves(x)) /\ role' = role
  BY DEF Next, vars, Serves
<1>3. \A x, y, s : GoTo(x, s) /\ y \in Calls /\ y # x => stage'[y] = stage[y]
  BY DEF GoTo
<1>4. ASSUME UNCHANGED <<read, out, countVars>>, NEW x \in Calls, Serves(x),
             NEW s \in {"reading", "storing", "done", "gone", "ok", "error"}, GoTo(x, s)
      PROVE  HandlerInv'
  BY <1>1, <1>2, <1>4 DEF GoTo, countVars
<1>5. ASSUME NEW r \in Reqs, ResolveFails(r)
      PROVE  HandlerInv'
  BY <1>4, <1>5 DEF ResolveFails, Arrives, Calls, schedVars
<1>6. ASSUME NEW r \in Reqs, SubmitSeq(r)
      PROVE  HandlerInv'
  <2>1. stage' = [stage EXCEPT ![r] = "reading"] /\ Serves(r) /\ r \in Calls
    BY <1>6 DEF SubmitSeq, GoTo, Arrives, Calls
  <2>2. out' = out /\ read' = read /\ evicted' = evicted
    BY <1>6 DEF SubmitSeq, Scheduler!Submit
  <2>3. metrics' \in [queue : Nat, batch : Nat, evictions : Nat]
    BY <1>1, <1>6 DEF SubmitSeq
  <2> QED
    BY <1>1, <1>2, <2>1, <2>2, <2>3
<1>7. ASSUME NEW r \in Reqs, PassOn(r)
      PROVE  HandlerInv'
  <2>1. PICK s \in {"done", "reading"} : stage' = [stage EXCEPT ![r] = s]
    BY <1>7 DEF PassOn, GoTo
  <2>2. Serves(r) /\ r \in Calls
    BY <1>7 DEF PassOn, Calls
  <2>3. out' = out /\ evicted' = evicted /\ metrics' = metrics
    BY <1>7 DEF PassOn, schedVars, countVars
  <2>4. read' = [read EXCEPT ![r] = @ + 1] /\ read[r] < Len(out[r])
    BY <1>7 DEF PassOn
  <2> QED
    BY <1>1, <1>2, <2>1, <2>2, <2>3, <2>4
<1>8. ASSUME NEW r \in Reqs, Disconnect(r)
      PROVE  HandlerInv'
  BY <1>4, <1>8 DEF Disconnect, Calls, schedVars
<1>9. ASSUME NEW c \in PrefillCalls, PrefillTooBig(c)
      PROVE  HandlerInv'
  BY <1>4, <1>9 DEF PrefillTooBig, Arrives, Calls, queueVars
<1>10. ASSUME NEW c \in PrefillCalls, PrefillBegin(c)
       PROVE  HandlerInv'
  BY <1>1, <1>2, <1>10 DEF PrefillBegin, queueVars, countVars
<1>11. ASSUME NEW c \in inside, PrefillEvict(c)
       PROVE  HandlerInv'
  BY <1>1, <1>2, <1>11 DEF PrefillEvict, queueVars
<1>12. ASSUME NEW c \in inside, NEW s \in {"storing", "error"}, GoTo(c, s),
              UNCHANGED <<queueVars, read>>, AllocationCounted \/ AllocationRaises
       PROVE  HandlerInv'
  <2>1. c \in Calls /\ Serves(c)
    BY DEF AllocInv, Calls
  <2>2. evicted' \in Nat /\ metrics' \in [queue : Nat, batch : Nat, evictions : Nat]
    BY <1>12
  <2> QED
    BY <1>1, <1>2, <1>12, <2>1, <2>2 DEF GoTo, queueVars
<1>13. ASSUME NEW c \in inside, PrefillRefused(c)
       PROVE  HandlerInv'
  BY <1>12, <1>13 DEF PrefillRefused
<1>14. ASSUME NEW c \in inside, PrefillEnter(c)
       PROVE  HandlerInv'
  BY <1>12, <1>14 DEF PrefillEnter
<1>15. ASSUME NEW c \in PrefillCalls, Store(c)
       PROVE  HandlerInv'
  BY <1>4, <1>15 DEF Store, Calls, schedVars
<1>16. CASE RunScheduler \/ Shutdown
  <2>1. \A r \in Reqs : Len(out[r]) <= Len(out'[r])
    BY <1>16, SchedulerSteps, OutGrows
  <2>2. UNCHANGED <<stage, read>>
    BY <1>16 DEF RunScheduler, Shutdown
  <2>3. evicted' \in Nat /\ metrics' \in [queue : Nat, batch : Nat, evictions : Nat]
    <3>1. \/ EvictsOne \/ AllocationRaises \/ AllocationCounted
          \/ GaugesPublished \/ UNCHANGED countVars
      BY <1>16, Zenon DEF RunScheduler, Shutdown
    <3>2. CASE EvictsOne \/ AllocationRaises \/ AllocationCounted
      BY <3>2
    <3>3. CASE GaugesPublished
      BY <1>1, <3>3
    <3>4. CASE UNCHANGED countVars
      BY <3>4 DEF countVars
    <3> QED
      BY <3>1, <3>2, <3>3, <3>4
  <2> QED
    BY <1>1, <1>2, <2>1, <2>2, <2>3
<1>17. CASE UNCHANGED vars
  BY <1>17, <1>2 DEF vars, schedVars, countVars
<1> QED
  BY <1>5, <1>6, <1>7, <1>8, <1>9, <1>10, <1>11, <1>13, <1>14, <1>15, <1>16, <1>17
     DEF Next, Handler

(***************************************************************************)
(* Every step keeps what is known of the prefill inside allocate.          *)
(***************************************************************************)
LEMMA AllocPartStep ==
    ASSUME SchedInv, HandlerInv, AllocInv, [Next]_vars
    PROVE  AllocInv'
<1> USE DEF AllocInv
<1>1. \A x \in Calls : Serves(x)' <=> Serves(x)
  BY DEF Next, vars, Serves
<1>2. \A c : PrefillSize(c)' = PrefillSize(c)
  BY DEF PrefillSize
<1>3. ASSUME inside' = {}
      PROVE  AllocInv'
  BY <1>3
<1>4. inside # {} => \A c \in Calls : ~Arrives(c) /\ ~Idle
  BY DEF Arrives, Idle
<1>5. ASSUME UNCHANGED <<inside, pc, pool>>, inside = {} \/ stage' = stage
      PROVE  AllocInv'
  BY <1>1, <1>2, <1>5 DEF Calls
<1>6. ASSUME NEW r \in Reqs, ResolveFails(r) \/ SubmitSeq(r) \/ PassOn(r) \/ Disconnect(r)
      PROVE  AllocInv'
  BY <1>3, <1>6 DEF ResolveFails, SubmitSeq, PassOn, Disconnect, Arrives, Idle
<1>7. ASSUME NEW c \in PrefillCalls, PrefillTooBig(c) \/ Store(c)
      PROVE  AllocInv'
  BY <1>3, <1>7 DEF PrefillTooBig, Store, Arrives, Idle
<1>8. ASSUME NEW c \in PrefillCalls, PrefillBegin(c)
      PROVE  AllocInv'
  <2>1. KvOf[c] \notin Held(pool')
    BY <1>8, BeginEffect DEF PoolBecomes
  <2>2. inside' = {c} /\ PrefillSize(c) <= TotalMB /\ UNCHANGED <<pc, stage>>
    BY <1>8 DEF PrefillBegin, queueVars
  <2>3. pc \in {"asleep", "stopped"} /\ stage[c] = "new" /\ Serves(c) /\ c \in Calls
    BY <1>8 DEF PrefillBegin, Arrives, Idle, Calls
  <2> QED
    BY <1>1, <1>2, <2>1, <2>2, <2>3
<1>9. ASSUME NEW c \in inside, PrefillEvict(c)
      PROVE  AllocInv'
  <2>1. Held(pool') \subseteq Held(pool)
    BY <1>9, EvictEffect DEF PoolBecomes
  <2> QED
    BY <1>1, <1>2, <1>9, <2>1 DEF PrefillEvict, queueVars, Calls
<1>10. ASSUME NEW c \in inside, PrefillRefused(c) \/ PrefillEnter(c)
       PROVE  AllocInv'
  BY <1>3, <1>10 DEF PrefillRefused, PrefillEnter
<1>11. CASE RunScheduler \/ Shutdown
  BY <1>3, <1>11 DEF RunScheduler, Shutdown
<1>12. CASE UNCHANGED vars
  BY <1>5, <1>12 DEF vars, schedVars
<1> QED
  BY <1>6, <1>7, <1>8, <1>9, <1>10, <1>11, <1>12 DEF Next, Handler

(***************************************************************************)
(* Every block has an owner.                                               *)
(***************************************************************************)
LEMMA BookStep ==
    ASSUME SchedInv, HandlerInv, AllocInv, BookInv, [Next]_vars
    PROVE  BookInv'
<1> USE DEF BookInv
<1>1. ASSUME Held(pool') \subseteq Held(pool), active' = active,
             \A c \in PrefillCalls : Past(c) => Past(c)'
      PROVE  BookInv'
  BY <1>1
<1>2. ASSUME NEW r \in Reqs, ResolveFails(r) \/ PassOn(r) \/ Disconnect(r)
      PROVE  BookInv'
  <2>1. pool' = pool /\ active' = active
    BY <1>2 DEF ResolveFails, PassOn, Disconnect, schedVars
  <2>2. \A c \in PrefillCalls : stage'[c] = stage[c]
    BY <1>2, OnlyOwnStage DEF ResolveFails, PassOn, Disconnect, Calls
  <2> QED
    BY <1>1, <2>1, <2>2 DEF Past
<1>3. ASSUME NEW c \in PrefillCalls, PrefillTooBig(c) \/ Store(c) \/ PrefillBegin(c)
      PROVE  BookInv'
  <2>1. Held(pool') \subseteq Held(pool)
    BY <1>3, TooBigEffect, BeginEffect DEF Store, schedVars, PoolBecomes
  <2>2. active' = active
    BY <1>3 DEF PrefillTooBig, Store, PrefillBegin, schedVars, queueVars
  <2>3. stage' = stage \/ \E s \in {"ok", "error"} : GoTo(c, s)
    BY <1>3 DEF PrefillTooBig, Store, PrefillBegin
  <2> QED
    BY <1>1, <2>1, <2>2, <2>3, OnlyOwnStage DEF Past, Calls
<1>4. ASSUME NEW c \in inside, PrefillEvict(c) \/ PrefillRefused(c)
      PROVE  BookInv'
  <2>1. Held(pool') \subseteq Held(pool)
    BY <1>4, EvictEffect, RefusedEffect DEF PoolBecomes
  <2>2. active' = active
    BY <1>4 DEF PrefillEvict, PrefillRefused, queueVars
  <2>3. stage' = stage \/ GoTo(c, "error")
    BY <1>4 DEF PrefillEvict, PrefillRefused
  <2> QED
    BY <1>1, <2>1, <2>2, <2>3, OnlyOwnStage DEF Past, Calls, AllocInv
<1>5. ASSUME NEW c \in inside, PrefillEnter(c)
      PROVE  BookInv'
  <2>1. Held(pool') = Held(pool) \cup {KvOf[c]} /\ active' = active
    BY <1>5, EnterEffect DEF PoolBecomes, PrefillEnter, queueVars
  <2>2. c \in PrefillCalls /\ \A d \in PrefillCalls : Past(d) \/ d = c => Past(d)'
    BY <1>5, OnlyOwnStage DEF PrefillEnter, Past, Calls, AllocInv
  <2> QED
    BY <2>1, <2>2
<1>6. CASE RunScheduler \/ Shutdown \/ \E r \in Reqs : SubmitSeq(r)
  <2>1. Held(pool') \subseteq {KvOf[r] : r \in active'} \cup
                            (Held(pool) \ {KvOf[r] : r \in active \ active'})
    BY <1>6, SchedulerSteps, SchedEffect
  <2>2. \A c \in PrefillCalls : stage'[c] = stage[c]
    BY <1>6, OnlyOwnStage DEF RunScheduler, Shutdown, SubmitSeq, Calls
  <2> QED
    BY <2>1, <2>2 DEF Past
<1>7. CASE UNCHANGED vars
  BY <1>7 DEF vars, schedVars, Past
<1> QED
  BY <1>2, <1>3, <1>4, <1>5, <1>6, <1>7 DEF Next, Handler

(***************************************************************************)
(* Only a call that reaches the scheduler joins those that did, and none   *)
(* leaves them.                                                            *)
(***************************************************************************)
LEMMA SubmittedStep ==
    ASSUME HandlerInv, AllocInv, [Next]_vars
    PROVE  \/ Submitted' = Submitted
           \/ \E r \in Reqs : SubmitSeq(r) /\ Submitted' = Submitted \cup {r}
<1> USE DEF Submitted
<1>0. stage \in [Calls -> {"new", "reading", "storing", "done", "gone", "ok", "error"}]
  BY DEF HandlerInv
<1>1. ASSUME \A r \in Reqs : stage'[r] = stage[r]
      PROVE  Submitted' = Submitted
  BY <1>1
<1>2. ASSUME NEW r \in Reqs, NEW s, GoTo(r, s),
             \/ stage[r] = "new" /\ s = "error"
             \/ stage[r] = "reading" /\ s \in {"reading", "done", "gone"}
      PROVE  Submitted' = Submitted
  BY <1>0, <1>2 DEF GoTo, Calls
<1>3. ASSUME NEW r \in Reqs, SubmitSeq(r)
      PROVE  Submitted' = Submitted \cup {r}
  BY <1>0, <1>3 DEF SubmitSeq, GoTo, Calls
<1>4. ASSUME NEW r \in Reqs, ResolveFails(r) \/ PassOn(r) \/ Disconnect(r)
      PROVE  Submitted' = Submitted
  <2>1. CASE ResolveFails(r)
    <3>1. GoTo(r, "error") /\ stage[r] = "new"
      BY <2>1 DEF ResolveFails, Arrives
    <3> QED
      BY <1>2, <3>1
  <2>2. CASE PassOn(r)
    <3>1. PICK s \in {"reading", "done"} : GoTo(r, s)
      BY <2>2 DEF PassOn
    <3> QED
      BY <1>2, <2>2, <3>1 DEF PassOn
  <2>3. CASE Disconnect(r)
    BY <1>2, <2>3 DEF Disconnect
  <2> QED
    BY <1>4, <2>1, <2>2, <2>3
<1>5. ASSUME NEW c \in PrefillCalls, NEW s, GoTo(c, s)
      PROVE  Submitted' = Submitted
  <2>1. c \notin Reqs
    BY NodeAssumption
  <2> QED
    BY <1>1, <1>5, <2>1 DEF GoTo
<1>6. ASSUME NEW c \in PrefillCalls,
             PrefillTooBig(c) \/ PrefillBegin(c) \/ PrefillEvict(c) \/ PrefillRefused(c)
                \/ PrefillEnter(c) \/ Store(c)
      PROVE  Submitted' = Submitted
  <2>1. stage' = stage \/ \E s : GoTo(c, s)
    BY <1>6 DEF PrefillTooBig, PrefillBegin, PrefillEvict, PrefillRefused, PrefillEnter, Store
  <2> QED
    BY <1>1, <1>5, <2>1
<1>7. CASE RunScheduler \/ Shutdown \/ UNCHANGED vars
  BY <1>1, <1>7 DEF RunScheduler, Shutdown, vars
<1> QED
  BY <1>3, <1>4, <1>6, <1>7 DEF Next, Handler, AllocInv

(***************************************************************************)
(* Every step keeps what is known of the calls submitted.                  *)
(***************************************************************************)
LEMMA AskStep ==
    ASSUME SchedInv, HandlerInv, AllocInv, AskInv, [Next]_vars
    PROVE  AskInv'
<1>1. Submitted \subseteq Submitted' /\ IsFiniteSet(Submitted')
  BY SubmittedStep, FS_AddElement DEF AskInv
<1>2. waiting \in Seq(Reqs)
  BY PoolParts
<1>3. ASSUME waiting' = waiting, taken' \in {{}, taken}
      PROVE  AskInv'
  BY <1>1, <1>3 DEF AskInv
<1>4. ASSUME NEW r \in Reqs, SubmitSeq(r)
      PROVE  AskInv'
  <2>1. waiting' = Append(waiting, r) /\ taken' = taken
    BY <1>4 DEF SubmitSeq, Scheduler!Submit
  <2>2. r \in Submitted'
    BY <1>4 DEF SubmitSeq, GoTo, Submitted, HandlerInv, Calls
  <2> QED
    BY <1>1, <1>2, <2>1, <2>2, AppendProperties DEF AskInv
<1>5. ASSUME waiting # <<>>, waiting' = Tail(waiting), taken' \in {taken, {Head(waiting)}}
      PROVE  AskInv'
  <2>1. /\ Head(waiting) = waiting[1] /\ Len(waiting) \in Nat \ {0}
        /\ Len(Tail(waiting)) = Len(waiting) - 1
        /\ \A i \in 1..Len(Tail(waiting)) : Tail(waiting)[i] = waiting[i + 1]
    BY <1>2, <1>5, HeadTailProperties
  <2> QED
    BY <1>1, <1>5, <2>1 DEF AskInv
<1>6. CASE RunScheduler
  <2>1. CASE Scheduler!AdmitTooBig \/ Scheduler!AdmitTake
    BY <1>5, <2>1 DEF Scheduler!AdmitTooBig, Scheduler!AdmitTake, Scheduler!CanAdmit
  <2>2. CASE \/ \E r \in taken : Scheduler!AdmitEvict(r)
             \/ \E r \in taken : Scheduler!AdmitReject(r)
             \/ \E r \in taken : Scheduler!AdmitSeat(r)
    BY <1>3, <2>2 DEF Scheduler!AdmitEvict, Scheduler!AdmitReject, Scheduler!AdmitSeat
  <2>3. CASE \/ Scheduler!AdmitDone \/ Scheduler!PassDone
             \/ Scheduler!WakeIdle \/ Scheduler!WakeStep
             \/ \E r \in todo : Scheduler!Emit(r)
             \/ \E r \in active : Scheduler!Retire(r)
    BY <1>3, <2>3 DEF Scheduler!AdmitDone, Scheduler!PassDone, Scheduler!WakeIdle,
       Scheduler!WakeStep, Scheduler!Emit, Scheduler!Retire
  <2> QED
    BY <1>6, <2>1, <2>2, <2>3 DEF RunScheduler
<1>7. CASE Shutdown
  BY <1>3, <1>7 DEF Shutdown, Scheduler!Stop
<1> QED
  BY <1>3, <1>4, <1>6, <1>7
     DEF Next, Handler, ResolveFails, PassOn, Disconnect, PrefillTooBig, PrefillBegin,
         PrefillEvict, PrefillRefused, PrefillEnter, Store, vars, schedVars, queueVars

(***************************************************************************)
(* What was asked for below zero never becomes less.                       *)
(***************************************************************************)
LEMMA BelowZeroGrows ==
    ASSUME Submitted \subseteq Reqs, Submitted \subseteq Submitted', IsFiniteSet(Submitted'),
           Submitted' \subseteq Reqs
    PROVE  BelowZero \in Nat /\ BelowZero' \in Nat /\ BelowZero <= BelowZero'
<1> DEFINE Asks(S) == [r \in S |-> [size |-> SizeOf[r]]]
<1>1. BelowZero = Cardinality(Lent(Asks(Submitted)))
  BY DEF BelowZero
<1>2. BelowZero' = Cardinality(Lent(Asks(Submitted')))
  BY DEF BelowZero, SizeOf, Lent
<1>3. ASSUME NEW S, S \subseteq Reqs, IsFiniteSet(S)
      PROVE  IsFiniteSet(Lent(Asks(S)))
  BY <1>3, SizeIsInt, FootprintFinite
<1>4. ASSUME NEW S, NEW T, S \subseteq T
      PROVE  Lent(Asks(S)) \subseteq Lent(Asks(T))
  BY <1>4 DEF Lent
<1>5. IsFiniteSet(Submitted)
  BY FS_Subset
<1> HIDE DEF Asks
<1>6. Lent(Asks(Submitted)) \in SUBSET Lent(Asks(Submitted'))
  BY <1>4
<1>7. IsFiniteSet(Lent(Asks(Submitted))) /\ IsFiniteSet(Lent(Asks(Submitted')))
  BY <1>3, <1>5
<1> QED
  BY <1>1, <1>2, <1>6, <1>7, FS_Subset, FS_CardinalityType

(***************************************************************************)
(* The blocks lend no more than was asked for below zero.                  *)
(***************************************************************************)
LEMMA OwedIsAsked ==
    ASSUME SchedInv, AskInv, UnitInv
    PROVE  Owed(pool) <= BelowZero
<1> DEFINE asks == [r \in Submitted |-> [size |-> SizeOf[r]]]
<1>1. IsFiniteSet(DOMAIN asks) /\ \A r \in DOMAIN asks : asks[r].size \in Int
  BY SizeIsInt DEF AskInv, Submitted
<1>2. \A b \in DOMAIN pool.blocks : pool.blocks[b].size \in Int
  BY PoolParts, SoundBlocks DEF Held, Block
<1>3. \A b \in DOMAIN pool.blocks :
        \/ pool.blocks[b].size >= 0
        \/ \E r \in DOMAIN asks : KvOf[r] = b /\ asks[r].size = pool.blocks[b].size
  BY DEF UnitInv, Held
<1> DEFINE blocks == pool.blocks
<1> HIDE DEF asks, blocks
<1>4. /\ \A b \in DOMAIN blocks : blocks[b].size \in Int
      /\ \A b \in DOMAIN blocks :
            \/ blocks[b].size >= 0
            \/ \E r \in DOMAIN asks : KvOf[r] = b /\ asks[r].size = blocks[b].size
  BY <1>2, <1>3 DEF blocks
<1>5. Cardinality(Lent(blocks)) <= Cardinality(Lent(asks))
  BY <1>1, <1>4, LentIsAsked
<1> QED
  BY <1>5 DEF Owed, BelowZero, asks, blocks

(***************************************************************************)
(* What a step does to the units of the pool, whoever takes it.            *)
(***************************************************************************)
LEMMA UnitEffect ==
    ASSUME SchedInv, AllocInv, [Next]_vars
    PROVE  \/ NothingMore(pool, pool')
           \/ \E r \in taken : OneMore(pool, pool', KvOf[r], SizeOf[r])
           \/ \E c \in inside : OneMore(pool, pool', KvOf[c], PrefillSize(c))
<1>0. SoundPool(pool)
  BY PoolParts
<1>1. CASE RunScheduler \/ Shutdown \/ \E r \in Reqs : SubmitSeq(r)
  <2>1. SchedStep
    BY <1>1, SchedulerSteps
  <2> QED
    BY <2>1, SchedAssumptions, Sched!UnitsStep, SamePool DEF SchedStep, SchedInv
<1>2. ASSUME pool' \in {pool, CountOom(pool)}
      PROVE  NothingMore(pool, pool')
  BY <1>0, <1>2, NothingTaken
<1>3. ASSUME NEW c \in PrefillCalls, PrefillBegin(c)
      PROVE  NothingMore(pool, pool')
  BY <1>0, <1>3, NothingTaken DEF PrefillBegin
<1>4. ASSUME NEW c \in inside, PrefillEvict(c)
      PROVE  NothingMore(pool, pool')
  BY <1>0, <1>4, NothingTaken DEF PrefillEvict, Victims
<1>5. ASSUME NEW c \in inside, PrefillEnter(c)
      PROVE  OneMore(pool, pool', KvOf[c], PrefillSize(c))
  <2>1. PICK now \in Int : pool' = Insert(pool, KvOf[c], PrefillSize(c), now)
    <3>1. PICK tick \in Ticks : pool' = Insert(pool, KvOf[c], PrefillSize(c), clock + tick)
      BY <1>5 DEF PrefillEnter
    <3>2. tick \in Int /\ clock + tick \in Int
      BY NodeAssumption, PoolParts
    <3> QED
      BY <3>1, <3>2
  <2>2. PrefillSize(c) \in Int /\ KvOf[c] \in KvIds /\ KvOf[c] \notin Held(pool)
    BY SizeIsInt, NodeAssumption DEF AllocInv, PrefillSize, Prompted, Calls
  <2>3. HasRoom(pool, PrefillSize(c))
    BY <1>5 DEF PrefillEnter
  <2> QED
    BY <1>0, <2>1, <2>2, <2>3, RoomTaken
<1> QED
  BY <1>1, <1>2, <1>3, <1>4, <1>5
     DEF Next, Handler, ResolveFails, PassOn, Disconnect, PrefillTooBig, PrefillRefused,
         Store, vars, schedVars

(***************************************************************************)
(* Every step keeps the units within their bound.                          *)
(***************************************************************************)
LEMMA UnitStep ==
    ASSUME SchedInv, SchedInv', HandlerInv, AllocInv, AskInv, AskInv', UnitInv, [Next]_vars
    PROVE  UnitInv'
<1>1. Submitted \subseteq Submitted' /\ Submitted \subseteq Reqs /\ Submitted' \subseteq Reqs
  BY SubmittedStep DEF Submitted
<1>2. BelowZero \in Nat /\ BelowZero' \in Nat /\ BelowZero <= BelowZero'
  BY <1>1, BelowZeroGrows DEF AskInv
<1>3. Owed(pool) <= BelowZero /\ Owed(pool) \in Nat /\ Gross(pool) \in Nat
  BY OwedIsAsked, PoolParts, SoundBlocks
<1>4. SoundPool(pool')
  BY SamePool DEF SchedInv, Sched!PoolInv
<1>5. Gross(pool') \in Nat
  BY <1>4, SoundBlocks
<1>6. Gross(pool') <= Gross(pool) \/ Gross(pool') <= TotalMB + Owed(pool)
  BY UnitEffect DEF NothingMore, OneMore
<1>7. Gross(pool') <= TotalMB + BelowZero'
  BY <1>2, <1>3, <1>5, <1>6, PoolAssumption DEF UnitInv
<1>8. ASSUME NEW b \in Held(pool')
      PROVE  \/ pool'.blocks[b].size >= 0
             \/ \E r \in Submitted' : KvOf[r] = b /\ SizeOf[r] = pool'.blocks[b].size
  <2>1. \/ b \in Held(pool) /\ pool'.blocks[b].size = pool.blocks[b].size
        \/ \E r \in taken : KvOf[r] = b /\ pool'.blocks[b].size = SizeOf[r]
        \/ \E c \in inside : pool'.blocks[b].size = PrefillSize(c)
    BY <1>8, UnitEffect DEF NothingMore, OneMore
  <2>2. \A c \in inside : PrefillSize(c) >= 0
    BY SizeIsInt DEF AllocInv, PrefillSize, Prompted
  <2> QED
    BY <1>1, <2>1, <2>2 DEF UnitInv, AskInv
<1>9. SizeOf' = SizeOf
  BY DEF SizeOf
<1> QED
  BY <1>7, <1>8, <1>9 DEF UnitInv

(***************************************************************************)
(* Without eviction nobody takes the block of a prefill that is done.      *)
(***************************************************************************)
LEMMA AnnouncedStep ==
    ASSUME SchedInv, HandlerInv, AllocInv, AnnouncedStays, [Next]_vars
    PROVE  AnnouncedStays'
<1> DEFINE Announced(c) == stage[c] \in {"storing", "ok"}
<1> USE DEF AnnouncedStays
<1>0. \A c \in PrefillCalls : \A x \in Calls \ {c} : KvOf[c] # KvOf[x]
  BY FreshIds DEF Prompted
<1>1. ASSUME pool'.policy = pool.policy,
             NEW gone, pool.policy = "none" => Held(pool) \ gone \subseteq Held(pool'),
             \A c \in PrefillCalls : stage'[c] \in {"storing", "ok"} => 
                    Announced(c) /\ KvOf[c] \notin gone
      PROVE  AnnouncedStays'
  BY <1>1
<1>2. ASSUME NEW r \in Reqs, ResolveFails(r) \/ PassOn(r) \/ Disconnect(r)
      PROVE  AnnouncedStays'
  <2>1. pool' = pool
    BY <1>2 DEF ResolveFails, PassOn, Disconnect, schedVars
  <2>2. \A c \in PrefillCalls : stage'[c] = stage[c]
    BY <1>2, OnlyOwnStage DEF ResolveFails, PassOn, Disconnect, Calls
  <2> QED
    BY <2>1, <2>2
<1>3. ASSUME NEW c \in PrefillCalls, PrefillTooBig(c)
      PROVE  AnnouncedStays'
  <2>1. Held(pool') = Held(pool) /\ pool'.policy = pool.policy
    BY <1>3, TooBigEffect DEF PoolBecomes
  <2>2. stage' = [stage EXCEPT ![c] = "error"] /\ c \in DOMAIN stage
    BY <1>3 DEF PrefillTooBig, GoTo, HandlerInv, Calls
  <2> QED
    BY <2>1, <2>2
<1>4. ASSUME NEW c \in PrefillCalls, Store(c)
      PROVE  AnnouncedStays'
  <2>1. pool' = pool
    BY <1>4 DEF Store, schedVars
  <2>2. \A d \in PrefillCalls : d # c => stage'[d] = stage[d]
    BY <1>4 DEF Store, GoTo
  <2>3. stage[c] = "storing"
    BY <1>4 DEF Store
  <2> QED
    BY <2>1, <2>2, <2>3
<1>5. ASSUME NEW c \in PrefillCalls, PrefillBegin(c)
      PROVE  AnnouncedStays'
  <2>1. Held(pool') = Held(pool) \ {KvOf[c]} /\ pool'.policy = pool.policy
    BY <1>5, BeginEffect DEF PoolBecomes
  <2>2. stage' = stage /\ stage[c] = "new"
    BY <1>5 DEF PrefillBegin, Arrives
  <2>3. \A d \in PrefillCalls : Announced(d) => KvOf[d] # KvOf[c]
    BY <1>0, <2>2 DEF Calls
  <2> QED
    BY <2>1, <2>2, <2>3
<1>6. ASSUME NEW c \in inside, PrefillEvict(c)
      PROVE  AnnouncedStays'
  BY <1>6, EvictEffect DEF PoolBecomes
<1>7. ASSUME NEW c \in inside, PrefillRefused(c)
      PROVE  AnnouncedStays'
  <2>1. Held(pool') = Held(pool) /\ pool'.policy = pool.policy
    BY <1>7, RefusedEffect DEF PoolBecomes
  <2>2. stage' = [stage EXCEPT ![c] = "error"] /\ c \in DOMAIN stage
    BY <1>7 DEF PrefillRefused, GoTo, HandlerInv, Calls, AllocInv
  <2> QED
    BY <2>1, <2>2
<1>8. ASSUME NEW c \in inside, PrefillEnter(c)
      PROVE  AnnouncedStays'
  <2>1. Held(pool') = Held(pool) \cup {KvOf[c]} /\ pool'.policy = pool.policy
    BY <1>8, EnterEffect DEF PoolBecomes
  <2>2. \A d \in PrefillCalls : d # c => stage'[d] = stage[d]
    BY <1>8 DEF PrefillEnter, GoTo
  <2> QED
    BY <2>1, <2>2
<1>9. CASE RunScheduler \/ Shutdown \/ \E r \in Reqs : SubmitSeq(r)
  <2>1. /\ pool'.policy = pool.policy
        /\ pool.policy = "none" =>
                Held(pool) \ {KvOf[r] : r \in Reqs} \subseteq Held(pool')
    BY <1>9, SchedulerSteps, SchedEffect
  <2>2. \A c \in PrefillCalls : stage'[c] = stage[c]
    BY <1>9, OnlyOwnStage DEF RunScheduler, Shutdown, SubmitSeq, Calls
  <2>3. \A c \in PrefillCalls : KvOf[c] \notin {KvOf[r] : r \in Reqs}
    BY <1>0, NodeAssumption DEF Calls
  <2> QED
    BY <2>1, <2>2, <2>3
<1>10. CASE UNCHANGED vars
  BY <1>10 DEF vars, schedVars
<1> QED
  BY <1>2, <1>3, <1>4, <1>5, <1>6, <1>7, <1>8, <1>9, <1>10 DEF Next, Handler

(***************************************************************************)
(* Every step keeps the metrics and the pool's counters together.          *)
(***************************************************************************)
LEMMA MetricStep ==
    ASSUME SchedInv, HandlerInv, AllocInv, MetricInv, [Next]_vars
    PROVE  MetricInv'
<1> USE DEF MetricInv
<1>0. /\ metrics.evictions \in Nat /\ evicted \in Nat /\ pool.evictions \in Nat
      /\ metrics \in [queue : Nat, batch : Nat, evictions : Nat]
  BY PoolParts DEF HandlerInv
<1>1. ASSUME UNCHANGED <<pc, waiting, taken, active, inside, countVars>>,
             pool'.evictions = pool.evictions, pool'.policy = pool.policy
      PROVE  MetricInv'
  BY <1>1 DEF countVars
<1>2. ASSUME NEW r \in Reqs, ResolveFails(r) \/ PassOn(r) \/ Disconnect(r)
      PROVE  MetricInv'
  BY <1>1, <1>2 DEF ResolveFails, PassOn, Disconnect, schedVars
<1>3. ASSUME NEW c \in PrefillCalls, PrefillTooBig(c) \/ Store(c)
      PROVE  MetricInv'
  <2>1. pool'.evictions = pool.evictions /\ pool'.policy = pool.policy
    BY <1>0, <1>3, TooBigEffect DEF Store, schedVars, PoolBecomes
  <2> QED
    BY <1>1, <1>3, <2>1 DEF PrefillTooBig, Store, schedVars, queueVars
<1>4. inside # {} => pc \in {"asleep", "stopped"} /\ taken = {}
  BY NobodyTaken DEF AllocInv
<1>5. ASSUME NEW c \in PrefillCalls, PrefillBegin(c)
      PROVE  MetricInv'
  <2>1. pool'.evictions = pool.evictions /\ pool'.policy = pool.policy
    BY <1>0, <1>5, BeginEffect DEF PoolBecomes
  <2> QED
    BY <1>5, <2>1 DEF PrefillBegin, queueVars, countVars
<1>6. ASSUME NEW c \in inside, PrefillEvict(c)
      PROVE  MetricInv'
  <2>1. pool'.evictions = pool.evictions + 1 /\ pool'.policy = pool.policy /\ pool.policy # "none"
    BY <1>6, EvictEffect DEF PoolBecomes
  <2> QED
    BY <1>0, <1>6, <2>1 DEF PrefillEvict, EvictsOne, queueVars
<1>7. ASSUME NEW c \in inside, PrefillRefused(c)
      PROVE  MetricInv'
  <2>1. pool'.evictions = pool.evictions /\ pool'.policy = pool.policy /\ pool.policy = "none"
    BY <1>0, <1>7, RefusedEffect DEF PoolBecomes
  <2> QED
    BY <1>0, <1>7, <2>1 DEF PrefillRefused, AllocationRaises, queueVars
<1>8. ASSUME NEW c \in inside, PrefillEnter(c)
      PROVE  MetricInv'
  <2>1. pool'.evictions = pool.evictions /\ pool'.policy = pool.policy
    BY <1>0, <1>8, EnterEffect DEF PoolBecomes
  <2> QED
    BY <1>0, <1>8, <2>1 DEF PrefillEnter, AllocationCounted, queueVars
<1>9. ASSUME NEW r \in Reqs, SubmitSeq(r)
      PROVE  MetricInv'
  <2>1. /\ pool' = pool /\ UNCHANGED <<pc, taken, active, inside, evicted>>
        /\ metrics' = [metrics EXCEPT !.queue = Len(waiting')]
    BY <1>9 DEF SubmitSeq, Scheduler!Submit
  <2> QED
    BY <1>0, <2>1
<1>10. CASE Shutdown
  BY <1>10 DEF Shutdown, Scheduler!Stop, countVars
<1>11. CASE RunScheduler
  <2>0. inside = {} /\ inside' = {}
    BY <1>11 DEF RunScheduler
  <2>1. SchedStep /\ pool'.policy = pool.policy
    BY <1>11, SchedulerSteps, SchedEffect
  <2>2. \/ pool'.evictions = pool.evictions
        \/ /\ \E r \in taken : Scheduler!AdmitEvict(r)
           /\ pool'.evictions = pool.evictions + 1 /\ pool.policy # "none"
    BY <2>1, SchedEffect
  <2>3. \A r \in taken : pc = "admit"
    BY PoolParts
  <2>4. ASSUME NEW r \in taken, Scheduler!AdmitEvict(r), EvictsOne
        PROVE  MetricInv'
    <3>1. pool'.evictions = pool.evictions + 1 /\ pool.policy # "none"
      BY <2>4, SchedEvicts, PoolParts
    <3>2. UNCHANGED <<pc, taken, waiting, active>>
      BY <2>4 DEF Scheduler!AdmitEvict
    <3> QED
      BY <1>0, <2>0, <2>1, <2>3, <2>4, <3>1, <3>2 DEF EvictsOne
  <2>5. ASSUME NEW r \in taken, Scheduler!AdmitReject(r), AllocationRaises
        PROVE  MetricInv'
    <3>1. ~HasRoom(pool, SizeOf[r]) /\ Victims(pool) = {} /\ taken' = {} /\ pc' = pc
      BY <2>5, SameHelpers DEF Scheduler!AdmitReject
    <3>2. pool.policy = "none"
      BY <3>1, RefusalMeans, PoolParts
    <3>3. pool'.evictions = pool.evictions
      BY <2>2, <3>2
    <3> QED
      BY <1>0, <2>0, <2>1, <2>3, <2>5, <3>1, <3>2, <3>3 DEF AllocationRaises
  <2>6. ASSUME NEW r \in taken, Scheduler!AdmitSeat(r), AllocationCounted
        PROVE  MetricInv'
    <3>1. pc' = pc /\ taken' = {}
      BY <2>6 DEF Scheduler!AdmitSeat
    <3>2. \A x : ~Scheduler!AdmitEvict(x)
      BY <3>1 DEF Scheduler!AdmitEvict
    <3>3. pool'.evictions = pool.evictions
      BY <2>2, <3>2
    <3> QED
      BY <1>0, <2>0, <2>1, <2>3, <2>6, <3>1, <3>3 DEF AllocationCounted
  <2>7. CASE (Scheduler!AdmitDone \/ Scheduler!PassDone) /\ GaugesPublished
    <3>1. pool' = pool /\ taken' = taken
      BY <2>7 DEF Scheduler!AdmitDone, Scheduler!PassDone
    <3> QED
      BY <1>0, <2>0, <2>7, <3>1 DEF GaugesPublished
  <2>8. CASE /\ \/ Scheduler!AdmitTooBig \/ Scheduler!AdmitTake
                \/ Scheduler!WakeIdle \/ Scheduler!WakeStep
                \/ \E r \in todo : Scheduler!Emit(r)
                \/ \E r \in active : Scheduler!Retire(r)
             /\ UNCHANGED countVars
    <3>1. taken = {} /\ pc' \notin {"asleep", "stopped"}
      BY <2>3, <2>8 DEF Scheduler!AdmitTooBig, Scheduler!AdmitTake, Scheduler!Admitting,
         Scheduler!WakeIdle, Scheduler!WakeStep, Scheduler!Emit, Scheduler!Retire
    <3>2. pool'.evictions = pool.evictions
      BY <2>2, <3>1
    <3> QED
      BY <1>0, <2>0, <2>1, <2>8, <3>1, <3>2 DEF countVars
  <2> QED
    BY <1>11, <2>4, <2>5, <2>6, <2>7, <2>8 DEF RunScheduler
<1>12. CASE UNCHANGED vars
  BY <1>1, <1>12 DEF vars, schedVars
<1> QED
  BY <1>2, <1>3, <1>5, <1>6, <1>7, <1>8, <1>9, <1>10, <1>11, <1>12 DEF Next, Handler

-------------------------------------------------------------------------------
(***************************************************************************)
(* The invariant holds initially ...                                       *)
(***************************************************************************)
LEMMA InitNode == Init => NodeInv
<1> SUFFICES ASSUME Init PROVE NodeInv
  OBVIOUS
<1>1. SchedInv
  BY SchedInit
<1>2. waiting = <<>> /\ taken = {} /\ active = {} /\ pc = "admit" /\ out = [r \in Reqs |-> <<>>]
  BY DEF Init, Scheduler!Init
<1>3. Held(pool) = {} /\ pool.evictions = 0
  BY DEF Init, Scheduler!Init, Scheduler!EmptyPool, Held
<1>4. HandlerInv
  BY <1>2 DEF Init, HandlerInv
<1>5. AllocInv /\ BookInv
  BY <1>2, <1>3 DEF Init, AllocInv, BookInv
<1>8. AskInv /\ UnitInv
  <2>1. Submitted = {}
    BY DEF Init, Submitted, Calls
  <2>2. AskInv
    BY <1>2, <2>1, FS_EmptySet DEF AskInv
  <2>3. Gross(pool) = 0
    <3>1. DOMAIN pool.blocks = {}
      BY <1>3 DEF Held
    <3>2. Footprint(pool.blocks) = {}
      BY <3>1 DEF Footprint
    <3> QED
      BY <3>2, FS_EmptySet DEF Gross
  <2>4. BelowZero \in Nat
    <3>1. Lent([r \in Submitted |-> [size |-> SizeOf[r]]]) = {}
      BY <2>1 DEF Lent
    <3> QED
      BY <3>1, FS_EmptySet DEF BelowZero
  <2> QED
    BY <1>3, <2>2, <2>3, <2>4, PoolAssumption DEF UnitInv
<1>6. AnnouncedStays
  BY DEF Init, AnnouncedStays, Calls
<1>7. MetricInv
  BY <1>2, <1>3 DEF Init, MetricInv
<1> QED
  BY <1>1, <1>4, <1>5, <1>6, <1>7, <1>8 DEF NodeInv

(***************************************************************************)
(* ... is kept by every step ...                                           *)
(***************************************************************************)
LEMMA NodeStep == NodeInv /\ [Next]_vars => NodeInv'
BY SchedPartStep, HandlerPartStep, AllocPartStep, BookStep, AskStep, UnitStep, AnnouncedStep,
   MetricStep DEF NodeInv

(***************************************************************************)
(* ... and so holds always.                                                *)
(***************************************************************************)
LEMMA NodeInvariance == Spec => []NodeInv
BY InitNode, NodeStep, PTL DEF Spec

(***************************************************************************)
(* The node's variables keep their types, no call gets past the routes of  *)
(* its role, no handler reads chunks that are not there, and no two calls  *)
(* are inside memory.allocate (prefill/main.py:110-196,                    *)
(* decode/main.py:102-159).                                                *)
(***************************************************************************)
THEOREM NodeTypeCorrect == Spec => []TypeOK
<1>1. ASSUME NodeInv PROVE TypeOK
  <2>1. Scheduler!TypeOK
    <3>1. Sched!TypeOK
      BY <1>1, SchedAssumptions, Sched!TypedNow DEF NodeInv, SchedInv
    <3>2. Sched!IsPool(pool) => Scheduler!IsPool(pool)
      BY DEF Sched!IsPool, Scheduler!IsPool, Sched!Block, Scheduler!Block
    <3> QED
      BY <3>1, <3>2 DEF Sched!TypeOK, Scheduler!TypeOK, Sched!Chunk, Scheduler!Chunk
  <2>2. Cardinality(inside) <= 1
    <3>1. CASE inside = {}
      BY <3>1, FS_EmptySet
    <3>2. ASSUME NEW c \in inside
          PROVE  Cardinality(inside) <= 1
      <4>1. inside = {c}
        BY <1>1 DEF NodeInv, AllocInv
      <4> QED
        BY <4>1, FS_Singleton
    <3> QED
      BY <3>1, <3>2
  <2>3. \A r \in Reqs : read[r] \in 0..Len(out[r])
    <3> SUFFICES ASSUME NEW r \in Reqs PROVE read[r] \in 0..Len(out[r])
      OBVIOUS
    <3>1. Len(out[r]) \in Nat
      BY <1>1, PoolParts DEF NodeInv
    <3> QED
      BY <1>1, <3>1 DEF NodeInv, HandlerInv
  <2> QED
    BY <1>1, <2>1, <2>2, <2>3 DEF NodeInv, HandlerInv, AllocInv, TypeOK
<1> QED
  BY NodeInvariance, <1>1, PTL

(***************************************************************************)
(* Prefills and sequences never spoil each other's books: used_mb is the   *)
(* sum of the blocks, every block has an owner, and the pool is exceeded   *)
(* by no more than what callers of /v1/decode asked for below zero: not at *)
(* all on a prefill node, or when nobody asks for that (decode/main.py:    *)
(* 109-114, prefill/main.py:111-157, memory_sim.py:76-136,                 *)
(* batching.py:114-166).                                                   *)
(***************************************************************************)
THEOREM BooksAreShared == Spec => []SharedBooks
<1>1. NodeInv => SharedBooks
  <2> SUFFICES ASSUME NodeInv PROVE SharedBooks
    OBVIOUS
  <2>1. /\ SoundPool(pool) /\ pool.used = Gross(pool) - Owed(pool)
        /\ Gross(pool) \in Nat /\ Owed(pool) \in Nat
    BY PoolParts, SoundBlocks DEF NodeInv
  <2>2. Gross(pool) <= TotalMB + BelowZero /\ BelowZero \in Nat
    <3>1. Submitted \subseteq Reqs
      BY DEF Submitted
    <3>2. IsFiniteSet(Lent([r \in Submitted |-> [size |-> SizeOf[r]]]))
      BY <3>1, SizeIsInt, FootprintFinite DEF NodeInv, AskInv
    <3> QED
      BY <3>2, FS_CardinalityType DEF NodeInv, UnitInv, BelowZero
  <2>3. pool.used = Taken(pool) /\ pool.used <= TotalMB + BelowZero
    BY <2>1, <2>2, PoolAssumption DEF SoundPool
  <2> QED
    BY <2>3 DEF NodeInv, BookInv, Past, SharedBooks
<1> QED
  BY NodeInvariance, <1>1, PTL

(***************************************************************************)
(* Without eviction a KV cache announced by /v1/prefill stays on the node, *)
(* whatever sequences come and go (prefill/main.py:111-157).               *)
(***************************************************************************)
THEOREM AnnouncedCacheStays == Spec => []AnnouncedStays
BY NodeInvariance, PTL DEF NodeInv

(***************************************************************************)
(* A scrape finds no eviction counted that was not made and misses those   *)
(* of an allocation under way alone: one that raises had no victims, since *)
(* it is refused only under policy none.  The gauges are exact whenever    *)
(* the loop sleeps (batching.py:149-174, prefill/main.py:120-134).         *)
(***************************************************************************)
THEOREM MetricsAreTrue == Spec => []MetricsFollow
<1>1. NodeInv => MetricsFollow
  BY DEF NodeInv, MetricInv, MetricsFollow
<1> QED
  BY NodeInvariance, <1>1, PTL

(***************************************************************************)
(* Why a step counted a refusal.                                           *)
(***************************************************************************)
LEMMA RefusalStep ==
    ASSUME NodeInv, [Next]_vars, pool'.oom > pool.oom
    PROVE  \/ \E c \in PrefillCalls : PrefillTooBig(c)
           \/ Scheduler!AdmitTooBig
           \/ pool.policy = "none" /\ Held(pool) # {}
<1> USE DEF NodeInv
<1>0. SoundPool(pool) /\ pool.oom \in Nat
  BY PoolParts
<1>1. pool' # pool
  BY <1>0
<1>2. CASE RunScheduler \/ Shutdown \/ \E r \in Reqs : SubmitSeq(r)
  <2>1. Scheduler!AdmitTooBig \/ \E r \in taken : Scheduler!AdmitReject(r)
    BY <1>0, <1>2, SchedulerSteps, SchedEffect
  <2>2. ASSUME NEW r \in taken, Scheduler!AdmitReject(r)
        PROVE  pool.policy = "none" /\ Held(pool) # {}
    <3>1. ~HasRoom(pool, SizeOf[r]) /\ Victims(pool) = {}
      BY <2>2, SameHelpers DEF Scheduler!AdmitReject
    <3> QED
      BY <3>1, RefusalMeans, PoolParts
  <2> QED
    BY <2>1, <2>2
<1>3. ASSUME NEW c \in PrefillCalls, PrefillBegin(c)
      PROVE  FALSE
  BY <1>0, <1>3, OnlyFailuresCount DEF PrefillBegin
<1>4. ASSUME NEW c \in inside, PrefillEvict(c)
      PROVE  FALSE
  BY <1>0, <1>4, OnlyFailuresCount DEF PrefillEvict, Victims
<1>5. ASSUME NEW c \in inside, PrefillRefused(c)
      PROVE  pool.policy = "none" /\ Held(pool) # {}
  BY <1>5, RefusedEffect
<1>6. ASSUME NEW c \in inside, PrefillEnter(c)
      PROVE  FALSE
  BY <1>0, <1>6, OnlyFailuresCount DEF PrefillEnter
<1> QED
  BY <1>1, <1>2, <1>3, <1>4, <1>5, <1>6
     DEF Next, Handler, ResolveFails, PassOn, Disconnect, Store, vars, schedVars

(***************************************************************************)
(* A call that fits the pool is refused memory only under policy none and  *)
(* only because others hold some of it (memory_sim.py:76-119).             *)
(***************************************************************************)
THEOREM RefusalsAreForOthers == Spec => RefusesForOthersOnly
<1>1. NodeInv /\ [Next]_vars =>
        [pool'.oom > pool.oom =>
            \/ \E c \in PrefillCalls : PrefillTooBig(c)
            \/ Scheduler!AdmitTooBig
            \/ pool.policy = "none" /\ Held(pool) # {}]_vars
  BY RefusalStep
<1> QED
  BY NodeInvariance, <1>1, PTL DEF Spec, RefusesForOthersOnly

-------------------------------------------------------------------------------
(***************************************************************************)
(* The contract is the same one seen from either instance.                 *)
(***************************************************************************)
LEMMA SameStream ==
    /\ Scheduler!Stream!Init <=> Sched!Stream!Init
    /\ [Scheduler!Stream!Next]_(Scheduler!Stream!vars) <=> [Sched!Stream!Next]_(Sched!Stream!vars)
<1>1. Scheduler!phaseBar = Sched!phaseBar /\ Scheduler!phaseBar' = Sched!phaseBar'
  BY DEF Scheduler!phaseBar, Sched!phaseBar, Scheduler!Submitted, Sched!Submitted,
         Scheduler!Closed, Sched!Closed
<1>2. Scheduler!LimitBar = Sched!LimitBar
  BY DEF Scheduler!LimitBar, Sched!LimitBar, Scheduler!Goal, Sched!Goal
<1>3. Scheduler!Stream!Init <=> Sched!Stream!Init
  BY <1>1 DEF Scheduler!Stream!Init, Sched!Stream!Init
<1>4. Scheduler!Stream!Next <=> Sched!Stream!Next
  BY <1>1, <1>2 DEF Scheduler!Stream!Next, Sched!Stream!Next,
     Scheduler!Stream!Open, Sched!Stream!Open, Scheduler!Stream!Deliver, Sched!Stream!Deliver,
     Scheduler!Stream!Refuse, Sched!Stream!Refuse, Scheduler!Stream!Shutdown, Sched!Stream!Shutdown,
     Scheduler!Stream!TokenChunk, Sched!Stream!TokenChunk,
     Scheduler!Stream!FinalChunk, Sched!Stream!FinalChunk
<1> QED
  BY <1>1, <1>3, <1>4 DEF Scheduler!Stream!vars, Sched!Stream!vars

(***************************************************************************)
(* The safety half of StreamsUndisturbed: whatever the prefills take from  *)
(* the pool and whoever stops listening, the sequences get their tokens as *)
(* TokenStream says (batching.py:94-166).                                  *)
(***************************************************************************)
THEOREM StreamsKeepContract == Spec => Scheduler!Stream!Safety
<1>1. Init => Scheduler!Stream!Init
  <2> SUFFICES ASSUME Init PROVE Scheduler!Stream!Init
    OBVIOUS
  <2>1. Sched!Init
    BY SameInit DEF Init
  <2> QED
    BY <2>1, SameStream, SchedAssumptions, Sched!StreamStarts
<1>2. NodeInv /\ [Next]_vars => [Scheduler!Stream!Next]_(Scheduler!Stream!vars)
  <2> SUFFICES ASSUME NodeInv, [Next]_vars
               PROVE  [Sched!Stream!Next]_(Sched!Stream!vars)
    BY SameStream
  <2>1. ASSUME UNCHANGED queueVars
        PROVE  UNCHANGED Sched!Stream!vars
    BY <2>1 DEF queueVars, Sched!Stream!vars, Sched!phaseBar, Sched!Submitted, Sched!Closed
  <2>2. CASE RunScheduler \/ Shutdown \/ \E r \in Reqs : SubmitSeq(r)
    <3>1. SchedStep
      BY <2>2, SchedulerSteps
    <3> QED
      BY <3>1, SchedAssumptions, Sched!StepImplements DEF SchedStep, NodeInv, SchedInv
  <2> QED
    BY <2>1, <2>2 DEF Next, Handler, ResolveFails, PassOn, Disconnect, PrefillTooBig,
       PrefillBegin, PrefillEvict, PrefillRefused, PrefillEnter, Store, vars, schedVars, queueVars
<1> QED
  BY NodeInvariance, <1>1, <1>2, PTL DEF Spec, Scheduler!Stream!Safety

-------------------------------------------------------------------------------
(***************************************************************************)
(* What the decode service waits for before it submits: the simulated      *)
(* transfer of the KV cache.                                               *)
(***************************************************************************)
Link == INSTANCE KVTransfer

(***************************************************************************)
(* Between two nodes a larger cache takes longer, whatever the bandwidth:  *)
(* kv_transfer.py:9, "cost grows with the cache size (i.e. with prompt     *)
(* length) on top of a fixed per-transfer setup cost".                     *)
(***************************************************************************)
THEOREM LargerTakesLonger ==
    ASSUME NEW fixed \in Nat, NEW bandwidth \in Nat, bandwidth > 0,
           NEW small \in Nat, NEW large \in Nat, 0 < small, small < large
    PROVE  Link!Shorter(Link!Transfer(small, bandwidth, fixed, FALSE),
                        Link!Transfer(large, bandwidth, fixed, FALSE))
  BY DEF Link!Shorter, Link!Transfer, Link!Fraction

(***************************************************************************)
(* A faster link takes less time, but none, or a negative one, takes the   *)
(* least of all: kv_transfer.py:34 leaves the size out of the sum, and     *)
(* config.py:118 lets KV_TRANSFER_BANDWIDTH_GBPS be 0.                     *)
(***************************************************************************)
THEOREM NoLinkIsFastest ==
    ASSUME NEW fixed \in Nat, NEW size \in Nat, size > 0,
           NEW slow \in Nat, NEW fast \in Nat, 0 < slow, slow < fast,
           NEW none \in Int, none <= 0
    PROVE  /\ Link!Shorter(Link!Transfer(size, fast, fixed, FALSE),
                           Link!Transfer(size, slow, fixed, FALSE))
           /\ Link!Shorter(Link!Transfer(size, none, fixed, FALSE),
                           Link!Transfer(size, fast, fixed, FALSE))
  BY DEF Link!Shorter, Link!Transfer, Link!Fraction

===============================================================================
