------------------------- MODULE DecodeSchedulerProofs -------------------------
(***************************************************************************)
(* The scheduler keeps its types and the books of its pool, leaves no      *)
(* block behind, refuses only for want of memory, implements TokenStream,  *)
(* its batch is fair and its victims are the oldest: for any requests,     *)
(* ids, sizes, limits, batch size, pool, policy and, but for the victims,  *)
(* any clock.                                                              *)
(*                                                                         *)
(* A node that gives the pool a second user builds on the lemmas that do   *)
(* not mention NoLeftovers, see WorkerNodeProofs.                          *)
(***************************************************************************)
EXTENDS DecodeScheduler, KVPoolProofs, SequenceTheorems

-------------------------------------------------------------------------------
(***************************************************************************)
(* The inductive invariant.  A request inside allocate has passed the size *)
(* check and its id has no block any more (PoolInv); nobody is at two      *)
(* places at once (QueueInv), or dropping the old block of a request's id  *)
(* could drop the block of a running sequence.                             *)
(***************************************************************************)
Chunks == [index : Nat, finish : {"none", "length", "oom"}]

TypeInv ==
    /\ pc \in {"admit", "asleep", "emit", "stopped"}
    /\ waiting \in Seq(Reqs)
    /\ taken \subseteq Reqs /\ active \subseteq Reqs /\ todo \subseteq Reqs
    /\ ticket \in [Reqs -> Nat]
    /\ gen \in [Reqs -> Nat]
    /\ out \in [Reqs -> Seq(Chunks)]
    /\ clock \in Int

PoolInv ==
    /\ SoundPool(pool)
    /\ \A r \in taken :
        pc = "admit" /\ SizeOf[r] <= TotalMB /\ KvOf[r] \notin Held(pool)

\* A step takes no block but those of sequences that leave the batch, unless
\* the policy evicts, and adds none but those of sequences that enter it.
OwnBlocksOnly ==
    /\ pool'.policy = pool.policy
    /\ Held(pool') \subseteq {KvOf[r] : r \in active'} \cup
                            (Held(pool) \ {KvOf[r] : r \in active \ active'})
    /\ pool.policy = "none" =>
            Held(pool) \ {KvOf[r] : r \in Reqs} \subseteq Held(pool')

QueueInv ==
    /\ \A i, j \in 1..Len(waiting) : waiting[i] = waiting[j] => i = j
    /\ \A i \in 1..Len(waiting) : waiting[i] \notin taken \cup active
    /\ taken \cap active = {}

(***************************************************************************)
(* The head of a non-empty queue and what is behind it.                    *)
(***************************************************************************)
LEMMA QueueParts ==
    ASSUME NEW q \in Seq(Reqs), q # <<>>
    PROVE  /\ Head(q) \in Reqs /\ Head(q) = q[1]
           /\ Tail(q) \in Seq(Reqs)
           /\ Len(q) \in Nat \ {0} /\ Len(Tail(q)) = Len(q) - 1
           /\ \A i \in 1..Len(Tail(q)) : Tail(q)[i] = q[i + 1]
BY HeadTailProperties

-------------------------------------------------------------------------------
LEMMA InitInv == Init => TypeInv /\ PoolInv /\ QueueInv
<1> SUFFICES ASSUME Init PROVE TypeInv /\ PoolInv /\ QueueInv
  OBVIOUS
<1>1. PICK policy \in Policies : pool = EmptyPool(policy)
  BY DEF Init
<1>2. SoundPool(pool) /\ pool.used = 0 /\ Held(pool) = {}
  BY <1>1, EmptyPoolSound
<1>3. TypeInv
  BY DEF Init, TypeInv
<1>4. PoolInv
  BY <1>2, PoolAssumption DEF Init, PoolInv
<1>5. QueueInv
  BY DEF Init, QueueInv
<1> QED
  BY <1>3, <1>4, <1>5

(***************************************************************************)
(* Every step keeps the types.                                             *)
(***************************************************************************)
LEMMA TypeStep ==
    ASSUME TypeInv, PoolInv, [Next]_vars
    PROVE  TypeInv'
<1> USE SchedulerAssumption DEF TypeInv
<1>0. pool.allocs \in Nat
  BY DEF PoolInv, SoundPool, IsPool
<1>1. ASSUME NEW r \in Reqs, NEW more \in Seq(Chunks), Put(r, more)
      PROVE  out' \in [Reqs -> Seq(Chunks)]
  BY <1>1 DEF Put
<1>2. ASSUME NEW n \in Nat, NEW reason \in {"length", "oom"}
      PROVE  Final(n, reason) \in Chunks
  BY DEF Final, Chunks
<1>3. ASSUME NEW r \in Reqs
      PROVE  Token(r) \in Chunks
  BY DEF Token, Chunks
<1>4. ASSUME NEW tick \in Ticks
      PROVE  clock + tick \in Int
  <2>1. tick \in Int
    OBVIOUS
  <2> QED
    BY <2>1
<1>5. CASE UNCHANGED vars
  BY <1>5 DEF vars
<1>6. ASSUME NEW r \in Reqs, Submit(r)
      PROVE  TypeInv'
  BY <1>6 DEF Submit
<1>7. CASE AdmitTooBig
  <2>1. Head(waiting) \in Reqs /\ Tail(waiting) \in Seq(Reqs)
    BY <1>7, QueueParts DEF AdmitTooBig, CanAdmit
  <2>2. <<Final(0, "oom")>> \in Seq(Chunks)
    BY <1>2
  <2>3. out' \in [Reqs -> Seq(Chunks)]
    BY <1>1, <1>7, <2>1, <2>2 DEF AdmitTooBig
  <2> QED
    BY <1>7, <2>1, <2>3 DEF AdmitTooBig
<1>8. CASE AdmitTake
  <2>1. Head(waiting) \in Reqs /\ Tail(waiting) \in Seq(Reqs)
    BY <1>8, QueueParts DEF AdmitTake, CanAdmit
  <2> QED
    BY <1>8, <2>1 DEF AdmitTake
<1>9. ASSUME NEW r \in taken, AdmitEvict(r)
      PROVE  TypeInv'
  BY <1>9 DEF AdmitEvict
<1>10. ASSUME NEW r \in taken, AdmitReject(r)
       PROVE  TypeInv'
  <2>1. <<Final(0, "oom")>> \in Seq(Chunks)
    BY <1>2
  <2>2. out' \in [Reqs -> Seq(Chunks)]
    BY <1>1, <1>10, <2>1 DEF AdmitReject
  <2> QED
    BY <1>10, <2>2 DEF AdmitReject
<1>11. ASSUME NEW r \in taken, AdmitSeat(r)
       PROVE  TypeInv'
  <2>1. clock' \in Int
    BY <1>4, <1>11 DEF AdmitSeat
  <2>2. ticket' \in [Reqs -> Nat]
    BY <1>0, <1>11 DEF AdmitSeat
  <2> QED
    BY <1>11, <2>1, <2>2 DEF AdmitSeat
<1>12. CASE AdmitDone
  BY <1>12 DEF AdmitDone
<1>13. CASE WakeIdle
  BY <1>13 DEF WakeIdle
<1>14. CASE WakeStep
  BY <1>14 DEF WakeStep
<1>15. ASSUME NEW r \in todo, Emit(r)
       PROVE  TypeInv'
  <2>1. clock' \in Int
    BY <1>4, <1>15 DEF Emit, TouchBlock
  <2>2. gen[r] + 1 \in Nat
    OBVIOUS
  <2>3. gen' \in [Reqs -> Nat]
    BY <1>15, <2>2 DEF Emit
  <2>4. <<Token(r), Final(gen[r] + 1, "length")>> \in Seq(Chunks) /\ <<Token(r)>> \in Seq(Chunks)
    BY <1>2, <1>3, <2>2
  <2>5. out' \in [Reqs -> Seq(Chunks)]
    BY <1>1, <1>15, <2>4 DEF Emit
  <2> QED
    BY <1>15, <2>1, <2>3, <2>5 DEF Emit
<1>16. ASSUME NEW r \in active, Retire(r)
       PROVE  TypeInv'
  BY <1>16 DEF Retire
<1>17. CASE PassDone
  BY <1>17 DEF PassDone
<1>18. CASE Stop
  BY <1>18 DEF Stop
<1> QED
  BY <1>5, <1>6, <1>7, <1>8, <1>9, <1>10, <1>11, <1>12, <1>13, <1>14, <1>15,
     <1>16, <1>17, <1>18 DEF Next, Loop

(***************************************************************************)
(* No step takes a chunk back.                                             *)
(***************************************************************************)
LEMMA StreamsGrow ==
    ASSUME TypeInv, [Next]_vars
    PROVE  \A r \in Reqs : Len(out[r]) <= Len(out'[r])
<1> DEFINE Grown == \A r \in Reqs : Len(out[r]) <= Len(out'[r])
<1> USE DEF TypeInv
<1>1. ASSUME NEW r \in Reqs, NEW more \in Seq(Chunks), Put(r, more)
      PROVE  Grown
  <2>1. out'[r] = out[r] \o more /\ \A s \in Reqs \ {r} : out'[s] = out[s]
    BY <1>1 DEF Put
  <2>2. Len(out[r] \o more) = Len(out[r]) + Len(more) /\ Len(more) \in Nat
    OBVIOUS
  <2>3. \A s \in Reqs : Len(out[s]) \in Nat
    OBVIOUS
  <2>4. ASSUME NEW s \in Reqs
        PROVE  Len(out[s]) <= Len(out'[s])
    <3>1. CASE s = r
      BY <2>1, <2>2, <2>3, <3>1
    <3>2. CASE s # r
      <4>1. Len(out'[s]) = Len(out[s]) /\ Len(out[s]) \in Nat
        BY <2>1, <2>3, <3>2
      <4> QED
        BY <4>1
    <3> QED
      BY <3>1, <3>2
  <2> QED
    BY <2>4
<1>2. ASSUME NEW n \in Nat, NEW reason \in {"length", "oom"}
      PROVE  Final(n, reason) \in Chunks
  BY DEF Final, Chunks
<1>3. CASE out' = out
  BY <1>3
<1>4. CASE AdmitTooBig
  <2>1. Head(waiting) \in Reqs
    BY <1>4, QueueParts DEF AdmitTooBig, CanAdmit
  <2>2. <<Final(0, "oom")>> \in Seq(Chunks)
    BY <1>2
  <2> QED
    BY <1>1, <1>4, <2>1, <2>2 DEF AdmitTooBig
<1>5. ASSUME NEW r \in taken, AdmitReject(r)
      PROVE  Grown
  <2>1. <<Final(0, "oom")>> \in Seq(Chunks)
    BY <1>2
  <2> QED
    BY <1>1, <1>5, <2>1 DEF AdmitReject
<1>6. ASSUME NEW r \in todo, Emit(r)
      PROVE  Grown
  <2>1. r \in Reqs /\ gen[r] + 1 \in Nat
    OBVIOUS
  <2>2. Token(r) \in Chunks /\ Final(gen[r] + 1, "length") \in Chunks
    BY <1>2, <2>1 DEF Token, Chunks
  <2>3. <<Token(r), Final(gen[r] + 1, "length")>> \in Seq(Chunks) /\ <<Token(r)>> \in Seq(Chunks)
    BY <2>2
  <2> QED
    BY <1>1, <1>6, <2>3 DEF Emit
<1> QED
  BY <1>3, <1>4, <1>5, <1>6
     DEF Next, Loop, Submit, AdmitTake, AdmitEvict, AdmitSeat, AdmitDone, WakeIdle,
         WakeStep, Retire, PassDone, Stop, vars

(***************************************************************************)
(* Every step keeps the books of the pool and leaves no block behind.      *)
(***************************************************************************)
LEMMA PoolStep ==
    ASSUME TypeInv, PoolInv, [Next]_vars
    PROVE  PoolInv' /\ OwnBlocksOnly
<1> USE PoolAssumption, SchedulerAssumption
<1>1. CASE UNCHANGED vars
  BY <1>1 DEF vars, PoolInv, OwnBlocksOnly
<1>2. ASSUME NEW r \in Reqs, Submit(r)
      PROVE  PoolInv' /\ OwnBlocksOnly
  BY <1>2 DEF Submit, PoolInv, OwnBlocksOnly
<1>3. CASE AdmitTooBig
  <2>1. /\ SoundPool(pool') /\ Held(pool') = Held(pool)
        /\ pool'.policy = pool.policy
    BY <1>3, CountOomSound DEF AdmitTooBig, PoolInv, Held
  <2> QED
    BY <1>3, <2>1 DEF AdmitTooBig, PoolInv, OwnBlocksOnly
<1>4. CASE AdmitTake
  <2>1. Head(waiting) \in Reqs
    BY <1>4, QueueParts DEF AdmitTake, CanAdmit, TypeInv
  <2>2. /\ SoundPool(pool') /\ pool'.policy = pool.policy
        /\ Held(pool') = Held(pool) \ {KvOf[Head(waiting)]}
    BY <1>4, ReleaseSound DEF AdmitTake, PoolInv
  <2> QED
    BY <1>4, <2>1, <2>2 DEF AdmitTake, Admitting, PoolInv, OwnBlocksOnly
<1>5. ASSUME NEW r \in taken, AdmitEvict(r)
      PROVE  PoolInv' /\ OwnBlocksOnly
  <2>1. PICK v \in Victims(pool) : pool' = Evict(pool, v)
    BY <1>5 DEF AdmitEvict
  <2>2. v \in Held(pool) /\ pool.policy # "none"
    BY DEF Victims
  <2>3. /\ SoundPool(pool') /\ Held(pool') = Held(pool) \ {v}
        /\ pool'.policy = pool.policy
    BY <2>1, <2>2, EvictSound DEF PoolInv
  <2> QED
    BY <1>5, <2>2, <2>3 DEF AdmitEvict, PoolInv, OwnBlocksOnly
<1>6. ASSUME NEW r \in taken, AdmitReject(r)
      PROVE  PoolInv' /\ OwnBlocksOnly
  <2>1. /\ SoundPool(pool') /\ Held(pool') = Held(pool)
        /\ pool'.policy = pool.policy
    BY <1>6, CountOomSound DEF AdmitReject, PoolInv, Held
  <2> QED
    BY <1>6, <2>1 DEF AdmitReject, PoolInv, OwnBlocksOnly
<1>7. ASSUME NEW r \in taken, AdmitSeat(r)
      PROVE  PoolInv' /\ OwnBlocksOnly
  <2>1. r \in Reqs /\ KvOf[r] \in KvIds /\ SizeOf[r] \in Int /\ KvOf[r] \notin Held(pool)
    BY DEF TypeInv, PoolInv
  <2>2. PICK tick \in Ticks : pool' = Insert(pool, KvOf[r], SizeOf[r], clock + tick)
    BY <1>7 DEF AdmitSeat
  <2>3. tick \in Int
    OBVIOUS
  <2>4. PICK now \in Int : now = clock + tick
    BY <2>3 DEF TypeInv
  <2>5. /\ SoundPool(pool') /\ Held(pool') = Held(pool) \cup {KvOf[r]}
        /\ pool'.policy = pool.policy
    BY <2>1, <2>2, <2>4, InsertSound DEF PoolInv
  <2>6. taken' = {} /\ active' = active \cup {r}
    BY <1>7 DEF AdmitSeat
  <2> QED
    BY <2>1, <2>5, <2>6 DEF PoolInv, OwnBlocksOnly
<1>8. CASE AdmitDone
  BY <1>8 DEF AdmitDone, Admitting, PoolInv, OwnBlocksOnly
<1>9. CASE WakeIdle
  BY <1>9 DEF WakeIdle, PoolInv, OwnBlocksOnly
<1>10. CASE WakeStep
  BY <1>10 DEF WakeStep, PoolInv, OwnBlocksOnly
<1>11. ASSUME NEW r \in todo, Emit(r)
       PROVE  PoolInv' /\ OwnBlocksOnly
  <2>1. /\ SoundPool(pool') /\ Held(pool') = Held(pool)
        /\ pool'.policy = pool.policy
    <3>1. CASE KvOf[r] \in Held(pool)
      <4>1. PICK tick \in Ticks : pool' = Touch(pool, KvOf[r], clock + tick)
        BY <1>11, <3>1 DEF Emit, TouchBlock
      <4>2. tick \in Int
        OBVIOUS
      <4>3. PICK now \in Int : now = clock + tick
        BY <4>2 DEF TypeInv
      <4> QED
        BY <3>1, <4>1, <4>3, TouchSound DEF PoolInv
    <3>2. CASE KvOf[r] \notin Held(pool)
      BY <1>11, <3>2 DEF Emit, TouchBlock, PoolInv
    <3> QED
      BY <3>1, <3>2
  <2> QED
    BY <1>11, <2>1 DEF Emit, PoolInv, OwnBlocksOnly
<1>12. ASSUME NEW r \in active, Retire(r)
       PROVE  PoolInv' /\ OwnBlocksOnly
  <2>1. /\ SoundPool(pool') /\ pool'.policy = pool.policy
        /\ Held(pool') = Held(pool) \ {KvOf[r]}
    BY <1>12, ReleaseSound DEF Retire, PoolInv
  <2>2. taken' = {}
    BY <1>12 DEF Retire, PoolInv
  <2>3. active' = active \ {r} /\ active \ active' = {r} /\ r \in Reqs
    BY <1>12 DEF Retire, TypeInv
  <2>4. PoolInv'
    BY <2>1, <2>2 DEF PoolInv
  <2>5. OwnBlocksOnly
    BY <2>1, <2>3 DEF OwnBlocksOnly
  <2> QED
    BY <2>4, <2>5
<1>13. CASE PassDone
  BY <1>13 DEF PassDone, PoolInv, OwnBlocksOnly
<1>14. CASE Stop
  BY <1>14 DEF Stop, PoolInv, OwnBlocksOnly
<1> QED
  BY <1>1, <1>2, <1>3, <1>4, <1>5, <1>6, <1>7, <1>8, <1>9, <1>10, <1>11, <1>12,
     <1>13, <1>14 DEF Next, Loop

(***************************************************************************)
(* A step adds no block but that of the request inside allocate, of its    *)
(* size, and only when there is room for it.                               *)
(***************************************************************************)
LEMMA UnitsStep ==
    ASSUME TypeInv, PoolInv, [Next]_vars
    PROVE  \/ NothingMore(pool, pool')
           \/ \E r \in taken : OneMore(pool, pool', KvOf[r], SizeOf[r])
<1>0. SoundPool(pool)
  BY DEF PoolInv
<1>1. CASE AdmitTake \/ \E r \in active : Retire(r)
  <2>1. \E b : pool' = Release(pool, b)
    BY <1>1 DEF AdmitTake, Retire
  <2> QED
    BY <1>0, <2>1, NothingTaken
<1>2. ASSUME NEW r \in taken, AdmitEvict(r)
      PROVE  NothingMore(pool, pool')
  <2>1. PICK v \in Held(pool) : pool' = Evict(pool, v)
    BY <1>2 DEF AdmitEvict, Victims
  <2> QED
    BY <1>0, <2>1, NothingTaken
<1>3. CASE AdmitTooBig \/ \E r \in taken : AdmitReject(r)
  <2>1. pool' = CountOom(pool)
    BY <1>3 DEF AdmitTooBig, AdmitReject
  <2> QED
    BY <1>0, <2>1, NothingTaken
<1>4. ASSUME NEW r \in taken, AdmitSeat(r)
      PROVE  OneMore(pool, pool', KvOf[r], SizeOf[r])
  <2>1. KvOf[r] \in KvIds /\ SizeOf[r] \in Int /\ KvOf[r] \notin Held(pool)
    BY SchedulerAssumption DEF TypeInv, PoolInv
  <2>2. PICK tick \in Int : pool' = Insert(pool, KvOf[r], SizeOf[r], clock + tick)
    BY <1>4, SchedulerAssumption DEF AdmitSeat
  <2>3. PICK now \in Int : now = clock + tick
    BY DEF TypeInv
  <2>4. HasRoom(pool, SizeOf[r])
    BY <1>4 DEF AdmitSeat
  <2> QED
    BY <1>0, <2>1, <2>2, <2>3, <2>4, RoomTaken
<1>5. ASSUME NEW r \in todo, Emit(r)
      PROVE  NothingMore(pool, pool')
  <2>1. CASE KvOf[r] \in Held(pool)
    <3>1. PICK tick \in Int : pool' = Touch(pool, KvOf[r], clock + tick)
      BY <1>5, <2>1, SchedulerAssumption DEF Emit, TouchBlock
    <3>2. PICK now \in Int : now = clock + tick
      BY DEF TypeInv
    <3> QED
      BY <1>0, <2>1, <3>1, <3>2, NothingTaken
  <2>2. CASE KvOf[r] \notin Held(pool)
    BY <1>0, <1>5, <2>2, NothingTaken DEF Emit, TouchBlock
  <2> QED
    BY <2>1, <2>2
<1>6. ASSUME pool' = pool
      PROVE  NothingMore(pool, pool')
  BY <1>0, <1>6, NothingTaken
<1> QED
  BY <1>1, <1>2, <1>3, <1>4, <1>5, <1>6
     DEF Next, Loop, Submit, AdmitDone, WakeIdle, WakeStep, PassDone, Stop, vars

(***************************************************************************)
(* Only an eviction counts as one, and only a refusal as one.              *)
(***************************************************************************)
LEMMA CountersStep ==
    ASSUME TypeInv, PoolInv, [Next]_vars
    PROVE  /\ \/ pool'.evictions = pool.evictions
              \/ /\ \E r \in taken : AdmitEvict(r)
                 /\ pool'.evictions = pool.evictions + 1 /\ pool.policy # "none"
           /\ \/ pool'.oom = pool.oom
              \/ AdmitTooBig
              \/ \E r \in taken : AdmitReject(r)
<1>0. SoundPool(pool)
  BY DEF PoolInv
<1>1. CASE AdmitTake \/ \E r \in active : Retire(r)
  <2>1. \E b : pool' = Release(pool, b)
    BY <1>1 DEF AdmitTake, Retire
  <2> QED
    BY <1>0, <2>1, ReleaseSound, OnlyFailuresCount
<1>2. ASSUME NEW r \in taken, AdmitEvict(r)
      PROVE  /\ pool'.evictions = pool.evictions + 1 /\ pool.policy # "none"
             /\ pool'.oom = pool.oom
  <2>1. PICK v \in Held(pool) : pool' = Evict(pool, v) /\ pool.policy # "none"
    BY <1>2 DEF AdmitEvict, Victims
  <2> QED
    BY <1>0, <2>1, EvictSound, OnlyFailuresCount
<1>3. CASE AdmitTooBig \/ \E r \in taken : AdmitReject(r)
  <2>1. pool' = CountOom(pool)
    BY <1>3 DEF AdmitTooBig, AdmitReject
  <2> QED
    BY <1>0, <1>3, <2>1, CountOomSound
<1>4. ASSUME NEW r \in taken, AdmitSeat(r)
      PROVE  pool'.evictions = pool.evictions /\ pool'.oom = pool.oom
  <2>1. KvOf[r] \in KvIds /\ SizeOf[r] \in Int /\ KvOf[r] \notin Held(pool)
    BY SchedulerAssumption DEF TypeInv, PoolInv
  <2>2. PICK tick \in Int : pool' = Insert(pool, KvOf[r], SizeOf[r], clock + tick)
    BY <1>4, SchedulerAssumption DEF AdmitSeat
  <2>3. PICK now \in Int : now = clock + tick
    BY DEF TypeInv
  <2> QED
    BY <1>0, <2>1, <2>2, <2>3, InsertSound, OnlyFailuresCount
<1>5. ASSUME NEW r \in todo, Emit(r)
      PROVE  pool'.evictions = pool.evictions /\ pool'.oom = pool.oom
  <2>1. CASE KvOf[r] \in Held(pool)
    <3>1. PICK tick \in Int : pool' = Touch(pool, KvOf[r], clock + tick)
      BY <1>5, <2>1, SchedulerAssumption DEF Emit, TouchBlock
    <3>2. PICK now \in Int : now = clock + tick
      BY DEF TypeInv
    <3> QED
      BY <1>0, <2>1, <3>1, <3>2, TouchSound, OnlyFailuresCount
  <2>2. CASE KvOf[r] \notin Held(pool)
    BY <1>5, <2>2 DEF Emit, TouchBlock
  <2> QED
    BY <2>1, <2>2
<1>6. ASSUME NEW r \in Reqs, Submit(r)
      PROVE  pool' = pool
  BY <1>6 DEF Submit
<1> QED
  BY <1>1, <1>2, <1>3, <1>4, <1>5, <1>6
     DEF Next, Loop, AdmitDone, WakeIdle, WakeStep, PassDone, Stop, vars

(***************************************************************************)
(* The batch stays finite.                                                 *)
(***************************************************************************)
LEMMA FiniteStep ==
    ASSUME IsFiniteSet(active), [Next]_vars
    PROVE  IsFiniteSet(active')
<1>1. ASSUME NEW r \in taken, AdmitSeat(r)
      PROVE  IsFiniteSet(active')
  BY <1>1, FS_AddElement DEF AdmitSeat
<1>2. ASSUME NEW r \in active, Retire(r)
      PROVE  IsFiniteSet(active')
  BY <1>2, FS_RemoveElement DEF Retire
<1> QED
  BY <1>1, <1>2 DEF Next, Loop, Submit, AdmitTooBig, AdmitTake, AdmitEvict, AdmitReject,
     AdmitDone, WakeIdle, WakeStep, Emit, PassDone, Stop, vars

(***************************************************************************)
(* Every step keeps each request at one place.                             *)
(***************************************************************************)
LEMMA QueueStep ==
    ASSUME TypeInv, QueueInv, [Next]_vars
    PROVE  QueueInv'
<1>1. ASSUME UNCHANGED <<waiting, taken, active>>
      PROVE  QueueInv'
  BY <1>1 DEF QueueInv
<1>2. CASE UNCHANGED vars
  BY <1>1, <1>2 DEF vars
<1>3. ASSUME NEW r \in Reqs, Submit(r)
      PROVE  QueueInv'
  <2>1. /\ waiting \in Seq(Reqs) /\ waiting' = Append(waiting, r)
        /\ taken' = taken /\ active' = active
    BY <1>3 DEF Submit, TypeInv
  <2>2. /\ Len(waiting') = Len(waiting) + 1
        /\ waiting'[Len(waiting) + 1] = r
        /\ \A i \in 1..Len(waiting) : waiting'[i] = waiting[i]
    BY <2>1
  <2>3. r \notin taken \cup active /\ \A i \in 1..Len(waiting) : waiting[i] # r
    BY <1>3, <2>1 DEF Submit, Submitted
  <2> QED
    BY <2>1, <2>2, <2>3 DEF QueueInv
<1>4. CASE AdmitTooBig \/ AdmitTake
  <2>1. waiting \in Seq(Reqs) /\ waiting # <<>> /\ waiting' = Tail(waiting) /\ active' = active
    BY <1>4 DEF AdmitTooBig, AdmitTake, CanAdmit, TypeInv
  <2>2. /\ Head(waiting) = waiting[1] /\ Len(waiting) \in Nat \ {0}
        /\ Len(waiting') = Len(waiting) - 1
        /\ \A i \in 1..Len(waiting') : waiting'[i] = waiting[i + 1]
    BY <2>1, QueueParts
  <2>3. \A i \in 1..Len(waiting') : i + 1 \in 1..Len(waiting) /\ waiting[i + 1] # waiting[1]
    BY <2>2 DEF QueueInv
  <2>4. taken' \subseteq taken \cup {waiting[1]}
    BY <1>4, <2>2 DEF AdmitTooBig, AdmitTake
  <2>5. waiting[1] \notin active
    BY <2>2 DEF QueueInv
  <2>6. \A i, j \in 1..Len(waiting') : waiting'[i] = waiting'[j] => i = j
    BY <2>2, <2>3 DEF QueueInv
  <2>7. \A i \in 1..Len(waiting') : waiting'[i] \notin taken' \cup active'
    BY <2>1, <2>2, <2>3, <2>4 DEF QueueInv
  <2> QED
    BY <2>1, <2>4, <2>5, <2>6, <2>7 DEF QueueInv
<1>5. ASSUME NEW r \in taken, AdmitEvict(r)
      PROVE  QueueInv'
  BY <1>1, <1>5 DEF AdmitEvict
<1>6. ASSUME NEW r \in taken, AdmitReject(r) \/ AdmitSeat(r)
      PROVE  QueueInv'
  <2>1. waiting' = waiting /\ taken' = {} /\ active' \subseteq active \cup {r}
    BY <1>6 DEF AdmitReject, AdmitSeat
  <2> QED
    BY <2>1 DEF QueueInv
<1>7. CASE AdmitDone \/ WakeIdle \/ WakeStep \/ PassDone \/ Stop
  BY <1>1, <1>7 DEF AdmitDone, WakeIdle, WakeStep, PassDone, Stop
<1>8. ASSUME NEW r \in todo, Emit(r)
      PROVE  QueueInv'
  BY <1>1, <1>8 DEF Emit
<1>9. ASSUME NEW r \in active, Retire(r)
      PROVE  QueueInv'
  BY <1>9 DEF Retire, QueueInv
<1> QED
  BY <1>2, <1>3, <1>4, <1>5, <1>6, <1>7, <1>8, <1>9 DEF Next, Loop

(***************************************************************************)
(* Every step leaves a running sequence that shares its id with nobody its *)
(* block, unless the policy evicts.                                        *)
(***************************************************************************)
LEMMA HoldStep ==
    ASSUME TypeInv, PoolInv, QueueInv, ActiveHoldsBlock, [Next]_vars
    PROVE  ActiveHoldsBlock'
<1> DEFINE Own(r) == \A s \in Reqs \ {r} : KvOf[s] # KvOf[r]
<1> USE SchedulerAssumption
<1>1. ASSUME pool'.policy = pool.policy, Held(pool') = Held(pool), active' \subseteq active
      PROVE  ActiveHoldsBlock'
  BY <1>1 DEF ActiveHoldsBlock
<1>2. CASE UNCHANGED vars
  BY <1>1, <1>2 DEF vars
<1>3. ASSUME NEW r \in Reqs, Submit(r)
      PROVE  ActiveHoldsBlock'
  BY <1>1, <1>3 DEF Submit
<1>4. CASE AdmitTooBig
  <2>1. pool'.policy = pool.policy /\ Held(pool') = Held(pool)
    BY <1>4, CountOomSound DEF AdmitTooBig, PoolInv, Held
  <2> QED
    BY <1>1, <1>4, <2>1 DEF AdmitTooBig
<1>5. CASE AdmitTake
  <2>1. Head(waiting) \in Reqs /\ Head(waiting) = waiting[1] /\ Len(waiting) \in Nat \ {0}
    BY <1>5, QueueParts DEF AdmitTake, CanAdmit, TypeInv
  <2>2. Head(waiting) \notin active
    BY <2>1 DEF QueueInv
  <2>3. pool'.policy = pool.policy /\ Held(pool') = Held(pool) \ {KvOf[Head(waiting)]}
    BY <1>5, ReleaseSound DEF AdmitTake, PoolInv
  <2>4. active' = active
    BY <1>5 DEF AdmitTake
  <2> QED
    BY <2>1, <2>2, <2>3, <2>4 DEF ActiveHoldsBlock, TypeInv
<1>6. ASSUME NEW r \in taken, AdmitEvict(r)
      PROVE  ActiveHoldsBlock'
  <2>1. PICK v \in Victims(pool) : pool' = Evict(pool, v)
    BY <1>6 DEF AdmitEvict
  <2>2. v \in Held(pool) /\ pool.policy # "none"
    BY <2>1 DEF Victims
  <2>3. pool'.policy = pool.policy
    BY <2>1, <2>2, EvictSound DEF PoolInv
  <2> QED
    BY <2>2, <2>3 DEF ActiveHoldsBlock
<1>7. ASSUME NEW r \in taken, AdmitReject(r)
      PROVE  ActiveHoldsBlock'
  <2>1. pool'.policy = pool.policy /\ Held(pool') = Held(pool)
    BY <1>7, CountOomSound DEF AdmitReject, PoolInv, Held
  <2> QED
    BY <1>1, <1>7, <2>1 DEF AdmitReject
<1>8. ASSUME NEW r \in taken, AdmitSeat(r)
      PROVE  ActiveHoldsBlock'
  <2>1. r \in Reqs /\ KvOf[r] \in KvIds /\ SizeOf[r] \in Int /\ KvOf[r] \notin Held(pool)
    BY DEF TypeInv, PoolInv
  <2>2. PICK tick \in Ticks : pool' = Insert(pool, KvOf[r], SizeOf[r], clock + tick)
    BY <1>8 DEF AdmitSeat
  <2>3. tick \in Int
    OBVIOUS
  <2>4. PICK now \in Int : now = clock + tick
    BY <2>3 DEF TypeInv
  <2>5. pool'.policy = pool.policy /\ Held(pool') = Held(pool) \cup {KvOf[r]}
    BY <2>1, <2>2, <2>4, InsertSound DEF PoolInv
  <2>6. active' = active \cup {r}
    BY <1>8 DEF AdmitSeat
  <2> QED
    BY <2>5, <2>6 DEF ActiveHoldsBlock
<1>9. CASE AdmitDone \/ WakeIdle \/ WakeStep \/ PassDone \/ Stop
  BY <1>1, <1>9 DEF AdmitDone, WakeIdle, WakeStep, PassDone, Stop
<1>10. ASSUME NEW r \in todo, Emit(r)
       PROVE  ActiveHoldsBlock'
  <2>1. pool'.policy = pool.policy /\ Held(pool') = Held(pool)
    <3>1. CASE KvOf[r] \in Held(pool)
      <4>1. PICK tick \in Ticks : pool' = Touch(pool, KvOf[r], clock + tick)
        BY <1>10, <3>1 DEF Emit, TouchBlock
      <4>2. tick \in Int
        OBVIOUS
      <4>3. PICK now \in Int : now = clock + tick
        BY <4>2 DEF TypeInv
      <4> QED
        BY <3>1, <4>1, <4>3, TouchSound DEF PoolInv
    <3>2. CASE KvOf[r] \notin Held(pool)
      BY <1>10, <3>2 DEF Emit, TouchBlock
    <3> QED
      BY <3>1, <3>2
  <2> QED
    BY <1>1, <1>10, <2>1 DEF Emit
<1>11. ASSUME NEW r \in active, Retire(r)
       PROVE  ActiveHoldsBlock'
  <2>1. pool'.policy = pool.policy /\ Held(pool') = Held(pool) \ {KvOf[r]}
    BY <1>11, ReleaseSound DEF Retire, PoolInv
  <2>2. active' = active \ {r} /\ r \in Reqs
    BY <1>11 DEF Retire, TypeInv
  <2> QED
    BY <2>1, <2>2 DEF ActiveHoldsBlock
<1> QED
  BY <1>2, <1>3, <1>4, <1>5, <1>6, <1>7, <1>8, <1>9, <1>10, <1>11 DEF Next, Loop

-------------------------------------------------------------------------------
LEMMA Invariance == Spec => [](TypeInv /\ PoolInv /\ QueueInv)
<1>1. TypeInv /\ PoolInv /\ QueueInv /\ [Next]_vars => (TypeInv /\ PoolInv /\ QueueInv)'
  BY TypeStep, PoolStep, QueueStep
<1> QED
  BY InitInv, <1>1, PTL DEF Spec

(***************************************************************************)
(* What the invariant says of the types.                                   *)
(***************************************************************************)
LEMMA TypedNow ==
    ASSUME TypeInv, PoolInv
    PROVE  TypeOK
<1>1. \A r \in Reqs : \A i \in DOMAIN out[r] : out[r][i] \in Chunks
  BY DEF TypeInv
<1>2. \A r \in Reqs : \A i \in DOMAIN out[r] : Chunk(out[r][i])
  BY <1>1 DEF Chunk, Chunks
<1> QED
  BY <1>2 DEF TypeInv, PoolInv, SoundPool, TypeOK

(***************************************************************************)
(* The variables of the scheduler keep their types (batching.py:52-72).    *)
(***************************************************************************)
THEOREM SchedulerTypeCorrect == Spec => []TypeOK
<1>1. TypeInv /\ PoolInv => TypeOK
  BY TypedNow
<1> QED
  BY Invariance, <1>1, PTL

(***************************************************************************)
(* No block outlives its sequence: _run frees it at retirement and a       *)
(* rejected sequence never has one (batching.py:143-165).                  *)
(***************************************************************************)
THEOREM NothingLeftOver == Spec => []NoLeftovers
<1>1. Init => NoLeftovers
  <2> SUFFICES ASSUME Init PROVE NoLeftovers
    OBVIOUS
  <2>1. Held(pool) = {}
    BY EmptyPoolSound DEF Init
  <2> QED
    BY <2>1 DEF NoLeftovers
<1>2. TypeInv /\ PoolInv /\ NoLeftovers /\ [Next]_vars => NoLeftovers'
  BY PoolStep DEF NoLeftovers, OwnBlocksOnly
<1> QED
  BY Invariance, <1>1, <1>2, PTL DEF Spec

(***************************************************************************)
(* Without eviction a running sequence has its block, whatever else is     *)
(* admitted, rejected or retired meanwhile (batching.py:149-166).          *)
(***************************************************************************)
THEOREM RunningHoldsBlock == Spec => []ActiveHoldsBlock
<1>1. Init => ActiveHoldsBlock
  BY DEF Init, ActiveHoldsBlock
<1>2. TypeInv /\ PoolInv /\ QueueInv /\ ActiveHoldsBlock /\ [Next]_vars => ActiveHoldsBlock'
  BY HoldStep
<1> QED
  BY Invariance, <1>1, <1>2, PTL DEF Spec

(***************************************************************************)
(* A sequence is rejected only under policy none and only while another    *)
(* has its block in the pool: an empty pool has room for what passed the   *)
(* size check, and a non-empty evicting one has a victim.                  *)
(***************************************************************************)
THEOREM RefusalsAreDue == Spec => RefusesOnlyWhenFull
<1> DEFINE Due == \A r \in taken : AdmitReject(r) =>
                    pool.policy = "none" /\ \E s \in active : KvOf[s] \in Held(pool)
<1>1. TypeInv /\ PoolInv /\ NoLeftovers /\ [Next]_vars => [Due]_vars
  <2> SUFFICES ASSUME TypeInv, PoolInv, NoLeftovers, NEW r \in taken, AdmitReject(r)
               PROVE  pool.policy = "none" /\ \E s \in active : KvOf[s] \in Held(pool)
    OBVIOUS
  <2>1. ~HasRoom(pool, SizeOf[r]) /\ Victims(pool) = {}
    BY DEF AdmitReject
  <2>2. SizeOf[r] \in Int /\ SizeOf[r] <= TotalMB
    BY SchedulerAssumption DEF TypeInv, PoolInv
  <2>3. Held(pool) # {}
    BY <2>1, <2>2, EmptyHasRoom DEF PoolInv
  <2>4. pool.policy = "none"
    BY <2>1, <2>3, VictimExists DEF PoolInv
  <2> QED
    BY <2>3, <2>4 DEF NoLeftovers
<1> QED
  BY Invariance, NothingLeftOver, <1>1, PTL DEF Spec, RefusesOnlyWhenFull

-------------------------------------------------------------------------------
(***************************************************************************)
(* What the refinement rests on: until it is closed a request has as many  *)
(* chunks as tokens were counted, none unless it runs and fewer than its   *)
(* limit; once closed it is never served again.                            *)
(***************************************************************************)
Queued(r) == \E i \in 1..Len(waiting) : waiting[i] = r

StreamInv ==
    /\ \A r, s \in taken : r = s
    /\ todo \subseteq active
    /\ pc # "emit" => todo = {} /\ \A r \in active : ~Closed(r)
    /\ \A r \in todo : ~Closed(r)
    /\ \A r \in Reqs : Closed(r) => ~Queued(r) /\ r \notin taken
    /\ \A r \in Reqs : ~Closed(r) =>
        /\ Len(out[r]) = gen[r]
        /\ r \notin active => gen[r] = 0
        /\ gen[r] < LimitBar[r]

(***************************************************************************)
(* A sequence ends with its limit, or with its first token when the limit  *)
(* is below one.                                                           *)
(***************************************************************************)
LEMMA LimitBarIsLimit ==
    ASSUME NEW r \in Reqs
    PROVE  /\ Goal(r) \in Int
           /\ LimitBar[r] \in Nat \ {0}
           /\ \A n \in Nat : n + 1 >= Goal(r) <=> ~(n + 1 < LimitBar[r])
<1>1. Goal(r) \in Int
  BY SchedulerAssumption DEF Goal
<1>2. LimitBar[r] = IF Goal(r) < 1 THEN 1 ELSE Goal(r)
  BY DEF LimitBar
<1> QED
  BY <1>1, <1>2

(***************************************************************************)
(* Chunks without finish_reason leave a request open, a final one closes   *)
(* it.                                                                     *)
(***************************************************************************)
LEMMA ClosedAfterPut ==
    ASSUME TypeInv, NEW r \in Reqs, NEW more \in Seq(Chunks), Put(r, more)
    PROVE  /\ Closed(r)' <=> Closed(r) \/ \E i \in 1..Len(more) : more[i].finish # "none"
           /\ \A s \in Reqs \ {r} : out'[s] = out[s] /\ (Closed(s)' <=> Closed(s))
           /\ out'[r] = out[r] \o more
<1>1. out[r] \in Seq(Chunks) /\ out' = [out EXCEPT ![r] = out[r] \o more]
  BY DEF TypeInv, Put
<1>2. out'[r] = out[r] \o more /\ \A s \in Reqs \ {r} : out'[s] = out[s]
  BY <1>1 DEF TypeInv
<1>3. /\ DOMAIN out'[r] = 1..(Len(out[r]) + Len(more))
      /\ DOMAIN out[r] = 1..Len(out[r])
      /\ \A i \in 1..Len(out[r]) : out'[r][i] = out[r][i]
      /\ \A i \in 1..Len(more) : out'[r][Len(out[r]) + i] = more[i]
  BY <1>1, <1>2
<1>4. \A i \in DOMAIN out'[r] : i \in 1..Len(out[r]) \/ i - Len(out[r]) \in 1..Len(more)
  BY <1>1, <1>3
<1>5. Closed(r)' => Closed(r) \/ \E i \in 1..Len(more) : more[i].finish # "none"
  <2> SUFFICES ASSUME NEW i \in DOMAIN out'[r], out'[r][i].finish # "none",
                      i \notin 1..Len(out[r])
               PROVE  \E j \in 1..Len(more) : more[j].finish # "none"
    BY <1>3 DEF Closed
  <2>1. i - Len(out[r]) \in 1..Len(more) /\ Len(out[r]) + (i - Len(out[r])) = i
    BY <1>1, <1>3, <1>4
  <2>2. more[i - Len(out[r])] = out'[r][i]
    BY <1>3, <2>1
  <2> QED
    BY <2>1, <2>2
<1>6. Closed(r) => Closed(r)'
  <2> SUFFICES ASSUME NEW i \in DOMAIN out[r], out[r][i].finish # "none"
               PROVE  Closed(r)'
    BY DEF Closed
  <2>1. i \in DOMAIN out'[r] /\ out'[r][i] = out[r][i]
    BY <1>1, <1>3
  <2> QED
    BY <2>1 DEF Closed
<1>7. (\E i \in 1..Len(more) : more[i].finish # "none") => Closed(r)'
  <2> SUFFICES ASSUME NEW i \in 1..Len(more), more[i].finish # "none"
               PROVE  Closed(r)'
    OBVIOUS
  <2>1. Len(out[r]) + i \in DOMAIN out'[r] /\ out'[r][Len(out[r]) + i] = more[i]
    BY <1>1, <1>3
  <2> QED
    BY <2>1 DEF Closed
<1>8. \A s \in Reqs \ {r} : Closed(s)' <=> Closed(s)
  BY <1>2 DEF Closed
<1> QED
  BY <1>2, <1>5, <1>6, <1>7, <1>8

(***************************************************************************)
(* A final chunk closes the request it is put to, and no other.            *)
(***************************************************************************)
LEMMA FinalCloses ==
    ASSUME TypeInv, NEW r \in Reqs, NEW more \in Seq(Chunks), Put(r, more),
           NEW i \in 1..Len(more), more[i].finish # "none"
    PROVE  Closed(r)' /\ \A s \in Reqs \ {r} : out'[s] = out[s] /\ (Closed(s)' <=> Closed(s))
BY ClosedAfterPut

(***************************************************************************)
(* The head of the queue is waiting and not running; when it leaves, the   *)
(* others stay.                                                            *)
(***************************************************************************)
LEMMA HeadLeaves ==
    ASSUME TypeInv, QueueInv, waiting # <<>>
    PROVE  /\ Head(waiting) \in Reqs /\ Queued(Head(waiting)) /\ Head(waiting) \notin active
           /\ waiting' = Tail(waiting) =>
                \A s : Queued(s)' <=> Queued(s) /\ s # Head(waiting)
<1>1. /\ waiting \in Seq(Reqs)
      /\ Head(waiting) \in Reqs /\ Head(waiting) = waiting[1]
      /\ Len(waiting) \in Nat \ {0} /\ Len(Tail(waiting)) = Len(waiting) - 1
      /\ \A i \in 1..Len(Tail(waiting)) : Tail(waiting)[i] = waiting[i + 1]
  BY QueueParts DEF TypeInv
<1>2. 1 \in 1..Len(waiting)
  BY <1>1
<1>3. Queued(Head(waiting)) /\ Head(waiting) \notin active
  BY <1>1, <1>2 DEF Queued, QueueInv
<1>4. ASSUME waiting' = Tail(waiting), NEW s, Queued(s)'
      PROVE  Queued(s) /\ s # Head(waiting)
  <2>1. PICK i \in 1..Len(Tail(waiting)) : Tail(waiting)[i] = s
    BY <1>4 DEF Queued
  <2>2. i + 1 \in 1..Len(waiting) /\ i + 1 # 1 /\ waiting[i + 1] = s
    BY <1>1, <2>1
  <2> QED
    BY <1>1, <1>2, <2>2 DEF Queued, QueueInv
<1>5. ASSUME waiting' = Tail(waiting), NEW s, Queued(s), s # Head(waiting)
      PROVE  Queued(s)'
  <2>1. PICK i \in 1..Len(waiting) : waiting[i] = s
    BY <1>5 DEF Queued
  <2>2. i - 1 \in 1..Len(Tail(waiting)) /\ (i - 1) + 1 = i
    BY <1>1, <1>5, <2>1
  <2>3. Tail(waiting)[i - 1] = s
    BY <1>1, <2>1, <2>2
  <2> QED
    BY <1>5, <2>2, <2>3 DEF Queued
<1> QED
  BY <1>1, <1>3, <1>4, <1>5

(***************************************************************************)
(* Every step keeps StreamInv.                                             *)
(***************************************************************************)
LEMMA StreamStep ==
    ASSUME TypeInv, PoolInv, QueueInv, StreamInv, [Next]_vars
    PROVE  StreamInv'
<1> USE DEF StreamInv, Queued
<1>1. ASSUME out' = out
      PROVE  \A r : Closed(r)' <=> Closed(r)
  BY <1>1 DEF Closed
<1>2. ASSUME NEW index \in Nat, NEW reason \in {"length", "oom"}
      PROVE  Final(index, reason) \in Chunks /\ Final(index, reason).finish # "none"
  BY DEF Final, Chunks
<1>3. waiting # <<>> =>
        /\ Head(waiting) \in Reqs /\ Queued(Head(waiting)) /\ Head(waiting) \notin active
        /\ waiting' = Tail(waiting) =>
            \A s : Queued(s)' <=> Queued(s) /\ s # Head(waiting)
  BY HeadLeaves
<1>4. CASE UNCHANGED vars
  BY <1>1, <1>4 DEF vars
<1>5. ASSUME NEW r \in Reqs, Submit(r)
      PROVE  StreamInv'
  <2>1. \A s : Queued(s)' => Queued(s) \/ s = r
    BY <1>5 DEF Submit, TypeInv
  <2>2. ~Closed(r)
    BY <1>5 DEF Submit, Submitted
  <2> QED
    BY <1>1, <1>5, <2>1, <2>2 DEF Submit
<1>6. CASE AdmitTooBig
  <2>0. PICK h \in Reqs : h = Head(waiting)
    BY <1>3, <1>6 DEF AdmitTooBig, CanAdmit
  <2>1. /\ h \notin active /\ \A s : Queued(s)' => Queued(s) /\ s # h
        /\ taken = {} /\ pc = "admit"
    BY <1>3, <1>6, <2>0 DEF AdmitTooBig, Admitting, CanAdmit
  <2>2. /\ <<Final(0, "oom")>> \in Seq(Chunks)
        /\ 1 \in 1..Len(<<Final(0, "oom")>>) /\ <<Final(0, "oom")>>[1].finish # "none"
    BY <1>2
  <2>3. Closed(h)' /\ \A s \in Reqs \ {h} : out'[s] = out[s] /\ (Closed(s)' <=> Closed(s))
    BY <1>6, <2>0, <2>2, FinalCloses DEF AdmitTooBig
  <2>4. UNCHANGED <<pc, taken, active, todo, gen>>
    BY <1>6 DEF AdmitTooBig
  <2> QED
    BY <2>1, <2>3, <2>4 DEF TypeInv
<1>7. CASE AdmitTake
  <2>1. /\ \A s : Queued(s)' => Queued(s) /\ s # Head(waiting)
        /\ Queued(Head(waiting)) /\ Head(waiting) \in Reqs
        /\ taken' = {Head(waiting)} /\ UNCHANGED <<pc, active, todo, gen, out>>
    BY <1>3, <1>7 DEF AdmitTake, CanAdmit
  <2> QED
    BY <1>1, <2>1
<1>8. ASSUME NEW r \in taken, AdmitEvict(r)
      PROVE  StreamInv'
  BY <1>1, <1>8 DEF AdmitEvict
<1>9. ASSUME NEW r \in taken, AdmitReject(r)
      PROVE  StreamInv'
  <2>1. r \in Reqs /\ r \notin active /\ ~Queued(r) /\ pc = "admit"
    BY DEF TypeInv, QueueInv, PoolInv
  <2>2. /\ <<Final(0, "oom")>> \in Seq(Chunks)
        /\ 1 \in 1..Len(<<Final(0, "oom")>>) /\ <<Final(0, "oom")>>[1].finish # "none"
    BY <1>2
  <2>3. Closed(r)' /\ \A s \in Reqs \ {r} : out'[s] = out[s] /\ (Closed(s)' <=> Closed(s))
    BY <1>9, <2>1, <2>2, FinalCloses DEF AdmitReject
  <2>4. taken' = {} /\ UNCHANGED <<pc, waiting, active, todo, gen>>
    BY <1>9 DEF AdmitReject
  <2> QED
    BY <2>1, <2>3, <2>4 DEF TypeInv
<1>10. ASSUME NEW r \in taken, AdmitSeat(r)
       PROVE  StreamInv'
  <2>1. /\ r \in Reqs /\ pc = "admit" /\ taken' = {} /\ active' = active \cup {r}
        /\ UNCHANGED <<pc, waiting, todo, gen, out>>
    BY <1>10 DEF TypeInv, PoolInv, AdmitSeat
  <2> QED
    BY <1>1, <2>1
<1>11. CASE AdmitDone \/ WakeIdle \/ Stop \/ PassDone
  BY <1>1, <1>11 DEF AdmitDone, Admitting, WakeIdle, Stop, PassDone
<1>12. CASE WakeStep
  BY <1>1, <1>12 DEF WakeStep
<1>13. ASSUME NEW r \in todo, Emit(r)
       PROVE  StreamInv'
  <2>1. /\ r \in Reqs /\ r \in active /\ ~Closed(r) /\ pc = "emit"
        /\ ~Queued(r) /\ r \notin taken
        /\ gen[r] \in Nat /\ out[r] \in Seq(Chunks) /\ Len(out[r]) = gen[r]
    BY <1>13 DEF TypeInv, QueueInv, Emit
  <2>2. /\ todo' = todo \ {r} /\ gen' = [gen EXCEPT ![r] = gen[r] + 1]
        /\ UNCHANGED <<pc, waiting, taken, active>>
    BY <1>13 DEF Emit
  <2>3. gen'[r] = gen[r] + 1 /\ \A s \in Reqs \ {r} : gen'[s] = gen[s]
    BY <2>1, <2>2 DEF TypeInv
  <2>4. gen[r] + 1 >= Goal(r) <=> ~(gen[r] + 1 < LimitBar[r])
    BY <2>1, LimitBarIsLimit
  <2>5. Token(r) \in Chunks /\ Token(r).finish = "none"
    BY <2>1 DEF Token, Chunks
  <2>6. /\ \A s \in Reqs \ {r} : out'[s] = out[s] /\ (Closed(s)' <=> Closed(s))
        /\ ~Closed(r)' => Len(out'[r]) = gen[r] + 1 /\ gen[r] + 1 < LimitBar[r]
    <3>1. CASE gen[r] + 1 >= Goal(r)
      <4> DEFINE more == <<Token(r), Final(gen[r] + 1, "length")>>
      <4>1. Put(r, more)
        BY <1>13, <3>1 DEF Emit
      <4>2. gen[r] + 1 \in Nat
        BY <2>1
      <4>3. more \in Seq(Chunks) /\ 2 \in 1..Len(more) /\ more[2].finish # "none"
        BY <1>2, <2>5, <4>2
      <4> QED
        BY <2>1, <4>1, <4>3, FinalCloses
    <3>2. CASE ~(gen[r] + 1 >= Goal(r))
      <4>1. Put(r, <<Token(r)>>)
        BY <1>13, <3>2 DEF Emit
      <4>2. <<Token(r)>> \in Seq(Chunks)
        BY <2>5
      <4>3. /\ out'[r] = out[r] \o <<Token(r)>>
            /\ \A s \in Reqs \ {r} : out'[s] = out[s] /\ (Closed(s)' <=> Closed(s))
        BY <2>1, <4>1, <4>2, ClosedAfterPut
      <4>4. Len(out'[r]) = gen[r] + 1
        BY <2>1, <4>2, <4>3
      <4> QED
        BY <2>4, <3>2, <4>3, <4>4
    <3> QED
      BY <3>1, <3>2
  <2> QED
    BY <2>1, <2>2, <2>3, <2>6 DEF TypeInv
<1>14. ASSUME NEW r \in active, Retire(r)
       PROVE  StreamInv'
  <2>1. /\ Closed(r) /\ todo = {} /\ pc = "emit" /\ active' = active \ {r}
        /\ UNCHANGED <<pc, waiting, taken, todo, gen, out>>
    BY <1>14 DEF Retire, IsFirst
  <2> QED
    BY <1>1, <2>1
<1> QED
  BY <1>4, <1>5, <1>6, <1>7, <1>8, <1>9, <1>10, <1>11, <1>12, <1>13, <1>14 DEF Next, Loop

(***************************************************************************)
(* What a step does to the abstract phases: nothing, or it moves one       *)
(* request on.                                                             *)
(***************************************************************************)
LEMMA PhasesKept ==
    ASSUME \A r \in Reqs : (Submitted(r)' <=> Submitted(r)) /\ (Closed(r)' <=> Closed(r))
    PROVE  phaseBar' = phaseBar
BY DEF phaseBar

(***************************************************************************)
(* A request that is submitted after a step in which no other moves is     *)
(* open, or closed if its queue has a final chunk.                         *)
(***************************************************************************)
LEMMA OnePhaseMoves ==
    ASSUME NEW r \in Reqs, Submitted(r)',
           \A s \in Reqs \ {r} : (Submitted(s)' <=> Submitted(s)) /\ (Closed(s)' <=> Closed(s))
    PROVE  phaseBar' = [phaseBar EXCEPT ![r] = IF Closed(r)' THEN "closed" ELSE "open"]
BY DEF phaseBar

(***************************************************************************)
(* Every step of the scheduler is one of the contract's, or none: a        *)
(* submission opens a stream, a rejection refuses, an emission delivers,   *)
(* the rest shows nothing to the caller.                                   *)
(***************************************************************************)
LEMMA StepImplements ==
    ASSUME TypeInv, PoolInv, QueueInv, StreamInv, [Next]_vars
    PROVE  [Stream!Next]_(Stream!vars)
<1> USE DEF Queued
<1>1. \A r : Submitted(r) <=> r \in taken \cup active \/ Queued(r) \/ Closed(r)
  BY DEF Submitted, TypeInv
<1>2. \A r : Submitted(r)' <=> r \in taken' \cup active' \/ Queued(r)' \/ Closed(r)'
  <2>1. waiting' \in Seq(Reqs)
    BY TypeStep DEF TypeInv
  <2> QED
    BY <2>1 DEF Submitted
<1>3. ASSUME out' = out
      PROVE  \A r : Closed(r)' <=> Closed(r)
  BY <1>3 DEF Closed
<1>4. ASSUME out' = out, pc' # "stopped" <=> pc # "stopped",
             \A r \in Reqs : Submitted(r)' <=> Submitted(r)
      PROVE  UNCHANGED Stream!vars
  <2>1. phaseBar' = phaseBar
    BY <1>3, <1>4, PhasesKept
  <2> QED
    BY <1>4, <2>1 DEF Stream!vars
<1>5. ASSUME NEW r \in Reqs, Submit(r)
      PROVE  Stream!Open(r)
  <2>1. /\ Queued(r)' /\ \A s \in Reqs \ {r} : Queued(s)' <=> Queued(s)
        /\ ~Submitted(r) /\ UNCHANGED <<pc, taken, active, out>>
    <3>1. waiting \in Seq(Reqs) /\ waiting' = Append(waiting, r)
      BY <1>5 DEF Submit, TypeInv
    <3>2. /\ Len(waiting') = Len(waiting) + 1 /\ Len(waiting) \in Nat
          /\ waiting'[Len(waiting) + 1] = r
          /\ \A i \in 1..Len(waiting) : waiting'[i] = waiting[i]
      BY <3>1
    <3>3. Queued(r)'
      BY <3>2
    <3>4. \A s \in Reqs \ {r} : Queued(s)' <=> Queued(s)
      BY <3>2
    <3> QED
      BY <1>5, <3>3, <3>4 DEF Submit
  <2>2. phaseBar' = [phaseBar EXCEPT ![r] = "open"]
    BY <1>1, <1>2, <1>3, <2>1, OnePhaseMoves
  <2>3. phaseBar[r] = "new"
    BY <2>1 DEF phaseBar
  <2> QED
    BY <2>1, <2>2, <2>3 DEF Stream!Open
<1>6. waiting # <<>> =>
        /\ Head(waiting) \in Reqs /\ Queued(Head(waiting)) /\ Head(waiting) \notin active
        /\ waiting' = Tail(waiting) =>
            \A s : Queued(s)' <=> Queued(s) /\ s # Head(waiting)
  BY HeadLeaves
<1>7. ASSUME NEW r \in Reqs, ~Closed(r), Queued(r) \/ r \in taken, r \notin active,
             pc # "stopped", pc' = pc, active' = active,
             Put(r, <<Final(0, "oom")>>),
             \A s \in Reqs \ {r} : (Submitted(s)' <=> Submitted(s))
      PROVE  Stream!Refuse(r)
  <2>1. /\ Final(0, "oom") \in Chunks
        /\ <<Final(0, "oom")>> \in Seq(Chunks) /\ 1 \in 1..Len(<<Final(0, "oom")>>)
        /\ <<Final(0, "oom")>>[1].finish # "none"
    BY DEF Final, Chunks
  <2>2. Closed(r)' /\ \A s \in Reqs \ {r} : Closed(s)' <=> Closed(s)
    BY <1>7, <2>1, FinalCloses
  <2>3. phaseBar' = [phaseBar EXCEPT ![r] = "closed"]
    BY <1>2, <1>7, <2>2, OnePhaseMoves
  <2>4. phaseBar[r] = "open"
    BY <1>1, <1>7 DEF phaseBar
  <2>5. out[r] = <<>>
    BY <1>7 DEF StreamInv, TypeInv
  <2>6. out' = [out EXCEPT ![r] = <<Final(0, "oom")>>]
    BY <1>7, <2>1, <2>5 DEF Put, TypeInv
  <2> QED
    BY <1>7, <2>3, <2>4, <2>5, <2>6 DEF Stream!Refuse, Stream!FinalChunk, Final
<1>8. CASE AdmitTooBig
  <2>1. PICK h \in Reqs : h = Head(waiting)
    BY <1>6, <1>8 DEF AdmitTooBig, CanAdmit
  <2>2. /\ Queued(h) /\ h \notin active /\ \A s : Queued(s)' <=> Queued(s) /\ s # h
        /\ Put(h, <<Final(0, "oom")>>)
        /\ pc = "admit" /\ UNCHANGED <<pc, taken, active>>
    BY <1>6, <1>8, <2>1 DEF AdmitTooBig, Admitting, CanAdmit
  <2>3. ~Closed(h)
    BY <2>2 DEF StreamInv
  <2>4. <<Final(0, "oom")>> \in Seq(Chunks)
    BY DEF Final, Chunks
  <2>5. \A s \in Reqs \ {h} : Closed(s)' <=> Closed(s)
    BY <2>2, <2>4, ClosedAfterPut
  <2>6. \A s \in Reqs \ {h} : Submitted(s)' <=> Submitted(s)
    BY <1>1, <1>2, <2>2, <2>5
  <2>7. Stream!Refuse(h)
    BY <1>7, <2>2, <2>3, <2>6
  <2> QED
    BY <2>7 DEF Stream!Next
<1>9. CASE AdmitTake
  <2>1. /\ \A s : Queued(s)' <=> Queued(s) /\ s # Head(waiting)
        /\ Queued(Head(waiting)) /\ taken = {} /\ taken' = {Head(waiting)}
        /\ UNCHANGED <<pc, active, out>>
    BY <1>6, <1>9 DEF AdmitTake, Admitting, CanAdmit
  <2> QED
    BY <1>1, <1>2, <1>3, <1>4, <2>1
<1>10. ASSUME NEW r \in taken, AdmitEvict(r)
       PROVE  UNCHANGED Stream!vars
  <2>1. UNCHANGED <<pc, waiting, taken, active, out>>
    BY <1>10 DEF AdmitEvict
  <2> QED
    BY <1>1, <1>2, <1>3, <1>4, <2>1
<1>11. ASSUME NEW r \in taken, AdmitReject(r)
       PROVE  Stream!Refuse(r)
  <2>1. /\ r \in Reqs /\ r \notin active /\ ~Closed(r) /\ pc = "admit"
        /\ Put(r, <<Final(0, "oom")>>)
        /\ taken' = {} /\ UNCHANGED <<pc, waiting, active>>
    BY <1>11 DEF AdmitReject, TypeInv, QueueInv, PoolInv, StreamInv
  <2>2. <<Final(0, "oom")>> \in Seq(Chunks)
    BY DEF Final, Chunks
  <2>3. \A s \in Reqs \ {r} : Closed(s)' <=> Closed(s)
    BY <2>1, <2>2, ClosedAfterPut
  <2>4. taken = {r}
    BY DEF StreamInv
  <2>5. \A s \in Reqs \ {r} : Submitted(s)' <=> Submitted(s)
    BY <1>1, <1>2, <2>1, <2>3, <2>4
  <2> QED
    BY <1>7, <2>1, <2>5
<1>12. ASSUME NEW r \in taken, AdmitSeat(r)
       PROVE  UNCHANGED Stream!vars
  <2>1. /\ taken = {r} /\ taken' = {} /\ active' = active \cup {r}
        /\ UNCHANGED <<pc, waiting, out>>
    BY <1>12 DEF AdmitSeat, StreamInv
  <2> QED
    BY <1>1, <1>2, <1>3, <1>4, <2>1
<1>13. CASE AdmitDone \/ WakeIdle \/ WakeStep \/ PassDone
  <2>1. /\ UNCHANGED <<waiting, taken, active, out>>
        /\ pc # "stopped" /\ pc' # "stopped"
    BY <1>13 DEF AdmitDone, Admitting, WakeIdle, WakeStep, PassDone
  <2> QED
    BY <1>1, <1>2, <1>3, <1>4, <2>1
<1>14. ASSUME NEW r \in todo, Emit(r)
       PROVE  Stream!Deliver(r)
  <2>1. /\ r \in Reqs /\ r \in active /\ ~Closed(r) /\ pc = "emit"
        /\ gen[r] \in Nat /\ out[r] \in Seq(Chunks) /\ Len(out[r]) = gen[r]
        /\ UNCHANGED <<pc, waiting, taken, active>>
    BY <1>14 DEF TypeInv, StreamInv, Emit
  <2>2. phaseBar[r] = "open"
    BY <1>1, <2>1 DEF phaseBar
  <2>3. gen[r] + 1 \in Nat /\ (gen[r] + 1 >= Goal(r) <=> ~(gen[r] + 1 < LimitBar[r]))
    BY <2>1, LimitBarIsLimit
  <2>4. /\ Token(r) \in Chunks /\ Token(r).finish = "none"
        /\ Token(r) = Stream!TokenChunk(gen[r])
    BY <2>1 DEF Token, Chunks, Stream!TokenChunk
  <2>5. CASE gen[r] + 1 < LimitBar[r]
    <3>1. Put(r, <<Token(r)>>)
      BY <1>14, <2>3, <2>5 DEF Emit
    <3>2. <<Token(r)>> \in Seq(Chunks) /\ \A i \in 1..Len(<<Token(r)>>) : <<Token(r)>>[i].finish = "none"
      BY <2>4
    <3>3. \A s \in Reqs : Closed(s)' <=> Closed(s)
      BY <2>1, <3>1, <3>2, ClosedAfterPut
    <3>4. phaseBar' = phaseBar
      BY <1>1, <1>2, <2>1, <3>3, PhasesKept
    <3>5. out[r] \o <<Token(r)>> = Append(out[r], Token(r))
      BY <2>1, <2>4
    <3>6. out' = [out EXCEPT ![r] = Append(out[r], Stream!TokenChunk(gen[r]))]
      BY <2>4, <3>1, <3>5 DEF Put
    <3> QED
      BY <2>1, <2>2, <2>5, <3>4, <3>6 DEF Stream!Deliver
  <2>6. CASE ~(gen[r] + 1 < LimitBar[r])
    <3> DEFINE last == Final(gen[r] + 1, "length")
    <3>1. Put(r, <<Token(r), last>>)
      BY <1>14, <2>3, <2>6 DEF Emit
    <3>2. last \in Chunks /\ last.finish # "none" /\ last = Stream!FinalChunk(gen[r] + 1, "length")
      BY <2>3 DEF Final, Chunks, Stream!FinalChunk
    <3>3. /\ <<Token(r), last>> \in Seq(Chunks) /\ 2 \in 1..Len(<<Token(r), last>>)
          /\ <<Token(r), last>>[2].finish # "none"
      BY <2>4, <3>2
    <3>4. Closed(r)' /\ \A s \in Reqs \ {r} : Closed(s)' <=> Closed(s)
      BY <2>1, <3>1, <3>3, FinalCloses
    <3>5. phaseBar' = [phaseBar EXCEPT ![r] = "closed"]
      BY <1>1, <1>2, <2>1, <3>4, OnePhaseMoves
    <3>6. out[r] \o <<Token(r), last>> = Append(Append(out[r], Token(r)), last)
      BY <2>1, <2>4, <3>2
    <3>7. out' = [out EXCEPT ![r] = Append(Append(out[r], Stream!TokenChunk(gen[r])),
                                           Stream!FinalChunk(gen[r] + 1, "length"))]
      BY <2>4, <3>1, <3>2, <3>6 DEF Put
    <3> QED
      BY <2>1, <2>2, <2>6, <3>5, <3>7 DEF Stream!Deliver
  <2> QED
    BY <2>5, <2>6
<1>15. ASSUME NEW r \in active, Retire(r)
       PROVE  UNCHANGED Stream!vars
  <2>1. /\ Closed(r) /\ active' = active \ {r}
        /\ UNCHANGED <<pc, waiting, taken, out>>
    BY <1>15 DEF Retire, IsFirst
  <2> QED
    BY <1>1, <1>2, <1>3, <1>4, <2>1
<1>16. CASE Stop
  <2>1. UNCHANGED <<waiting, taken, active, out>> /\ pc' = "stopped"
    BY <1>16 DEF Stop
  <2>2. phaseBar' = phaseBar
    BY <1>1, <1>2, <1>3, <2>1, PhasesKept
  <2>3. Stream!Shutdown
    BY <2>1, <2>2 DEF Stream!Shutdown
  <2> QED
    BY <2>3 DEF Stream!Next
<1>17. CASE UNCHANGED vars
  <2>1. UNCHANGED <<pc, waiting, taken, active, out>>
    BY <1>17 DEF vars
  <2> QED
    BY <1>1, <1>2, <1>3, <1>4, <2>1
<1> QED
  <2>1. taken \subseteq Reqs /\ todo \subseteq Reqs
    BY DEF TypeInv
  <2> QED
    BY <2>1, <1>5, <1>8, <1>9, <1>10, <1>11, <1>12, <1>13, <1>14, <1>15, <1>16, <1>17
       DEF Next, Loop, Stream!Next

(***************************************************************************)
(* It holds initially, and the contract's initial state is the scheduler's. *)
(***************************************************************************)
LEMMA InitStream == Init => StreamInv
<1> SUFFICES ASSUME Init PROVE StreamInv
  OBVIOUS
<1>1. \A r \in Reqs : out[r] = <<>> /\ gen[r] = 0 /\ ~Closed(r) /\ ~Queued(r)
  BY DEF Init, Closed, Queued
<1>2. \A r \in Reqs : 0 < LimitBar[r]
  BY LimitBarIsLimit
<1> QED
  BY <1>1, <1>2 DEF Init, StreamInv

LEMMA StreamStarts == Init => Stream!Init
<1> SUFFICES ASSUME Init PROVE Stream!Init
  OBVIOUS
<1>1. \A r \in Reqs : ~Submitted(r)
  BY DEF Init, Submitted, Closed
<1>2. phaseBar = [r \in Reqs |-> "new"]
  BY <1>1 DEF phaseBar
<1> QED
  BY <1>2 DEF Init, Stream!Init

(***************************************************************************)
(* All of the above holds in every state.                                  *)
(***************************************************************************)
LEMMA StreamInvariance == Spec => [](TypeInv /\ PoolInv /\ QueueInv /\ StreamInv)
<1>1. TypeInv /\ PoolInv /\ QueueInv /\ StreamInv /\ [Next]_vars => StreamInv'
  BY StreamStep
<1> QED
  BY Invariance, InitStream, <1>1, PTL DEF Spec

(***************************************************************************)
(* Whatever it batches, evicts and rejects, the scheduler does what        *)
(* TokenStream says, apart from liveness: every step is one of the         *)
(* contract's or leaves streams and phases alone (batching.py:94-166).     *)
(***************************************************************************)
THEOREM SchedulerKeepsContract == Spec => Stream!Safety
<1>1. TypeInv /\ PoolInv /\ QueueInv /\ StreamInv /\ [Next]_vars => [Stream!Next]_(Stream!vars)
  BY StepImplements
<1> QED
  BY StreamInvariance, StreamStarts, <1>1, PTL DEF Spec, Stream!Safety

(***************************************************************************)
(* The contract's own theorems, for the limits the scheduler keeps to.     *)
(***************************************************************************)
Contract == INSTANCE TokenStreamProofs
            WITH Limit <- LimitBar, phase <- phaseBar, stream <- out,
                 up <- pc # "stopped"

(***************************************************************************)
(* So what TokenStreamProofs proves of the contract is true of the queues  *)
(* of this scheduler: each caller gets its tokens in order, 0, 1, 2 and so *)
(* on, at most as many as it asked for, and one final chunk after them.    *)
(***************************************************************************)
THEOREM SchedulerStreamsWellFormed == Spec => []Stream!WellFormed
<1>1. LimitBar \in [Reqs -> Nat \ {0}]
  BY LimitBarIsLimit DEF LimitBar
<1>2. Contract!Safety => []Contract!WellFormed
  BY <1>1, Contract!StreamsAreWellFormed
<1>3. Stream!Init <=> Contract!Init
  BY DEF Stream!Init, Contract!Init
<1>4. [Stream!Next]_(Stream!vars) <=> [Contract!Next]_(Contract!vars)
  BY DEF Stream!Next, Contract!Next, Stream!vars, Contract!vars,
         Stream!Open, Contract!Open,
         Stream!Deliver, Contract!Deliver, Stream!Refuse, Contract!Refuse, Stream!Shutdown, Contract!Shutdown,
         Stream!TokenChunk, Contract!TokenChunk, Stream!FinalChunk, Contract!FinalChunk
<1>5. Stream!WellFormed <=> Contract!WellFormed
  BY DEF Stream!WellFormed, Contract!WellFormed, Stream!Tokens, Contract!Tokens,
         Stream!TokenChunk, Contract!TokenChunk, Stream!FinalChunk, Contract!FinalChunk
<1> QED
  BY SchedulerKeepsContract, <1>2, <1>3, <1>4, <1>5, PTL DEF Stream!Safety, Contract!Safety

-------------------------------------------------------------------------------
(***************************************************************************)
(* What FairBatch rests on.  Tickets are handed out in the order of        *)
(* admission; during a pass those still to be served are the last ones of  *)
(* the batch, and counting the token each of them is about to get, no      *)
(* sequence is ahead of an older one.                                      *)
(***************************************************************************)
AfterPass(r) == IF r \in todo THEN gen[r] + 1 ELSE gen[r]

BatchInv ==
    /\ IsFiniteSet(active) /\ Cardinality(active) <= MaxBatch
    /\ taken # {} => Cardinality(active) < MaxBatch
    /\ \A r \in active : ticket[r] < pool.allocs
    /\ \A r, s \in active : ticket[r] = ticket[s] => r = s
    /\ \A r \in todo : \A s \in active : ticket[r] <= ticket[s] => s \in todo
    /\ \A r, s \in active : ticket[r] < ticket[s] => AfterPass(r) >= AfterPass(s)

(***************************************************************************)
(* Only a sequence that is seated takes a ticket.                          *)
(***************************************************************************)
LEMMA AllocsStep ==
    ASSUME TypeInv, PoolInv, [Next]_vars, \A r \in taken : ~AdmitSeat(r)
    PROVE  pool'.allocs = pool.allocs
<1>0. IsPool(pool)
  BY DEF PoolInv, SoundPool
<1>1. \A b \in KvIds : Release(pool, b).allocs = pool.allocs
  BY <1>0 DEF Release, Drop, IsPool
<1>2. CountOom(pool).allocs = pool.allocs /\ \A v \in Held(pool) : Evict(pool, v).allocs = pool.allocs
  BY <1>0 DEF CountOom, Evict, Drop, IsPool
<1>3. \A b \in Held(pool) : \A now \in Int : Touch(pool, b, now).allocs = pool.allocs
  BY <1>0 DEF Touch, IsPool
<1>4. CASE AdmitTake
  <2>1. KvOf[Head(waiting)] \in KvIds
    BY <1>4, QueueParts, SchedulerAssumption DEF AdmitTake, CanAdmit, TypeInv
  <2> QED
    BY <1>1, <1>4, <2>1 DEF AdmitTake
<1>5. ASSUME NEW r \in taken, AdmitEvict(r)
      PROVE  pool'.allocs = pool.allocs
  BY <1>2, <1>5 DEF AdmitEvict, Victims
<1>6. ASSUME NEW r \in todo, Emit(r)
      PROVE  pool'.allocs = pool.allocs
  <2>1. CASE KvOf[r] \in Held(pool)
    <3>1. PICK tick \in Ticks : pool' = Touch(pool, KvOf[r], clock + tick)
      BY <1>6, <2>1 DEF Emit, TouchBlock
    <3>2. tick \in Int
      BY SchedulerAssumption
    <3>3. clock + tick \in Int
      BY <3>2 DEF TypeInv
    <3> QED
      BY <1>3, <2>1, <3>1, <3>3
  <2>2. CASE KvOf[r] \notin Held(pool)
    BY <1>6, <2>2 DEF Emit, TouchBlock
  <2> QED
    BY <2>1, <2>2
<1>7. ASSUME NEW r \in active, Retire(r)
      PROVE  pool'.allocs = pool.allocs
  BY <1>1, <1>7, SchedulerAssumption DEF Retire, TypeInv
<1>8. CASE AdmitTooBig
  BY <1>2, <1>8 DEF AdmitTooBig
<1>9. ASSUME NEW r \in taken, AdmitReject(r)
      PROVE  pool'.allocs = pool.allocs
  BY <1>2, <1>9 DEF AdmitReject
<1> QED
  BY <1>4, <1>5, <1>6, <1>7, <1>8, <1>9
     DEF Next, Loop, Submit, AdmitDone, WakeIdle, WakeStep, PassDone, Stop, vars

(***************************************************************************)
(* Every step keeps BatchInv.                                              *)
(***************************************************************************)
LEMMA BatchStep ==
    ASSUME TypeInv, PoolInv, QueueInv, StreamInv, BatchInv, [Next]_vars
    PROVE  BatchInv'
<1> USE SchedulerAssumption DEF BatchInv
<1>0. \A r \in active : gen[r] \in Nat /\ ticket[r] \in Nat
  BY DEF TypeInv
<1>1. ASSUME UNCHANGED <<taken, active, ticket, todo, gen>>, pool'.allocs = pool.allocs
      PROVE  BatchInv'
  BY <1>1 DEF AfterPass
<1>2. CASE UNCHANGED vars
  BY <1>1, <1>2 DEF vars
<1>3. ASSUME NEW r \in Reqs, Submit(r)
      PROVE  BatchInv'
  BY <1>1, <1>3 DEF Submit
<1>4. CASE AdmitTooBig
  <2>1. pool'.allocs = pool.allocs
    BY <1>4, AllocsStep DEF AdmitTooBig, Admitting
  <2> QED
    BY <1>1, <1>4, <2>1 DEF AdmitTooBig
<1>5. CASE AdmitTake
  <2>1. pool'.allocs = pool.allocs
    BY <1>5, AllocsStep DEF AdmitTake, Admitting
  <2>2. Cardinality(active) < MaxBatch /\ UNCHANGED <<pc, active, ticket, todo, gen>>
    BY <1>5 DEF AdmitTake, CanAdmit
  <2> QED
    BY <2>1, <2>2 DEF AfterPass
<1>6. ASSUME NEW r \in taken, AdmitEvict(r)
      PROVE  BatchInv'
  <2>1. pool'.allocs = pool.allocs
    <3>1. PICK v \in Victims(pool) : pool' = Evict(pool, v)
      BY <1>6 DEF AdmitEvict
    <3> QED
      BY <3>1 DEF Evict, Drop, PoolInv, SoundPool, IsPool
  <2> QED
    BY <1>1, <1>6, <2>1 DEF AdmitEvict
<1>7. ASSUME NEW r \in taken, AdmitReject(r)
      PROVE  BatchInv'
  <2>1. pool'.allocs = pool.allocs
    BY <1>7 DEF AdmitReject, CountOom, PoolInv, SoundPool, IsPool
  <2>2. taken' = {} /\ UNCHANGED <<pc, active, ticket, todo, gen>>
    BY <1>7 DEF AdmitReject
  <2> QED
    BY <2>1, <2>2 DEF AfterPass
<1>8. ASSUME NEW r \in taken, AdmitSeat(r)
      PROVE  BatchInv'
  <2>1. /\ taken' = {} /\ active' = active \cup {r} /\ ticket' = [ticket EXCEPT ![r] = pool.allocs]
        /\ pc = "admit" /\ UNCHANGED <<pc, todo, gen>> /\ r \in Reqs
    BY <1>8 DEF AdmitSeat, PoolInv, TypeInv
  <2>2. pool'.allocs = pool.allocs + 1 /\ pool.allocs \in Nat
    <3>1. PICK tick \in Ticks : pool' = Insert(pool, KvOf[r], SizeOf[r], clock + tick)
      BY <1>8 DEF AdmitSeat
    <3> QED
      BY <3>1 DEF Insert, PoolInv, SoundPool, IsPool
  <2>3. r \notin active /\ gen[r] = 0 /\ todo = {}
    BY <2>1 DEF QueueInv, StreamInv
  <2>4. IsFiniteSet(active') /\ Cardinality(active') <= MaxBatch
    <3>1. Cardinality(active) \in Nat
      BY FS_CardinalityType
    <3>2. IsFiniteSet(active') /\ Cardinality(active') = Cardinality(active) + 1
      BY <2>1, <2>3, FS_AddElement
    <3> QED
      BY <3>1, <3>2
  <2>5. ticket'[r] = pool.allocs /\ \A s \in active : ticket'[s] = ticket[s]
    BY <2>1, <2>3 DEF TypeInv
  <2>6. \A s \in active' : gen[s] \in Nat /\ AfterPass(s)' = gen[s]
    BY <2>1, <2>3 DEF AfterPass, TypeInv
  <2>7. \A s \in active : AfterPass(s) = gen[s]
    BY <2>3 DEF AfterPass
  <2>8. ASSUME NEW s \in active', NEW t \in active', ticket'[s] < ticket'[t]
        PROVE  gen[s] >= gen[t]
    <3>1. CASE t = r
      BY <2>3, <2>6, <3>1
    <3>2. CASE t # r /\ s = r
      <4>1. t \in active /\ ticket'[t] < pool.allocs
        BY <2>1, <2>5, <3>2
      <4> QED
        BY <1>0, <2>2, <2>5, <2>8, <3>2, <4>1
    <3>3. CASE t # r /\ s # r
      BY <2>1, <2>5, <2>7, <2>8, <3>3
    <3> QED
      BY <3>1, <3>2, <3>3
  <2>9. \A s, t \in active' : ticket'[s] < ticket'[t] => AfterPass(s)' >= AfterPass(t)'
    BY <2>6, <2>8
  <2>10. \A s \in active' : ticket'[s] < pool'.allocs
    BY <1>0, <2>1, <2>2, <2>5
  <2>11. \A s, t \in active' : ticket'[s] = ticket'[t] => s = t
    BY <1>0, <2>1, <2>2, <2>5
  <2> QED
    BY <2>1, <2>3, <2>4, <2>9, <2>10, <2>11
<1>9. CASE AdmitDone \/ WakeIdle \/ Stop \/ PassDone
  BY <1>1, <1>9 DEF AdmitDone, WakeIdle, Stop, PassDone
<1>10. CASE WakeStep
  <2>1. /\ todo = {} /\ todo' = active
        /\ UNCHANGED <<taken, active, ticket, gen, pool>>
    BY <1>10 DEF WakeStep, StreamInv
  <2>2. \A s \in active : AfterPass(s) = gen[s] /\ AfterPass(s)' = gen[s] + 1
    BY <2>1 DEF AfterPass
  <2>3. \A s, t \in active' : ticket'[s] < ticket'[t] => AfterPass(s)' >= AfterPass(t)'
    BY <1>0, <2>1, <2>2
  <2> QED
    BY <2>1, <2>3
<1>11. ASSUME NEW r \in todo, Emit(r)
       PROVE  BatchInv'
  <2>1. /\ r \in active /\ IsFirst(r, todo)
        /\ todo' = todo \ {r} /\ gen' = [gen EXCEPT ![r] = gen[r] + 1]
        /\ UNCHANGED <<pc, taken, active, ticket>>
    BY <1>11 DEF Emit, StreamInv
  <2>2. pool'.allocs = pool.allocs
    <3>1. taken = {}
      BY <1>11 DEF Emit, PoolInv
    <3> QED
      BY <3>1, AllocsStep
  <2>3. gen'[r] = gen[r] + 1 /\ \A s \in active \ {r} : gen'[s] = gen[s]
    BY <2>1 DEF TypeInv
  <2>4. \A s \in active : AfterPass(s)' = AfterPass(s)
    BY <2>1, <2>3 DEF AfterPass
  <2>5. ASSUME NEW s \in todo', NEW t \in active, ticket[s] <= ticket[t]
        PROVE  t \in todo'
    <3>1. s \in todo /\ s \in active /\ s # r /\ t \in todo
      BY <2>1, <2>5 DEF StreamInv
    <3>2. ticket[r] <= ticket[s] /\ ticket[r] # ticket[s]
      BY <2>1, <3>1 DEF IsFirst
    <3>3. t # r
      BY <1>0, <2>1, <2>5, <3>1, <3>2
    <3> QED
      BY <2>1, <3>1, <3>3
  <2> QED
    BY <2>1, <2>2, <2>4, <2>5
<1>12. ASSUME NEW r \in active, Retire(r)
       PROVE  BatchInv'
  <2>1. /\ pc = "emit" /\ todo = {} /\ active' = active \ {r}
        /\ UNCHANGED <<pc, taken, ticket, todo, gen>>
    BY <1>12 DEF Retire
  <2>2. taken = {} /\ pool'.allocs = pool.allocs
    <3>1. taken = {}
      BY <2>1 DEF PoolInv
    <3> QED
      BY <3>1, AllocsStep
  <2>3. IsFiniteSet(active') /\ Cardinality(active') <= MaxBatch
    <3>1. Cardinality(active) \in Nat
      BY FS_CardinalityType
    <3>2. IsFiniteSet(active') /\ Cardinality(active') = Cardinality(active) - 1
      BY <2>1, FS_RemoveElement
    <3> QED
      BY <3>1, <3>2
  <2>4. \A s \in active' : s \in active /\ AfterPass(s)' = AfterPass(s)
    BY <2>1 DEF AfterPass
  <2> QED
    BY <2>1, <2>2, <2>3, <2>4
<1> QED
  BY <1>2, <1>3, <1>4, <1>5, <1>6, <1>7, <1>8, <1>9, <1>10, <1>11, <1>12
     DEF Next, Loop

(***************************************************************************)
(* BatchInv holds in every state.                                          *)
(***************************************************************************)
LEMMA BatchInvariance == Spec => [](TypeInv /\ PoolInv /\ QueueInv /\ StreamInv /\ BatchInv)
<1>1. Init => BatchInv
  BY FS_EmptySet, SchedulerAssumption DEF Init, BatchInv
<1>2. TypeInv /\ PoolInv /\ QueueInv /\ StreamInv /\ BatchInv /\ [Next]_vars => BatchInv'
  BY BatchStep
<1> QED
  BY StreamInvariance, <1>1, <1>2, PTL DEF Spec

(***************************************************************************)
(* The batch never exceeds max_batch_size, and between two passes nobody   *)
(* has fewer tokens than a sequence admitted after it (batching.py:114-166). *)
(***************************************************************************)
THEOREM BatchIsFair == Spec => []FairBatch
<1>1. StreamInv /\ BatchInv => FairBatch
  BY DEF StreamInv, BatchInv, AfterPass, FairBatch
<1> QED
  BY BatchInvariance, <1>1, PTL

-------------------------------------------------------------------------------
(***************************************************************************)
(* What EvictsOldestAdmitted rests on, for a clock that does not run       *)
(* backwards.  A block was entered for the youngest member of the batch    *)
(* with its id and bears its ticket; blocks entered later were created no  *)
(* earlier, and once a pass has reached their owner were used no earlier.  *)
(***************************************************************************)
SteadyClock == \A tick \in Ticks : tick >= 0

Entered(b) == pool.blocks[b].pos

OwnerInv ==
    \A b \in Held(pool) : \E r \in active :
        /\ KvOf[r] = b /\ ticket[r] = Entered(b)
        /\ \A s \in active : KvOf[s] = b => ticket[s] <= ticket[r]

AgeInv ==
    /\ \A b \in Held(pool) : /\ pool.blocks[b].created <= clock
                             /\ pool.blocks[b].last <= clock
    /\ \A a, b \in Held(pool) : Entered(a) < Entered(b) =>
        /\ pool.blocks[a].created <= pool.blocks[b].created
        /\ (\A r \in todo : ticket[r] > Entered(b)) =>
                pool.blocks[a].last <= pool.blocks[b].last

(***************************************************************************)
(* The fields of the blocks are numbers, and every block was entered at    *)
(* another place.                                                          *)
(***************************************************************************)
LEMMA AgesAreNumbers ==
    ASSUME TypeInv, PoolInv, BatchInv, OwnerInv
    PROVE  /\ \A b \in Held(pool) : /\ pool.blocks[b].created \in Int
                                    /\ pool.blocks[b].last \in Int
                                    /\ Entered(b) \in Nat /\ Entered(b) < pool.allocs
           /\ \A a, b \in Held(pool) : Entered(a) = Entered(b) => a = b
           /\ clock \in Int /\ pool.allocs \in Nat
<1>1. \A b \in Held(pool) : pool.blocks[b] \in Block
  BY SoundBlocks DEF PoolInv
<1>2. clock \in Int /\ pool.allocs \in Nat
  BY DEF TypeInv, PoolInv, SoundPool, IsPool
<1>3. \A b \in Held(pool) : Entered(b) < pool.allocs
  BY DEF OwnerInv, BatchInv
<1>4. \A a, b \in Held(pool) : Entered(a) = Entered(b) => a = b
  BY DEF OwnerInv, BatchInv
<1> QED
  BY <1>1, <1>2, <1>3, <1>4 DEF Block, Entered

(***************************************************************************)
(* Fewer blocks, none of them changed, keep their owners and their order.  *)
(***************************************************************************)
LEMMA FewerBlocks ==
    ASSUME OwnerInv, AgeInv,
           Held(pool') \subseteq Held(pool),
           \A b \in Held(pool') : pool'.blocks[b] = pool.blocks[b],
           \A b \in Held(pool') : \A r \in active : KvOf[r] = b => r \in active',
           active' \subseteq active, ticket' = ticket, clock' = clock, todo' = todo
    PROVE  OwnerInv' /\ AgeInv'
<1>1. \A b \in Held(pool') : Entered(b)' = Entered(b)
  BY DEF Entered
<1>2. OwnerInv'
  BY <1>1 DEF OwnerInv
<1>3. AgeInv'
  BY <1>1 DEF AgeInv
<1> QED
  BY <1>2, <1>3

(***************************************************************************)
(* Every step keeps both.                                                  *)
(***************************************************************************)
LEMMA AgeStep ==
    ASSUME SteadyClock, TypeInv, PoolInv, QueueInv, StreamInv, BatchInv, OwnerInv, AgeInv,
           [Next]_vars
    PROVE  OwnerInv' /\ AgeInv'
<1> USE SchedulerAssumption
<1>0. SoundPool(pool)
  BY DEF PoolInv
<1>1. ASSUME UNCHANGED <<active, ticket, clock, todo>>, pool'.blocks = pool.blocks
      PROVE  OwnerInv' /\ AgeInv'
  <2>1. Held(pool') = Held(pool)
    BY <1>1 DEF Held
  <2> QED
    BY <1>1, <2>1, FewerBlocks
<1>2. ASSUME UNCHANGED <<active, ticket, clock, todo>>, pool' = CountOom(pool)
      PROVE  OwnerInv' /\ AgeInv'
  BY <1>0, <1>1, <1>2, CountOomSound
<1>3. ASSUME NEW b, active' \in {active, active \ {r \in active : KvOf[r] = b}},
             UNCHANGED <<ticket, clock, todo>>, pool' = Release(pool, b)
      PROVE  OwnerInv' /\ AgeInv'
  <2>1. /\ Held(pool') = Held(pool) \ {b}
        /\ \A x \in Held(pool) \ {b} : pool'.blocks[x] = pool.blocks[x]
    BY <1>0, <1>3, ReleaseSound
  <2> QED
    BY <1>3, <2>1, FewerBlocks
<1>4. CASE AdmitTooBig
  BY <1>2, <1>4 DEF AdmitTooBig
<1>5. CASE AdmitTake
  BY <1>3, <1>5 DEF AdmitTake
<1>6. ASSUME NEW r \in taken, AdmitEvict(r)
      PROVE  OwnerInv' /\ AgeInv'
  <2>1. PICK v \in Held(pool) : pool' = Evict(pool, v)
    BY <1>6 DEF AdmitEvict, Victims
  <2>2. /\ Held(pool') = Held(pool) \ {v}
        /\ \A x \in Held(pool) \ {v} : pool'.blocks[x] = pool.blocks[x]
    BY <1>0, <2>1, EvictSound
  <2>3. UNCHANGED <<active, ticket, clock, todo>>
    BY <1>6 DEF AdmitEvict
  <2> QED
    BY <2>2, <2>3, FewerBlocks
<1>7. ASSUME NEW r \in taken, AdmitReject(r)
      PROVE  OwnerInv' /\ AgeInv'
  BY <1>2, <1>7 DEF AdmitReject
<1>8. ASSUME NEW r \in active, Retire(r)
      PROVE  OwnerInv' /\ AgeInv'
  <2>1. pool' = Release(pool, KvOf[r]) /\ active' = active \ {r}
        /\ UNCHANGED <<ticket, clock, todo>>
    BY <1>8 DEF Retire
  <2>2. /\ Held(pool') = Held(pool) \ {KvOf[r]}
        /\ \A x \in Held(pool) \ {KvOf[r]} : pool'.blocks[x] = pool.blocks[x]
    BY <1>0, <2>1, ReleaseSound
  <2> QED
    BY <2>1, <2>2, FewerBlocks
<1>9. CASE WakeStep
  <2>1. todo' = active /\ UNCHANGED <<active, ticket, clock, pool>>
    BY <1>9 DEF WakeStep
  <2>2. OwnerInv'
    BY <2>1 DEF OwnerInv, Entered
  <2>3. \A b \in Held(pool) : \E r \in active : ~(ticket[r] > Entered(b))
    <3> SUFFICES ASSUME NEW b \in Held(pool)
                 PROVE  \E r \in active : ~(ticket[r] > Entered(b))
      OBVIOUS
    <3>1. PICK r \in active : ticket[r] = Entered(b)
      BY DEF OwnerInv
    <3> QED
      BY <3>1, AgesAreNumbers
  <2> QED
    BY <2>1, <2>2, <2>3 DEF AgeInv, Entered
<1>10. ASSUME NEW r \in taken, AdmitSeat(r)
       PROVE  OwnerInv' /\ AgeInv'
  <2>1. PICK tick \in Ticks :
            clock' = clock + tick /\ pool' = Insert(pool, KvOf[r], SizeOf[r], clock + tick)
    BY <1>10 DEF AdmitSeat
  <2>2. /\ active' = active \cup {r} /\ ticket' = [ticket EXCEPT ![r] = pool.allocs]
        /\ todo' = todo
    BY <1>10 DEF AdmitSeat
  <2>3. /\ r \in Reqs /\ r \notin active /\ todo = {} /\ KvOf[r] \notin Held(pool)
        /\ KvOf[r] \in KvIds /\ SizeOf[r] \in Int
    BY DEF TypeInv, PoolInv, QueueInv, StreamInv
  <2>4. tick \in Int /\ tick >= 0 /\ clock \in Int /\ clock' \in Int /\ clock <= clock'
    BY <2>1 DEF SteadyClock, TypeInv
  <2>5. /\ Held(pool') = Held(pool) \cup {KvOf[r]}
        /\ pool'.blocks[KvOf[r]].last = clock' /\ pool'.blocks[KvOf[r]].created = clock'
        /\ Entered(KvOf[r])' = pool.allocs
        /\ \A x \in Held(pool) : pool'.blocks[x] = pool.blocks[x] /\ Entered(x)' = Entered(x)
    BY <1>0, <2>1, <2>3, <2>4, InsertSound DEF Entered
  <2>6. ticket'[r] = pool.allocs /\ \A s \in active : ticket'[s] = ticket[s]
    BY <2>2, <2>3 DEF TypeInv
  <2>7. \A s \in active : ticket[s] < pool.allocs /\ ticket[s] \in Nat
    BY DEF BatchInv, TypeInv
  <2>8. OwnerInv'
    <3>1. ASSUME NEW b \in Held(pool)
          PROVE  \E s \in active' : /\ KvOf[s] = b /\ ticket'[s] = Entered(b)'
                                    /\ \A t \in active' : KvOf[t] = b => ticket'[t] <= ticket'[s]
      <4>1. PICK s \in active : /\ KvOf[s] = b /\ ticket[s] = Entered(b)
                                /\ \A t \in active : KvOf[t] = b => ticket[t] <= ticket[s]
        BY DEF OwnerInv
      <4>2. KvOf[r] # b
        BY <2>3
      <4> QED
        BY <2>2, <2>5, <2>6, <4>1, <4>2
    <3>2. \A t \in active' : ticket'[t] <= ticket'[r]
      <4>1. pool.allocs \in Nat
        BY AgesAreNumbers
      <4> QED
        BY <2>2, <2>6, <2>7, <4>1
    <3> QED
      BY <2>2, <2>5, <2>6, <3>1, <3>2 DEF OwnerInv
  <2>9. \A b \in Held(pool') : pool'.blocks[b].created <= clock' /\ pool'.blocks[b].last <= clock'
    BY <2>4, <2>5, AgesAreNumbers DEF AgeInv
  <2>10. ASSUME NEW a \in Held(pool'), NEW b \in Held(pool'), Entered(a)' < Entered(b)'
         PROVE  /\ pool'.blocks[a].created <= pool'.blocks[b].created
                /\ pool'.blocks[a].last <= pool'.blocks[b].last
    <3>1. CASE b = KvOf[r]
      BY <2>5, <2>9, <3>1
    <3>2. CASE b # KvOf[r] /\ a = KvOf[r]
      BY <2>5, <2>10, <3>2, AgesAreNumbers
    <3>3. CASE a # KvOf[r] /\ b # KvOf[r]
      BY <2>3, <2>5, <2>10, <3>3 DEF AgeInv
    <3> QED
      BY <3>1, <3>2, <3>3
  <2> QED
    BY <2>8, <2>9, <2>10 DEF AgeInv
<1>11. ASSUME NEW r \in todo, Emit(r)
       PROVE  OwnerInv' /\ AgeInv'
  <2>1. /\ IsFirst(r, todo) /\ todo' = todo \ {r} /\ TouchBlock(KvOf[r])
        /\ UNCHANGED <<active, ticket>> /\ r \in active
    BY <1>11 DEF Emit, StreamInv
  <2>2. /\ Held(pool') = Held(pool)
        /\ clock \in Int /\ clock' \in Int /\ clock <= clock'
        /\ \A x \in Held(pool) : /\ Entered(x)' = Entered(x)
                                 /\ pool'.blocks[x].created = pool.blocks[x].created
                                 /\ x # KvOf[r] => pool'.blocks[x].last = pool.blocks[x].last
                                 /\ x = KvOf[r] => pool'.blocks[x].last = clock'
    <3>1. CASE KvOf[r] \in Held(pool)
      <4>1. PICK tick \in Ticks :
                clock' = clock + tick /\ pool' = Touch(pool, KvOf[r], clock + tick)
        BY <2>1, <3>1 DEF TouchBlock
      <4>2. tick \in Int /\ tick >= 0 /\ clock \in Int /\ clock + tick \in Int
        BY DEF SteadyClock, TypeInv
      <4> QED
        BY <1>0, <3>1, <4>1, <4>2, TouchSound, TouchKeepsAges DEF Entered
    <3>2. CASE KvOf[r] \notin Held(pool)
      BY <2>1, <3>2 DEF TouchBlock, TypeInv, Entered
    <3> QED
      BY <3>1, <3>2
  <2>3. OwnerInv'
    BY <2>1, <2>2 DEF OwnerInv
  <2>4. \A b \in Held(pool) : pool'.blocks[b].created <= clock' /\ pool'.blocks[b].last <= clock'
    BY <2>2, AgesAreNumbers DEF AgeInv
  <2>5. \* A block whose owner the pass has reached by now is r's own, or its
        \* owner was reached before r.
        ASSUME NEW b \in Held(pool), \A s \in todo' : ticket[s] > Entered(b), b # KvOf[r]
        PROVE  \A s \in todo : ticket[s] > Entered(b)
    <3>1. PICK o \in active : KvOf[o] = b /\ ticket[o] = Entered(b)
      BY DEF OwnerInv
    <3>2. o \notin todo
      <4>1. o # r /\ ~(ticket[o] > Entered(b))
        BY <2>5, <3>1, AgesAreNumbers
      <4> QED
        BY <2>1, <2>5, <4>1
    <3>3. ~(ticket[r] <= ticket[o])
      BY <2>1, <3>2 DEF BatchInv
    <3>4. ticket[r] > Entered(b)
      BY <2>1, <3>1, <3>3 DEF TypeInv
    <3> QED
      BY <2>1, <2>5, <3>4
  <2>6. ASSUME NEW a \in Held(pool), NEW b \in Held(pool), Entered(a) < Entered(b),
               \A s \in todo' : ticket[s] > Entered(b)
        PROVE  pool'.blocks[a].last <= pool'.blocks[b].last
    <3>1. CASE b = KvOf[r]
      BY <2>2, <2>4, <3>1
    <3>2. CASE b # KvOf[r]
      <4>1. \A s \in todo : ticket[s] > Entered(b)
        BY <2>5, <2>6, <3>2
      <4>2. a # KvOf[r]
        <5>1. SUFFICES ASSUME a = KvOf[r] PROVE FALSE
          OBVIOUS
        <5>2. ticket[r] <= Entered(a)
          BY <2>1, <5>1 DEF OwnerInv
        <5> QED
          BY <2>1, <2>6, <4>1, <5>2, AgesAreNumbers DEF TypeInv
      <4> QED
        BY <2>2, <2>6, <3>2, <4>1, <4>2 DEF AgeInv
    <3> QED
      BY <3>1, <3>2
  <2> QED
    BY <2>1, <2>2, <2>3, <2>4, <2>6 DEF AgeInv
<1>12. CASE UNCHANGED <<active, ticket, clock, todo, pool>>
  BY <1>1, <1>12
<1> QED
  BY <1>4, <1>5, <1>6, <1>7, <1>8, <1>9, <1>10, <1>11, <1>12
     DEF Next, Loop, Submit, AdmitDone, WakeIdle, PassDone, Stop, vars

(***************************************************************************)
(* On a decode node the victim, under LRU as under FIFO, is the block that *)
(* was entered first: the node touches every block in every pass, in the   *)
(* order of admission, so that recency never differs from age              *)
(* (memory_sim.py:143-151, batching.py:122-133).                           *)
(***************************************************************************)
THEOREM EvictsTheOldest == SteadyClock /\ Spec => EvictsOldestAdmitted
<1> SUFFICES ASSUME SteadyClock PROVE Spec => EvictsOldestAdmitted
  OBVIOUS
<1> DEFINE Inv == TypeInv /\ PoolInv /\ QueueInv /\ StreamInv /\ BatchInv
<1>1. Init => OwnerInv /\ AgeInv
  <2> SUFFICES ASSUME Init PROVE Held(pool) = {}
    BY DEF OwnerInv, AgeInv
  <2> QED
    BY DEF Init, EmptyPool, Held
<1>2. Inv /\ OwnerInv /\ AgeInv /\ [Next]_vars => OwnerInv' /\ AgeInv'
  BY AgeStep
<1>3. Inv /\ OwnerInv /\ AgeInv /\ [Next]_vars =>
        [\A v \in Held(pool) \ Held(pool') :
            pool'.evictions > pool.evictions =>
                \A b \in Held(pool') : pool.blocks[v].pos < pool.blocks[b].pos]_vars
  <2> SUFFICES ASSUME Inv, OwnerInv, AgeInv, [Next]_vars,
                      NEW v \in Held(pool) \ Held(pool'), pool'.evictions > pool.evictions,
                      NEW b \in Held(pool')
               PROVE  Entered(v) < Entered(b)
    BY DEF Entered
  <2>1. SoundPool(pool) /\ pool.evictions \in Nat
    BY DEF PoolInv, SoundPool, IsPool
  <2>2. PICK r \in taken : AdmitEvict(r)
    BY <2>1, CountersStep
  <2>3. PICK w \in Victims(pool) : pool' = Evict(pool, w)
    BY <2>2 DEF AdmitEvict
  <2>4. w \in Held(pool) /\ Before(pool.policy, pool.blocks[w], pool.blocks[b])
    BY <2>1, <2>3, EvictSound DEF Victims
  <2>5. w = v /\ b \in Held(pool) /\ b # v
    BY <2>1, <2>3, <2>4, EvictSound
  <2>6. todo = {}
    BY <2>2 DEF StreamInv, PoolInv
  <2>7. Entered(b) < Entered(v) =>
            /\ pool.blocks[b].created <= pool.blocks[v].created
            /\ pool.blocks[b].last <= pool.blocks[v].last
    BY <2>5, <2>6 DEF AgeInv
  <2>8. Entered(b) # Entered(v)
    BY <2>5, AgesAreNumbers
  <2> QED
    BY <2>4, <2>5, <2>7, <2>8, AgesAreNumbers DEF Before, Stamp, Entered
<1> QED
  BY BatchInvariance, <1>1, <1>2, <1>3, PTL DEF Spec, EvictsOldestAdmitted
===============================================================================
