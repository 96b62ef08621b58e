------------------------- MODULE MemorySimulatorProofs -------------------------
(***************************************************************************)
(* The safety of MemorySimulator for any pool size, ids, block sizes and   *)
(* number of calls.                                                        *)
(***************************************************************************)
EXTENDS MemorySimulator, KVPoolProofs

(***************************************************************************)
(* The inductive invariant.  Accounting alone is not inductive: entering a *)
(* block keeps the books only if the id is absent and the block fits, both *)
(* settled by steps the call took earlier; and that eviction always ends   *)
(* in room rests on the size having been compared with the pool.           *)
(***************************************************************************)
PoolOk == SoundPool(pool) /\ NoneLends(pool) /\ pool.used <= TotalMB

OneHolder == \A c1, c2 \in holder : c1 = c2

HolderOk ==
    \A call \in holder :
        /\ call.size <= TotalMB
        /\ call.id \notin Held(pool)
        /\ pool.policy = "none" => call.others \subseteq Held(pool)

CountersOk ==
    /\ clock \in Int
    /\ ops \in 0..MaxOps
    /\ lastUse \in [KvIds -> Nat]

Inv == PoolOk /\ OneHolder /\ holder \in SUBSET Call /\ HolderOk /\ CountersOk

-------------------------------------------------------------------------------
LEMMA InitInv == Init => Inv
<1> SUFFICES ASSUME Init PROVE Inv
    OBVIOUS
<1>1. PoolOk
    BY EmptyPoolSound, PoolAssumption DEF Init, PoolOk, NoneLends
<1>2. OneHolder /\ holder \in SUBSET Call /\ HolderOk
    BY DEF Init, OneHolder, HolderOk
<1>3. CountersOk
    BY SimulatorAssumption DEF Init, CountersOk
<1> QED
    BY <1>1, <1>2, <1>3 DEF Inv

(***************************************************************************)
(* Every step of the simulator keeps the invariant.                        *)
(***************************************************************************)
LEMMA NextInv == Inv /\ [Next]_vars => Inv'
<1> SUFFICES ASSUME Inv, [Next]_vars PROVE Inv'
    OBVIOUS
<1> USE DEF Inv
<1>0. /\ SoundPool(pool) /\ NoneLends(pool) /\ pool.used \in Nat /\ pool.used <= TotalMB
      /\ TotalMB \in Nat /\ MaxOps \in Nat /\ ops \in 0..MaxOps
      /\ Sizes \subseteq Nat /\ Ticks \subseteq Int
      /\ \A call \in holder : call \in Call
    BY NothingOwed, PoolAssumption, SimulatorAssumption DEF PoolOk, CountersOk
<1>1. ASSUME NEW size \in Sizes, AllocateTooBig(size)
      PROVE  Inv'
    <2>1. /\ SoundPool(pool') /\ pool'.used = pool.used
          /\ pool'.blocks = pool.blocks /\ pool'.policy = pool.policy
        BY <1>0, <1>1, CountOomSound DEF AllocateTooBig
    <2>2. PoolOk'
        BY <1>0, <2>1 DEF PoolOk, NoneLends, Held
    <2>3. (OneHolder /\ holder \in SUBSET Call /\ HolderOk)'
        BY <1>1, <2>1 DEF AllocateTooBig, OneHolder, HolderOk, Held
    <2>4. CountersOk'
        BY <1>0, <1>1 DEF AllocateTooBig, CountCall, CountersOk
    <2> QED BY <2>2, <2>3, <2>4
<1>2. ASSUME NEW b \in KvIds, NEW size \in Sizes, AllocateBegin(b, size)
      PROVE  Inv'
    <2>1. /\ SoundPool(pool') /\ NoneLends(pool') /\ pool'.used <= pool.used
          /\ Held(pool') = Held(pool) \ {b}
        BY <1>0, <1>2, ReleaseSound DEF AllocateBegin
    <2>2. pool'.used \in Nat
        BY <2>1, NothingOwed
    <2>3. PoolOk'
        BY <1>0, <2>1, <2>2 DEF PoolOk
    <2>4. Held(pool) \subseteq KvIds
        BY <1>0 DEF SoundPool, IsPool, Held
    <2>5. (OneHolder /\ holder \in SUBSET Call /\ HolderOk)'
        BY <1>0, <1>2, <2>1, <2>4 DEF AllocateBegin, OneHolder, HolderOk, Call
    <2>6. CountersOk'
        BY <1>0, <1>2 DEF AllocateBegin, StartCall, CountCall, CountersOk
    <2> QED BY <2>3, <2>5, <2>6
<1>3. ASSUME NEW call \in holder, AllocateEvict(call)
      PROVE  Inv'
    <2>1. PICK v \in Victims(pool) : pool' = Evict(pool, v)
        BY <1>3 DEF AllocateEvict
    <2>2. v \in Held(pool) /\ pool.policy # "none"
        BY DEF Victims
    <2>3. /\ SoundPool(pool') /\ NoneLends(pool') /\ pool'.used <= pool.used
          /\ Held(pool') = Held(pool) \ {v} /\ pool'.policy = pool.policy
        BY <1>0, <2>1, <2>2, EvictSound
    <2>4. pool'.used \in Nat
        BY <2>3, NothingOwed
    <2>5. PoolOk'
        BY <1>0, <2>3, <2>4 DEF PoolOk
    <2>6. (OneHolder /\ holder \in SUBSET Call /\ HolderOk)'
        BY <1>3, <2>2, <2>3 DEF AllocateEvict, OneHolder, HolderOk
    <2>7. CountersOk'
        BY <1>3 DEF AllocateEvict, CountersOk
    <2> QED BY <2>5, <2>6, <2>7
<1>4. ASSUME NEW call \in holder, AllocateFail(call)
      PROVE  Inv'
    <2>1. SoundPool(pool') /\ pool'.used = pool.used /\ pool'.blocks = pool.blocks
        BY <1>0, <1>4, CountOomSound DEF AllocateFail
    <2>2. PoolOk'
        BY <1>0, <2>1 DEF PoolOk, NoneLends, Held
    <2>3. (OneHolder /\ holder \in SUBSET Call /\ HolderOk)'
        BY <1>4 DEF AllocateFail, OneHolder, HolderOk
    <2>4. CountersOk'
        BY <1>4 DEF AllocateFail, CountersOk
    <2> QED BY <2>2, <2>3, <2>4
<1>5. ASSUME NEW call \in holder, AllocateCommit(call)
      PROVE  Inv'
    <2>1. PICK tick \in Ticks :
            /\ clock' = clock + tick
            /\ pool' = Insert(pool, call.id, call.size, clock + tick)
        BY <1>5 DEF AllocateCommit
    <2>2. /\ call.id \in KvIds /\ call.size \in Nat /\ call.id \notin Held(pool)
          /\ clock + tick \in Int
        BY <1>0 DEF Call, HolderOk, CountersOk
    <2>3. /\ SoundPool(pool') /\ pool'.used = pool.used + call.size
          /\ Held(pool') = Held(pool) \cup {call.id}
          /\ pool'.blocks[call.id].size = call.size
          /\ \A x \in Held(pool) : pool'.blocks[x] = pool.blocks[x]
        BY <1>0, <2>1, <2>2, InsertSound
    <2>4. PoolOk'
        BY <1>0, <1>5, <2>2, <2>3 DEF PoolOk, NoneLends, AllocateCommit, HasRoom
    <2>5. (OneHolder /\ holder \in SUBSET Call /\ HolderOk)'
        BY <1>5 DEF AllocateCommit, OneHolder, HolderOk
    <2>6. CountersOk'
        BY <1>0, <1>5, <2>1, <2>2 DEF AllocateCommit, CountersOk
    <2> QED BY <2>4, <2>5, <2>6
<1>6. ASSUME NEW b \in KvIds, TouchCall(b)
      PROVE  Inv'
    <2>1. holder' = {} /\ ops' = ops + 1 /\ ops < MaxOps
        BY <1>6 DEF TouchCall, StartCall, CountCall
    <2>2. (OneHolder /\ holder \in SUBSET Call /\ HolderOk)'
        BY <2>1 DEF OneHolder, HolderOk
    <2>3. CASE b \in Held(pool)
        <3>1. PICK tick \in Ticks :
                /\ clock' = clock + tick
                /\ pool' = Touch(pool, b, clock + tick)
            BY <1>6, <2>3 DEF TouchCall
        <3>2. clock + tick \in Int
            BY <1>0 DEF CountersOk
        <3>3. /\ SoundPool(pool') /\ pool'.used = pool.used /\ Held(pool') = Held(pool)
              /\ \A x \in Held(pool) : pool'.blocks[x].size = pool.blocks[x].size
            BY <1>0, <2>3, <3>1, <3>2, TouchSound
        <3>4. PoolOk'
            BY <1>0, <3>3 DEF PoolOk, NoneLends
        <3>5. lastUse' = [lastUse EXCEPT ![b] = ops + 1]
            BY <1>6, <2>3 DEF TouchCall
        <3>6. CountersOk'
            BY <1>0, <2>1, <3>1, <3>2, <3>5 DEF CountersOk
        <3> QED BY <2>2, <3>4, <3>6
    <2>4. CASE b \notin Held(pool)
        <3>1. UNCHANGED <<pool, clock, lastUse>>
            BY <1>6, <2>4 DEF TouchCall
        <3> QED BY <1>0, <2>1, <2>2, <3>1 DEF PoolOk, CountersOk
    <2> QED BY <2>3, <2>4
<1>7. ASSUME NEW b \in KvIds, FreeCall(b)
      PROVE  Inv'
    <2>1. SoundPool(pool') /\ NoneLends(pool') /\ pool'.used <= pool.used
        BY <1>0, <1>7, ReleaseSound DEF FreeCall
    <2>2. pool'.used \in Nat
        BY <2>1, NothingOwed
    <2>3. PoolOk'
        BY <1>0, <2>1, <2>2 DEF PoolOk
    <2>4. (OneHolder /\ holder \in SUBSET Call /\ HolderOk)'
        BY <1>7 DEF FreeCall, StartCall, OneHolder, HolderOk
    <2>5. CountersOk'
        BY <1>0, <1>7 DEF FreeCall, StartCall, CountCall, CountersOk
    <2> QED BY <2>3, <2>4, <2>5
<1>8. CASE UNCHANGED vars
    BY <1>8 DEF vars, PoolOk, OneHolder, HolderOk, CountersOk
<1> QED
    BY <1>1, <1>2, <1>3, <1>4, <1>5, <1>6, <1>7, <1>8 DEF Next

LEMMA InvHolds == Spec => []Inv
BY InitInv, NextInv, PTL DEF Spec

-------------------------------------------------------------------------------
(***************************************************************************)
(* Every variable keeps its type.                                          *)
(***************************************************************************)
THEOREM TypeCorrect == Spec => []TypeOK
<1>1. Inv => TypeOK
    BY DEF Inv, PoolOk, SoundPool, CountersOk, TypeOK
<1> QED
    BY <1>1, InvHolds, PTL

(***************************************************************************)
(* used_mb is the sum of the block sizes and stays within the pool,        *)
(* whatever the sizes, the policy and the readings of the clock.           *)
(***************************************************************************)
THEOREM AccountingCorrect == Spec => []Accounting
<1>1. Inv => Accounting
    BY DEF Inv, PoolOk, SoundPool, Accounting
<1> QED
    BY <1>1, InvHolds, PTL

(***************************************************************************)
(* An evicting simulator never refuses a block that fits the pool.         *)
(***************************************************************************)
LEMMA InvNoSpuriousOom == Inv => NoSpuriousOom
<1> SUFFICES ASSUME Inv, NEW call \in holder,
                    pool.policy # "none", ~HasRoom(pool, call.size)
             PROVE  Victims(pool) # {}
    BY DEF NoSpuriousOom
<1>1. SoundPool(pool) /\ call.size \in Nat /\ call.size <= TotalMB
    BY DEF Inv, PoolOk, HolderOk, Call
<1>2. Held(pool) # {}
    BY <1>1, EmptyHasRoom
<1> QED
    BY <1>1, <1>2, VictimExists

THEOREM EvictionSuffices == Spec => []NoSpuriousOom
BY InvHolds, InvNoSpuriousOom, PTL

(***************************************************************************)
(* A failed allocation takes nobody else's block: it fails only under      *)
(* policy none, where the loop removes nothing.                            *)
(***************************************************************************)
THEOREM FailureIsHarmless == Spec => FailureSparesOthers
<1>1. ASSUME Inv, [Next]_vars
      PROVE  [\A call \in holder :
                AllocateFail(call) => call.others \subseteq Held(pool')]_vars
    <2> SUFFICES ASSUME NEW call \in holder, AllocateFail(call)
                 PROVE  call.others \subseteq Held(pool')
        OBVIOUS
    <2>1. Victims(pool) = {} /\ ~HasRoom(pool, call.size)
        BY DEF AllocateFail
    <2>2. pool.policy = "none"
        BY <1>1, <2>1, InvNoSpuriousOom DEF NoSpuriousOom
    <2>3. call.others \subseteq Held(pool)
        BY <1>1, <2>2 DEF Inv, HolderOk
    <2>4. Held(pool') = Held(pool)
        BY <1>1, CountOomSound DEF AllocateFail, Inv, PoolOk, Held
    <2> QED BY <2>3, <2>4
<1> QED
    BY <1>1, InvHolds, PTL DEF Spec, FailureSparesOthers

-------------------------------------------------------------------------------
(***************************************************************************)
(* The order of the stamps is the order of the calls, provided that each   *)
(* reading of time.time() is later than the one before.                    *)
(***************************************************************************)
StrictClock == \A tick \in Ticks : tick > 0

StampOk == \A b \in Held(pool) : pool.blocks[b].last <= clock

UseOk ==
    /\ \A b \in KvIds : lastUse[b] <= ops
    /\ holder # {} => \A b \in KvIds : lastUse[b] < ops

SameOrder ==
    \A x, y \in Held(pool) : x # y =>
        \/ pool.blocks[x].last < pool.blocks[y].last /\ lastUse[x] < lastUse[y]
        \/ pool.blocks[y].last < pool.blocks[x].last /\ lastUse[y] < lastUse[x]

OrderInv == StampOk /\ UseOk /\ SameOrder

(***************************************************************************)
(* A step that only removes blocks keeps the order.                        *)
(***************************************************************************)
LEMMA ShrinkKeepsOrder ==
    ASSUME StampOk, SameOrder, Held(pool') \subseteq Held(pool),
           \A b \in Held(pool') : pool'.blocks[b] = pool.blocks[b],
           clock' = clock, lastUse' = lastUse
    PROVE  StampOk' /\ SameOrder'
BY DEF StampOk, SameOrder

(***************************************************************************)
(* A step that gives one block the latest stamp and the latest use keeps   *)
(* the order.                                                              *)
(***************************************************************************)
LEMMA NewestKeepsOrder ==
    ASSUME Inv, OrderInv, StrictClock,
           NEW b \in KvIds, NEW tick \in Ticks, NEW n \in Nat,
           clock' = clock + tick,
           SoundPool(pool'),
           Held(pool') \subseteq Held(pool) \cup {b},
           pool'.blocks[b].last = clock + tick,
           \A x \in Held(pool') \ {b} : pool'.blocks[x] = pool.blocks[x],
           \A x \in KvIds : lastUse[x] < n,
           lastUse' = [lastUse EXCEPT ![b] = n]
    PROVE  StampOk' /\ SameOrder'
<1>1. /\ clock \in Int /\ tick \in Int /\ tick > 0
      /\ \A x \in KvIds : lastUse[x] \in Nat
      /\ lastUse'[b] = n
      /\ \A x \in KvIds \ {b} : lastUse'[x] = lastUse[x]
    BY SimulatorAssumption DEF Inv, CountersOk, StrictClock
<1>2. /\ Held(pool) \subseteq KvIds /\ Held(pool') \subseteq KvIds
      /\ \A x \in Held(pool) : pool.blocks[x].last \in Int
    BY SoundBlocks DEF Inv, PoolOk, SoundPool, IsPool, Held, Block
<1>3. \A x \in Held(pool') \ {b} :
        /\ x \in Held(pool)
        /\ pool'.blocks[x].last = pool.blocks[x].last
        /\ pool'.blocks[x].last \in Int
        /\ pool'.blocks[x].last < clock + tick
    BY <1>1, <1>2 DEF OrderInv, StampOk
<1>4. StampOk'
    BY <1>1, <1>3 DEF StampOk
<1>5. SameOrder'
    BY <1>1, <1>2, <1>3 DEF OrderInv, SameOrder
<1> QED
    BY <1>4, <1>5

LEMMA InitOrder == Init => OrderInv
BY DEF Init, OrderInv, StampOk, UseOk, SameOrder, EmptyPool, Held

LEMMA NextOrder == StrictClock /\ Inv /\ OrderInv /\ [Next]_vars => OrderInv'
<1> SUFFICES ASSUME StrictClock, Inv, OrderInv, [Next]_vars PROVE OrderInv'
    OBVIOUS
<1>0. /\ SoundPool(pool) /\ ops \in Nat /\ clock \in Int /\ Ticks \subseteq Int
      /\ lastUse \in [KvIds -> Nat]
      /\ \A call \in holder : call \in Call
    BY SimulatorAssumption DEF Inv, PoolOk, CountersOk
<1>1. ASSUME NEW size \in Sizes, AllocateTooBig(size)
      PROVE  OrderInv'
    <2>1. pool'.blocks = pool.blocks
        BY <1>0, <1>1, CountOomSound DEF AllocateTooBig
    <2>2. StampOk' /\ SameOrder'
        BY <1>1, <2>1, ShrinkKeepsOrder DEF AllocateTooBig, OrderInv, Held
    <2>3. UseOk'
        BY <1>0, <1>1 DEF AllocateTooBig, CountCall, OrderInv, UseOk
    <2> QED BY <2>2, <2>3 DEF OrderInv
<1>2. ASSUME NEW b \in KvIds, NEW size \in Sizes, AllocateBegin(b, size)
      PROVE  OrderInv'
    <2>1. /\ Held(pool') = Held(pool) \ {b}
          /\ \A x \in Held(pool) \ {b} : pool'.blocks[x] = pool.blocks[x]
        BY <1>0, <1>2, ReleaseSound DEF AllocateBegin
    <2>2. StampOk' /\ SameOrder'
        BY <1>2, <2>1, ShrinkKeepsOrder DEF AllocateBegin, OrderInv
    <2>3. UseOk'
        BY <1>0, <1>2 DEF AllocateBegin, StartCall, CountCall, OrderInv, UseOk
    <2> QED BY <2>2, <2>3 DEF OrderInv
<1>3. ASSUME NEW call \in holder, AllocateEvict(call)
      PROVE  OrderInv'
    <2>1. PICK v \in Victims(pool) : pool' = Evict(pool, v)
        BY <1>3 DEF AllocateEvict
    <2>2. /\ Held(pool') = Held(pool) \ {v}
          /\ \A x \in Held(pool) \ {v} : pool'.blocks[x] = pool.blocks[x]
        BY <1>0, <2>1, EvictSound DEF Victims
    <2>3. StampOk' /\ SameOrder'
        BY <1>3, <2>2, ShrinkKeepsOrder DEF AllocateEvict, OrderInv
    <2>4. UseOk'
        BY <1>3 DEF AllocateEvict, OrderInv, UseOk
    <2> QED BY <2>3, <2>4 DEF OrderInv
<1>4. ASSUME NEW call \in holder, AllocateFail(call)
      PROVE  OrderInv'
    <2>1. pool'.blocks = pool.blocks
        BY <1>0, <1>4, CountOomSound DEF AllocateFail
    <2>2. StampOk' /\ SameOrder'
        BY <1>4, <2>1, ShrinkKeepsOrder DEF AllocateFail, OrderInv, Held
    <2>3. UseOk'
        BY <1>4 DEF AllocateFail, OrderInv, UseOk
    <2> QED BY <2>2, <2>3 DEF OrderInv
<1>5. ASSUME NEW call \in holder, AllocateCommit(call)
      PROVE  OrderInv'
    <2>1. PICK tick \in Ticks :
            /\ clock' = clock + tick
            /\ pool' = Insert(pool, call.id, call.size, clock + tick)
        BY <1>5 DEF AllocateCommit
    <2>2. /\ call.id \in KvIds /\ call.size \in Nat /\ call.id \notin Held(pool)
          /\ clock + tick \in Int
        BY <1>0 DEF Inv, HolderOk, Call
    <2>3. /\ SoundPool(pool')
          /\ Held(pool') = Held(pool) \cup {call.id}
          /\ pool'.blocks[call.id].last = clock + tick
          /\ \A x \in Held(pool) : pool'.blocks[x] = pool.blocks[x]
        BY <1>0, <2>1, <2>2, InsertSound
    <2>4. \A x \in KvIds : lastUse[x] < ops
        BY DEF OrderInv, UseOk
    <2>5. lastUse' = [lastUse EXCEPT ![call.id] = ops] /\ ops' = ops /\ holder' = {}
        BY <1>5 DEF AllocateCommit
    <2>6. StampOk' /\ SameOrder'
        BY <1>0, <2>1, <2>2, <2>3, <2>4, <2>5, NewestKeepsOrder
    <2>7. UseOk'
        BY <1>0, <2>2, <2>4, <2>5 DEF UseOk
    <2> QED BY <2>6, <2>7 DEF OrderInv
<1>6. ASSUME NEW b \in KvIds, TouchCall(b)
      PROVE  OrderInv'
    <2>1. holder' = {} /\ ops' = ops + 1
        BY <1>6 DEF TouchCall, StartCall, CountCall
    <2>2. CASE b \in Held(pool)
        <3>1. PICK tick \in Ticks :
                /\ clock' = clock + tick
                /\ pool' = Touch(pool, b, clock + tick)
            BY <1>6, <2>2 DEF TouchCall
        <3>2. PICK now \in Int : now = clock + tick /\ pool' = Touch(pool, b, now)
            BY <1>0, <3>1
        <3>3. /\ SoundPool(pool') /\ Held(pool') = Held(pool)
              /\ pool'.blocks[b].last = now
              /\ \A x \in Held(pool) \ {b} : pool'.blocks[x] = pool.blocks[x]
            <4>1. SoundPool(pool) /\ b \in Held(pool)
                BY <1>0, <2>2
            <4> QED BY <3>2, <4>1, TouchSound
        <3>4. lastUse' = [lastUse EXCEPT ![b] = ops + 1]
            BY <1>6, <2>2 DEF TouchCall
        <3>5. ops + 1 \in Nat /\ \A x \in KvIds : lastUse[x] < ops + 1
            BY <1>0 DEF OrderInv, UseOk
        <3>6. StampOk' /\ SameOrder'
            BY <1>0, <3>1, <3>2, <3>3, <3>4, <3>5, NewestKeepsOrder
        <3>7. UseOk'
            BY <1>0, <2>1, <3>4, <3>5 DEF UseOk
        <3> QED BY <3>6, <3>7 DEF OrderInv
    <2>3. CASE b \notin Held(pool)
        <3>1. UNCHANGED <<pool, clock, lastUse>>
            BY <1>6, <2>3 DEF TouchCall
        <3> QED BY <1>0, <2>1, <3>1 DEF OrderInv, StampOk, UseOk, SameOrder
    <2> QED BY <2>2, <2>3
<1>7. ASSUME NEW b \in KvIds, FreeCall(b)
      PROVE  OrderInv'
    <2>1. /\ Held(pool') = Held(pool) \ {b}
          /\ \A x \in Held(pool) \ {b} : pool'.blocks[x] = pool.blocks[x]
        BY <1>0, <1>7, ReleaseSound DEF FreeCall
    <2>2. StampOk' /\ SameOrder'
        BY <1>7, <2>1, ShrinkKeepsOrder DEF FreeCall, OrderInv
    <2>3. UseOk'
        BY <1>0, <1>7 DEF FreeCall, StartCall, CountCall, OrderInv, UseOk
    <2> QED BY <2>2, <2>3 DEF OrderInv
<1>8. CASE UNCHANGED vars
    BY <1>8 DEF vars, OrderInv, StampOk, UseOk, SameOrder
<1> QED
    BY <1>1, <1>2, <1>3, <1>4, <1>5, <1>6, <1>7, <1>8 DEF Next

(***************************************************************************)
(* Only the eviction loop counts an eviction.                              *)
(***************************************************************************)
LEMMA OnlyEvictionCounts ==
    ASSUME Inv, Next, pool'.evictions > pool.evictions
    PROVE  \E call \in holder : AllocateEvict(call)
<1> SUFFICES ASSUME \A call \in holder : ~AllocateEvict(call) PROVE FALSE
    OBVIOUS
<1>0. /\ SoundPool(pool) /\ pool.evictions \in Nat
      /\ \A call \in holder : call \in Call
      /\ clock \in Int /\ Ticks \subseteq Int
    BY SimulatorAssumption DEF Inv, PoolOk, SoundPool, IsPool, CountersOk
<1>1. ASSUME NEW size \in Sizes, AllocateTooBig(size) PROVE FALSE
    BY <1>0, <1>1, CountOomSound DEF AllocateTooBig
<1>2. ASSUME NEW x \in KvIds, NEW size \in Sizes, AllocateBegin(x, size)
      PROVE  FALSE
    BY <1>0, <1>2, ReleaseSound DEF AllocateBegin
<1>3. ASSUME NEW call \in holder, AllocateFail(call) PROVE FALSE
    BY <1>0, <1>3, CountOomSound DEF AllocateFail
<1>4. ASSUME NEW call \in holder, AllocateCommit(call) PROVE FALSE
    <2>1. call.id \in KvIds /\ call.size \in Nat /\ call.id \notin Held(pool)
        BY <1>0 DEF Inv, HolderOk, Call
    <2>2. PICK tick \in Ticks :
            pool' = Insert(pool, call.id, call.size, clock + tick)
        BY <1>4 DEF AllocateCommit
    <2>3. clock + tick \in Int
        BY <1>0
    <2> QED BY <1>0, <2>1, <2>2, <2>3, InsertSound
<1>5. ASSUME NEW x \in KvIds, TouchCall(x) PROVE FALSE
    <2>1. CASE x \in Held(pool)
        <3>1. PICK tick \in Ticks : pool' = Touch(pool, x, clock + tick)
            BY <1>5, <2>1 DEF TouchCall
        <3>2. clock + tick \in Int
            BY <1>0
        <3> QED BY <1>0, <2>1, <3>1, <3>2, TouchSound
    <2>2. CASE x \notin Held(pool)
        BY <1>0, <1>5, <2>2 DEF TouchCall
    <2> QED BY <2>1, <2>2
<1>6. ASSUME NEW x \in KvIds, FreeCall(x) PROVE FALSE
    BY <1>0, <1>6, ReleaseSound DEF FreeCall
<1> QED
    BY <1>1, <1>2, <1>3, <1>4, <1>5, <1>6 DEF Next

(***************************************************************************)
(* While the clock tells every two calls apart, LRU evicts the block whose *)
(* last use is the earliest in the order of the calls.                     *)
(***************************************************************************)
THEOREM LruIsExact ==
    StrictClock /\ Spec => EvictsLeastRecentlyUsed
<1> SUFFICES ASSUME StrictClock
             PROVE  Spec => EvictsLeastRecentlyUsed
    OBVIOUS
<1> DEFINE Step == \A v \in Held(pool) \ Held(pool') :
                    pool.policy # "fifo" /\ pool'.evictions > pool.evictions =>
                        \A b \in Held(pool') : lastUse[v] < lastUse[b]
<1>1. ASSUME Inv, OrderInv, [Next]_vars
      PROVE  [Step]_vars
    <2> SUFFICES ASSUME NEW v \in Held(pool), v \notin Held(pool'), Next,
                        pool.policy # "fifo", pool'.evictions > pool.evictions,
                        NEW b \in Held(pool')
                 PROVE  lastUse[v] < lastUse[b]
        BY <1>1 DEF vars
    <2>0. /\ SoundPool(pool) /\ pool.evictions \in Nat
          /\ \A call \in holder : call \in Call
          /\ clock \in Int /\ Ticks \subseteq Int
        BY <1>1, SimulatorAssumption DEF Inv, PoolOk, SoundPool, IsPool, CountersOk
    <2>1. PICK call \in holder : AllocateEvict(call)
        BY <1>1, OnlyEvictionCounts
    <2>2. PICK w \in Victims(pool) : pool' = Evict(pool, w)
        BY <2>1 DEF AllocateEvict
    <2>3. w \in Held(pool) /\ Held(pool') = Held(pool) \ {w}
        BY <2>0, <2>2, EvictSound DEF Victims
    <2>4. v = w /\ b \in Held(pool) /\ b # v
        BY <2>3
    <2>5. Before(pool.policy, pool.blocks[v], pool.blocks[b])
        BY <2>4 DEF Victims
    <2>6. /\ pool.blocks[v].last \in Int /\ pool.blocks[b].last \in Int
        BY <2>0, <2>4, SoundBlocks DEF Block
    <2>7. pool.blocks[v].last <= pool.blocks[b].last
        BY <2>5, <2>6 DEF Before, Stamp
    <2> QED
        BY <1>1, <2>4, <2>6, <2>7 DEF OrderInv, SameOrder
<1>2. Inv /\ OrderInv /\ [Next]_vars => OrderInv'
    BY NextOrder
<1> QED
    BY <1>1, <1>2, InitOrder, InvHolds, PTL DEF Spec, EvictsLeastRecentlyUsed
-------------------------------------------------------------------------------
(***************************************************************************)
(* The order of creation is the order of insertion, provided that the      *)
(* clock is not set back; it may repeat a reading.                         *)
(***************************************************************************)
SteadyClock == \A tick \in Ticks : tick >= 0

Born == \A b \in Held(pool) :
            /\ pool.blocks[b].created <= clock
            /\ pool.blocks[b].pos < pool.allocs

Older(x, y) ==
    /\ pool.blocks[x].created <= pool.blocks[y].created
    /\ pool.blocks[x].pos < pool.blocks[y].pos

AgeInv == Born /\ \A x, y \in Held(pool) : x # y => Older(x, y) \/ Older(y, x)

(***************************************************************************)
(* A step that enters no block keeps the ages.                             *)
(***************************************************************************)
LEMMA NoEntryKeepsAges ==
    ASSUME Inv, AgeInv, SteadyClock,
           clock' = clock \/ \E tick \in Ticks : clock' = clock + tick,
           Held(pool') \subseteq Held(pool),
           pool'.allocs = pool.allocs,
           \A b \in Held(pool') :
                /\ pool'.blocks[b].created = pool.blocks[b].created
                /\ pool'.blocks[b].pos = pool.blocks[b].pos
    PROVE  AgeInv'
<1>1. clock \in Int /\ clock' \in Int /\ clock <= clock'
    BY SimulatorAssumption DEF Inv, CountersOk, SteadyClock
<1>2. \A b \in Held(pool) : pool.blocks[b].created \in Int
    BY SoundBlocks DEF Inv, PoolOk, Block
<1>3. Born'
    BY <1>1, <1>2 DEF AgeInv, Born
<1>4. (\A x, y \in Held(pool) : x # y => Older(x, y) \/ Older(y, x))'
    BY DEF AgeInv, Older
<1> QED
    BY <1>3, <1>4 DEF AgeInv

LEMMA NextAges == SteadyClock /\ Inv /\ AgeInv /\ [Next]_vars => AgeInv'
<1> SUFFICES ASSUME SteadyClock, Inv, AgeInv, [Next]_vars PROVE AgeInv'
    OBVIOUS
<1>0. /\ SoundPool(pool) /\ clock \in Int /\ Ticks \subseteq Int
      /\ pool.allocs \in Nat
      /\ \A call \in holder : call \in Call
    BY SimulatorAssumption DEF Inv, PoolOk, SoundPool, IsPool, CountersOk
<1>1. ASSUME NEW size \in Sizes, AllocateTooBig(size)
      PROVE  AgeInv'
    <2>1. pool'.blocks = pool.blocks /\ pool'.allocs = pool.allocs
        BY <1>0, <1>1, CountOomSound DEF AllocateTooBig
    <2> QED BY <1>1, <2>1, NoEntryKeepsAges DEF AllocateTooBig, Held
<1>2. ASSUME NEW b \in KvIds, NEW size \in Sizes, AllocateBegin(b, size)
      PROVE  AgeInv'
    <2>1. /\ Held(pool') = Held(pool) \ {b} /\ pool'.allocs = pool.allocs
          /\ \A x \in Held(pool) \ {b} : pool'.blocks[x] = pool.blocks[x]
        BY <1>0, <1>2, ReleaseSound DEF AllocateBegin
    <2> QED BY <1>2, <2>1, NoEntryKeepsAges DEF AllocateBegin
<1>3. ASSUME NEW call \in holder, AllocateEvict(call)
      PROVE  AgeInv'
    <2>1. PICK v \in Victims(pool) : pool' = Evict(pool, v)
        BY <1>3 DEF AllocateEvict
    <2>2. /\ Held(pool') = Held(pool) \ {v} /\ pool'.allocs = pool.allocs
          /\ \A x \in Held(pool) \ {v} : pool'.blocks[x] = pool.blocks[x]
        BY <1>0, <2>1, EvictSound DEF Victims
    <2> QED BY <1>3, <2>2, NoEntryKeepsAges DEF AllocateEvict
<1>4. ASSUME NEW call \in holder, AllocateFail(call)
      PROVE  AgeInv'
    <2>1. pool'.blocks = pool.blocks /\ pool'.allocs = pool.allocs
        BY <1>0, <1>4, CountOomSound DEF AllocateFail
    <2> QED BY <1>4, <2>1, NoEntryKeepsAges DEF AllocateFail, Held
<1>5. ASSUME NEW call \in holder, AllocateCommit(call)
      PROVE  AgeInv'
    <2>1. PICK tick \in Ticks :
            /\ clock' = clock + tick
            /\ pool' = Insert(pool, call.id, call.size, clock + tick)
        BY <1>5 DEF AllocateCommit
    <2>2. PICK now \in Int : now = clock + tick
        BY <1>0
    <2>3. /\ call.id \in KvIds /\ call.size \in Nat /\ call.id \notin Held(pool)
        BY <1>0 DEF Inv, HolderOk, Call
    <2>4. pool' = Insert(pool, call.id, call.size, now)
        BY <2>1, <2>2
    <2>5. /\ Held(pool') = Held(pool) \cup {call.id}
          /\ pool'.allocs = pool.allocs + 1
          /\ pool'.blocks[call.id].created = now
          /\ pool'.blocks[call.id].pos = pool.allocs
          /\ \A x \in Held(pool) : pool'.blocks[x] = pool.blocks[x]
        BY <1>0, <2>3, <2>4, InsertSound
    <2>6. clock <= now /\ clock' = now
        BY <1>0, <2>1, <2>2 DEF SteadyClock
    <2>7. \A x \in Held(pool) : /\ pool.blocks[x].created \in Int
                                /\ pool.blocks[x].pos \in Nat
        BY <1>0, SoundBlocks DEF Block
    <2>8. Born'
        BY <1>0, <2>3, <2>5, <2>6, <2>7 DEF AgeInv, Born
    <2>9. (\A x, y \in Held(pool) : x # y => Older(x, y) \/ Older(y, x))'
        BY <1>0, <2>3, <2>5, <2>6, <2>7 DEF AgeInv, Born, Older
    <2> QED BY <2>8, <2>9 DEF AgeInv
<1>6. ASSUME NEW b \in KvIds, TouchCall(b)
      PROVE  AgeInv'
    <2>1. CASE b \in Held(pool)
        <3>1. PICK tick \in Ticks :
                /\ clock' = clock + tick
                /\ pool' = Touch(pool, b, clock + tick)
            BY <1>6, <2>1 DEF TouchCall
        <3>2. PICK now \in Int : now = clock + tick /\ pool' = Touch(pool, b, now)
            BY <1>0, <3>1
        <3>3. Held(pool') = Held(pool) /\ pool'.allocs = pool.allocs
            BY <1>0, <2>1, <3>2, TouchSound
        <3>4. \A x \in Held(pool) :
                /\ pool'.blocks[x].created = pool.blocks[x].created
                /\ pool'.blocks[x].pos = pool.blocks[x].pos
            BY <1>0, <2>1, <3>2, TouchKeepsAges
        <3> QED BY <3>1, <3>3, <3>4, NoEntryKeepsAges
    <2>2. CASE b \notin Held(pool)
        BY <1>6, <2>2, NoEntryKeepsAges DEF TouchCall, Held
    <2> QED BY <2>1, <2>2
<1>7. ASSUME NEW b \in KvIds, FreeCall(b)
      PROVE  AgeInv'
    <2>1. /\ Held(pool') = Held(pool) \ {b} /\ pool'.allocs = pool.allocs
          /\ \A x \in Held(pool) \ {b} : pool'.blocks[x] = pool.blocks[x]
        BY <1>0, <1>7, ReleaseSound DEF FreeCall
    <2> QED BY <1>7, <2>1, NoEntryKeepsAges DEF FreeCall
<1>8. CASE UNCHANGED vars
    BY <1>8 DEF vars, AgeInv, Born, Older
<1> QED
    BY <1>1, <1>2, <1>3, <1>4, <1>5, <1>6, <1>7, <1>8 DEF Next

(***************************************************************************)
(* Unless the clock is set back, FIFO evicts in the order of insertion,    *)
(* whatever was touched in between.                                        *)
(***************************************************************************)
THEOREM FifoIsExact == SteadyClock /\ Spec => EvictsOldest
<1> SUFFICES ASSUME SteadyClock PROVE Spec => EvictsOldest
    OBVIOUS
<1> DEFINE Step == \A v \in Held(pool) \ Held(pool') :
                    pool.policy = "fifo" /\ pool'.evictions > pool.evictions =>
                        \A b \in Held(pool') : pool.blocks[v].pos < pool.blocks[b].pos
<1>1. ASSUME Inv, AgeInv, [Next]_vars
      PROVE  [Step]_vars
    <2> SUFFICES ASSUME NEW v \in Held(pool), v \notin Held(pool'), Next,
                        pool.policy = "fifo", pool'.evictions > pool.evictions,
                        NEW b \in Held(pool')
                 PROVE  pool.blocks[v].pos < pool.blocks[b].pos
        BY <1>1 DEF vars
    <2>1. PICK call \in holder : AllocateEvict(call)
        BY <1>1, OnlyEvictionCounts
    <2>2. PICK w \in Victims(pool) : pool' = Evict(pool, w)
        BY <2>1 DEF AllocateEvict
    <2>3. w \in Held(pool) /\ Held(pool') = Held(pool) \ {w}
        BY <1>1, <2>2, EvictSound DEF Victims, Inv, PoolOk
    <2>4. v = w /\ b \in Held(pool) /\ b # v
        BY <2>3
    <2>5. Before("fifo", pool.blocks[v], pool.blocks[b])
        BY <2>4 DEF Victims
    <2>6. \A x \in {v, b} : /\ pool.blocks[x].created \in Int
                            /\ pool.blocks[x].pos \in Nat
        BY <1>1, <2>4, SoundBlocks DEF Inv, PoolOk, Block
    <2>7. Older(v, b) \/ Older(b, v)
        BY <1>1, <2>4 DEF AgeInv
    <2> QED
        BY <2>5, <2>6, <2>7 DEF Before, Stamp, Older
<1>2. Inv /\ AgeInv /\ [Next]_vars => AgeInv'
    BY NextAges
<1>3. Init => AgeInv
    BY DEF Init, AgeInv, Born, EmptyPool, Held
<1> QED
    BY <1>1, <1>2, <1>3, InvHolds, PTL DEF Spec, EvictsOldest
===============================================================================
