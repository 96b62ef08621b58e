----------------------------- MODULE KVPoolProofs -----------------------------
(***************************************************************************)
(* What the pool operators of KVPool preserve, for any pool size, any set  *)
(* of ids and any policy.  The modules that own a pool build the proofs of *)
(* their invariants on these lemmas.                                       *)
(***************************************************************************)
EXTENDS KVPool, FiniteSetTheorems, WellFoundedInduction, TLAPS

(***************************************************************************)
(* A pool whose books are in order: it holds finitely many blocks and used *)
(* is the sum of their sizes.                                              *)
(***************************************************************************)
SoundPool(pool) ==
    /\ IsPool(pool)
    /\ IsFiniteSet(Held(pool))
    /\ pool.used = Taken(pool)

\* The units of one block.
Column(b, size) == {b} \X (1..size)

\* What Taken is the difference of.
Gross(pool) == Cardinality(Footprint(pool.blocks))
Owed(pool) == Cardinality(Lent(pool.blocks))

\* No block of a size below zero.
NoneLends(pool) == \A b \in Held(pool) : pool.blocks[b].size >= 0

-------------------------------------------------------------------------------
(***************************************************************************)
(* A block of size n takes n units, one of a size below zero takes none.   *)
(***************************************************************************)
LEMMA ColumnSize ==
    ASSUME NEW b, NEW n \in Int
    PROVE  /\ IsFiniteSet(Column(b, n))
           /\ Cardinality(Column(b, n)) = IF n >= 0 THEN n ELSE 0
<1>1. IsFiniteSet({b}) /\ Cardinality({b}) = 1
    BY FS_Singleton
<1>2. IsFiniteSet(1..n) /\ Cardinality(1..n) = IF n >= 0 THEN n ELSE 0
    BY FS_Interval
<1>3. /\ IsFiniteSet({b} \X (1..n))
      /\ Cardinality({b} \X (1..n)) = Cardinality({b}) * Cardinality(1..n)
    BY <1>1, <1>2, FS_Product
<1> QED
    BY <1>1, <1>2, <1>3 DEF Column

(***************************************************************************)
(* Finitely many columns hold finitely many units.                         *)
(***************************************************************************)
LEMMA ColumnsFinite ==
    ASSUME NEW D, IsFiniteSet(D), NEW height \in [D -> Int]
    PROVE  IsFiniteSet(UNION {Column(b, height[b]) : b \in D})
<1> DEFINE C == {Column(b, height[b]) : b \in D}
           f == [b \in D |-> Column(b, height[b])]
<1>1. f \in Surjection(D, C)
    BY DEF Surjection
<1>2. IsFiniteSet(C)
    <2> HIDE DEF f, C
    <2> QED BY <1>1, FS_Surjection
<1>3. \A T \in C : IsFiniteSet(T)
    BY ColumnSize
<1> QED
    <2>1. IsFiniteSet(UNION C)
        <3> HIDE DEF C
        <3> QED BY <1>2, <1>3, FS_UNION
    <2> QED BY <2>1

(***************************************************************************)
(* Finitely many blocks take, and lend, finitely many units.               *)
(***************************************************************************)
LEMMA FootprintFinite ==
    ASSUME NEW blocks, IsFiniteSet(DOMAIN blocks),
           \A b \in DOMAIN blocks : blocks[b].size \in Int
    PROVE  IsFiniteSet(Footprint(blocks)) /\ IsFiniteSet(Lent(blocks))
<1> DEFINE D == DOMAIN blocks
           up == [b \in D |-> blocks[b].size]
           down == [b \in D |-> -blocks[b].size]
<1>1. up \in [D -> Int] /\ down \in [D -> Int]
    OBVIOUS
<1>2. /\ Footprint(blocks) = UNION {Column(b, up[b]) : b \in D}
      /\ Lent(blocks) = UNION {Column(b, down[b]) : b \in D}
    BY DEF Footprint, Lent, Column
<1>3. /\ IsFiniteSet(UNION {Column(b, up[b]) : b \in D})
      /\ IsFiniteSet(UNION {Column(b, down[b]) : b \in D})
    <2> HIDE DEF up, down
    <2> QED BY <1>1, ColumnsFinite
<1> QED
    BY <1>2, <1>3

(***************************************************************************)
(* Taking a column out of a set of units, and putting one in, for the      *)
(* units taken and the units lent alike.                                   *)
(***************************************************************************)
LEMMA RemoveColumn ==
    ASSUME NEW U, IsFiniteSet(U), NEW b, NEW n \in Int, Column(b, n) \subseteq U
    PROVE  /\ IsFiniteSet(U \ Column(b, n))
           /\ Cardinality(U \ Column(b, n)) = Cardinality(U) - Cardinality(Column(b, n))
<1>1. U \cap Column(b, n) = Column(b, n)
    OBVIOUS
<1> QED
    BY <1>1, FS_Difference

LEMMA AddColumn ==
    ASSUME NEW U, IsFiniteSet(U), NEW b, NEW n \in Int, Column(b, n) \cap U = {}
    PROVE  /\ IsFiniteSet(U \cup Column(b, n))
           /\ Cardinality(U \cup Column(b, n)) = Cardinality(U) + Cardinality(Column(b, n))
<1>1. IsFiniteSet(Column(b, n)) /\ Cardinality({}) = 0
    BY ColumnSize, FS_EmptySet
<1>2. Cardinality(U) \in Nat /\ Cardinality(Column(b, n)) \in Nat
    BY <1>1, FS_CardinalityType
<1>3. U \cap Column(b, n) = {}
    OBVIOUS
<1>4. /\ IsFiniteSet(U \cup Column(b, n))
      /\ Cardinality(U \cup Column(b, n))
            = Cardinality(U) + Cardinality(Column(b, n)) - Cardinality(U \cap Column(b, n))
    BY <1>1, FS_Union
<1> QED
    BY <1>1, <1>2, <1>3, <1>4

(***************************************************************************)
(* Finding a least element: in a finite non-empty set, a strict order has  *)
(* one with nothing below it.                                              *)
(***************************************************************************)
LEMMA FiniteOrderHasMinimum ==
    ASSUME NEW S, IsFiniteSet(S), S # {}, NEW R,
           \A x \in S : <<x, x>> \notin R,
           \A x, y, z \in S : <<x, y>> \in R /\ <<y, z>> \in R => <<x, z>> \in R
    PROVE  \E v \in S : \A b \in S : <<b, v>> \notin R
<1> DEFINE Below(v) == {b \in S : <<b, v>> \in R}
           T == {Below(v) : v \in S}
<1>1. T \subseteq FiniteSubsetsOf(S) /\ T # {}
    <2>1. \A v \in S : Below(v) \in SUBSET S
        OBVIOUS
    <2>2. FiniteSubsetsOf(S) = SUBSET S
        BY FS_FiniteSubsetsOfFinite
    <2>3. ASSUME NEW B \in T PROVE B \in SUBSET S
        <3>1. PICK v \in S : B = Below(v)
            OBVIOUS
        <3> HIDE DEF Below
        <3> QED BY <2>1, <3>1
    <2>4. T # {}
        <3>1. PICK x : x \in S
            OBVIOUS
        <3>2. Below(x) \in T
            BY <3>1
        <3> QED
            BY <3>2
    <2> HIDE DEF T
    <2> QED
        BY <2>2, <2>3, <2>4
<1>2. PICK B \in T : \A C \in T : ~(<<C, B>> \in StrictSubsetOrdering(S))
    <2> HIDE DEF T
    <2>1. IsWellFoundedOn(StrictSubsetOrdering(S), FiniteSubsetsOf(S))
        BY FS_StrictSubsetOrderingWellFounded
    <2> QED BY <1>1, <2>1, WFMin
<1>3. PICK v \in S : B = Below(v)
    BY <1>2
<1>4. ASSUME NEW b \in S, <<b, v>> \in R
      PROVE  FALSE
    <2>1. Below(b) \subseteq Below(v) /\ b \in Below(v) /\ b \notin Below(b)
        BY <1>4
    <2>2. <<Below(b), Below(v)>> \in StrictSubsetOrdering(S)
        BY <2>1 DEF StrictSubsetOrdering
    <2> QED BY <1>2, <1>3, <2>2
<1> QED
    BY <1>4

-------------------------------------------------------------------------------
(***************************************************************************)
(* A new pool is sound, and takes nothing.                                 *)
(***************************************************************************)
LEMMA EmptyPoolSound ==
    ASSUME NEW policy \in Policies
    PROVE  /\ SoundPool(EmptyPool(policy))
           /\ EmptyPool(policy).used = 0
           /\ Gross(EmptyPool(policy)) = 0
           /\ Held(EmptyPool(policy)) = {}
<1>1. /\ Held(EmptyPool(policy)) = {}
      /\ Footprint(EmptyPool(policy).blocks) = {}
      /\ Lent(EmptyPool(policy).blocks) = {}
    BY DEF Held, EmptyPool, Footprint, Lent
<1>2. IsFiniteSet({}) /\ Cardinality({}) = 0
    BY FS_EmptySet
<1>3. IsPool(EmptyPool(policy))
    BY DEF IsPool, EmptyPool, Block
<1>4. EmptyPool(policy).used = 0
    BY DEF EmptyPool
<1>5. Taken(EmptyPool(policy)) = 0 /\ Gross(EmptyPool(policy)) = 0
    BY <1>1, <1>2 DEF Taken, Gross
<1> QED
    BY <1>1, <1>2, <1>3, <1>4, <1>5 DEF SoundPool

(***************************************************************************)
(* What a sound pool says of one of its blocks.                            *)
(***************************************************************************)
LEMMA SoundBlocks ==
    ASSUME NEW pool, SoundPool(pool)
    PROVE  /\ pool.used \in Int /\ Gross(pool) \in Nat /\ Owed(pool) \in Nat
           /\ pool.used = Gross(pool) - Owed(pool)
           /\ IsFiniteSet(Footprint(pool.blocks)) /\ IsFiniteSet(Lent(pool.blocks))
           /\ \A b \in Held(pool) : pool.blocks[b] \in Block
<1>1. \A b \in Held(pool) : pool.blocks[b] \in Block
    BY DEF SoundPool, IsPool, Held
<1>2. \A b \in DOMAIN pool.blocks : pool.blocks[b].size \in Int
    BY <1>1 DEF Held, Block
<1>3. IsFiniteSet(Footprint(pool.blocks)) /\ IsFiniteSet(Lent(pool.blocks))
    BY <1>2, FootprintFinite DEF SoundPool, Held
<1>4. Gross(pool) \in Nat /\ Owed(pool) \in Nat
    BY <1>3, FS_CardinalityType DEF Gross, Owed
<1> QED
    BY <1>1, <1>3, <1>4 DEF SoundPool, Taken, Gross, Owed

(***************************************************************************)
(* Where no block is below zero, used is what the blocks take.             *)
(***************************************************************************)
LEMMA NothingOwed ==
    ASSUME NEW pool, SoundPool(pool), NoneLends(pool)
    PROVE  pool.used = Gross(pool) /\ pool.used \in Nat
<1>1. \A b \in DOMAIN pool.blocks : pool.blocks[b].size \in Int /\ pool.blocks[b].size >= 0
    BY SoundBlocks DEF NoneLends, Held, Block
<1>2. \A b \in DOMAIN pool.blocks : 1..(-pool.blocks[b].size) = {}
    BY <1>1
<1>3. Lent(pool.blocks) = {}
    BY <1>2 DEF Lent
<1>4. Owed(pool) = 0
    BY <1>3, FS_EmptySet DEF Owed
<1> QED
    BY <1>4, SoundBlocks

(***************************************************************************)
(* Removing a block gives back exactly its size.                           *)
(***************************************************************************)
LEMMA DropSound ==
    ASSUME NEW pool, SoundPool(pool), NEW b \in Held(pool)
    PROVE  /\ SoundPool(Drop(pool, b))
           /\ Held(Drop(pool, b)) = Held(pool) \ {b}
           /\ Drop(pool, b).used = pool.used - pool.blocks[b].size
           /\ NoneLends(pool) => NoneLends(Drop(pool, b)) /\ Drop(pool, b).used <= pool.used
           /\ Gross(Drop(pool, b)) <= Gross(pool)
           /\ Drop(pool, b).evictions = pool.evictions
           /\ Drop(pool, b).policy = pool.policy
           /\ Drop(pool, b).allocs = pool.allocs
           /\ \A x \in Held(pool) \ {b} : Drop(pool, b).blocks[x] = pool.blocks[x]
<1> DEFINE next == Drop(pool, b)
           n == pool.blocks[b].size
           F == Footprint(pool.blocks)
           L == Lent(pool.blocks)
<1>1. /\ DOMAIN next = DOMAIN pool
      /\ next.blocks = [x \in Held(pool) \ {b} |-> pool.blocks[x]]
      /\ next.used = pool.used - n
      /\ next.evictions = pool.evictions
      /\ next.oom = pool.oom
      /\ next.allocs = pool.allocs
      /\ next.policy = pool.policy
    BY DEF Drop, Restrict, SoundPool, IsPool, Held
<1>2. n \in Int /\ pool.used \in Int /\ IsFiniteSet(F) /\ IsFiniteSet(L)
    BY SoundBlocks DEF Block
<1>3. IsPool(next) /\ Held(next) = Held(pool) \ {b}
    BY <1>1, <1>2 DEF SoundPool, IsPool, Held
<1>4. IsFiniteSet(Held(next))
    BY <1>3, FS_RemoveElement DEF SoundPool
<1>5. /\ Footprint(next.blocks) = F \ Column(b, n)
      /\ Lent(next.blocks) = L \ Column(b, -n)
    <2>1. Footprint(next.blocks) = F \ Column(b, n)
        BY <1>1 DEF Footprint, Column, Held
    <2>2. Lent(next.blocks) = L \ Column(b, -n)
        BY <1>1 DEF Lent, Column, Held
    <2> QED BY <2>1, <2>2
<1>6. Column(b, n) \subseteq F /\ Column(b, -n) \subseteq L
    BY DEF Footprint, Lent, Column, Held
<1>7. /\ Gross(next) = Gross(pool) - Cardinality(Column(b, n))
      /\ Owed(next) = Owed(pool) - Cardinality(Column(b, -n))
    <2> HIDE DEF F, L
    <2>1. /\ Cardinality(F \ Column(b, n)) = Cardinality(F) - Cardinality(Column(b, n))
          /\ Cardinality(L \ Column(b, -n)) = Cardinality(L) - Cardinality(Column(b, -n))
        BY <1>2, <1>6, RemoveColumn
    <2> QED BY <1>5, <2>1 DEF Gross, Owed, F, L
<1>8. /\ Cardinality(Column(b, n)) = IF n >= 0 THEN n ELSE 0
      /\ Cardinality(Column(b, -n)) = IF -n >= 0 THEN -n ELSE 0
    <2> HIDE DEF n
    <2> QED BY <1>2, ColumnSize
<1>9. next.used = Taken(next) /\ Gross(next) <= Gross(pool)
    <2> HIDE DEF n, next
    <2>1. /\ pool.used = Gross(pool) - Owed(pool)
          /\ Gross(pool) \in Nat /\ Owed(pool) \in Nat
        BY SoundBlocks
    <2>2. next.used = Gross(next) - Owed(next) /\ Gross(next) <= Gross(pool)
        BY <1>1, <1>2, <1>7, <1>8, <2>1
    <2> QED BY <2>2 DEF Taken, Gross, Owed
<1>10. NoneLends(pool) => NoneLends(next) /\ next.used <= pool.used
    BY <1>1, <1>2, <1>3 DEF NoneLends
<1> QED
    BY <1>1, <1>2, <1>3, <1>4, <1>9, <1>10 DEF SoundPool

(***************************************************************************)
(* free, and the first step of allocate.                                   *)
(***************************************************************************)
LEMMA ReleaseSound ==
    ASSUME NEW pool, SoundPool(pool), NEW b
    PROVE  /\ SoundPool(Release(pool, b))
           /\ Held(Release(pool, b)) = Held(pool) \ {b}
           /\ NoneLends(pool) => NoneLends(Release(pool, b)) /\ Release(pool, b).used <= pool.used
           /\ Gross(Release(pool, b)) <= Gross(pool)
           /\ Release(pool, b).evictions = pool.evictions
           /\ Release(pool, b).policy = pool.policy
           /\ Release(pool, b).allocs = pool.allocs
           /\ \A x \in Held(pool) \ {b} : Release(pool, b).blocks[x] = pool.blocks[x]
<1>1. pool.used \in Int /\ Gross(pool) \in Nat
    BY SoundBlocks
<1> QED
    BY <1>1, DropSound DEF Release

(***************************************************************************)
(* Evicting a block counts it and gives back its size.                     *)
(***************************************************************************)
LEMMA EvictSound ==
    ASSUME NEW pool, SoundPool(pool), NEW v \in Held(pool)
    PROVE  /\ SoundPool(Evict(pool, v))
           /\ Held(Evict(pool, v)) = Held(pool) \ {v}
           /\ NoneLends(pool) => NoneLends(Evict(pool, v)) /\ Evict(pool, v).used <= pool.used
           /\ Gross(Evict(pool, v)) <= Gross(pool)
           /\ Evict(pool, v).evictions = pool.evictions + 1
           /\ Evict(pool, v).policy = pool.policy
           /\ Evict(pool, v).allocs = pool.allocs
           /\ \A x \in Held(pool) \ {v} : Evict(pool, v).blocks[x] = pool.blocks[x]
<1> DEFINE next == Evict(pool, v)
           d == Drop(pool, v)
<1>1. /\ SoundPool(d) /\ d.evictions = pool.evictions
      /\ d.policy = pool.policy /\ d.allocs = pool.allocs
    BY DropSound
<1>2. /\ DOMAIN next = DOMAIN d /\ next.blocks = d.blocks /\ next.used = d.used
      /\ next.oom = d.oom /\ next.allocs = d.allocs /\ next.policy = d.policy
      /\ next.evictions = pool.evictions + 1
    BY <1>1 DEF Evict, SoundPool, IsPool
<1>3. SoundPool(next)
    BY <1>1, <1>2 DEF SoundPool, IsPool, Held, Taken
<1>4. Held(next) = Held(d) /\ Gross(next) = Gross(d) /\ (NoneLends(next) <=> NoneLends(d))
    BY <1>2 DEF Held, Gross, NoneLends
<1> QED
    BY <1>1, <1>2, <1>3, <1>4, DropSound

(***************************************************************************)
(* Entering a block of an absent id adds exactly its size.                 *)
(***************************************************************************)
LEMMA InsertSound ==
    ASSUME NEW pool, SoundPool(pool), NEW b \in KvIds, b \notin Held(pool),
           NEW size \in Int, NEW now \in Int
    PROVE  /\ SoundPool(Insert(pool, b, size, now))
           /\ Held(Insert(pool, b, size, now)) = Held(pool) \cup {b}
           /\ Insert(pool, b, size, now).used = pool.used + size
           /\ Gross(Insert(pool, b, size, now)) = IF size >= 0 THEN Gross(pool) + size
                                                  ELSE Gross(pool)
           /\ Insert(pool, b, size, now).blocks[b].size = size
           /\ Insert(pool, b, size, now).evictions = pool.evictions
           /\ Insert(pool, b, size, now).policy = pool.policy
           /\ Insert(pool, b, size, now).allocs = pool.allocs + 1
           /\ Insert(pool, b, size, now).blocks[b].last = now
           /\ Insert(pool, b, size, now).blocks[b].created = now
           /\ Insert(pool, b, size, now).blocks[b].pos = pool.allocs
           /\ \A x \in Held(pool) : Insert(pool, b, size, now).blocks[x] = pool.blocks[x]
<1> DEFINE next == Insert(pool, b, size, now)
           blk == [size |-> size, created |-> now, last |-> now, pos |-> pool.allocs]
           F == Footprint(pool.blocks)
           L == Lent(pool.blocks)
<1>1. /\ DOMAIN next = DOMAIN pool
      /\ next.blocks = [x \in Held(pool) \cup {b} |->
                            IF x = b THEN blk ELSE pool.blocks[x]]
      /\ next.used = pool.used + size
      /\ next.evictions = pool.evictions
      /\ next.oom = pool.oom
      /\ next.allocs = pool.allocs + 1
      /\ next.policy = pool.policy
    BY DEF Insert, SoundPool, IsPool, Held
<1>2. blk \in Block /\ pool.used \in Int /\ IsFiniteSet(F) /\ IsFiniteSet(L)
    BY SoundBlocks DEF Block, SoundPool, IsPool
<1>3. IsPool(next) /\ Held(next) = Held(pool) \cup {b}
    <2>1. \A x \in Held(pool) : pool.blocks[x] \in Block
        BY SoundBlocks
    <2>2. next.blocks \in [Held(pool) \cup {b} -> Block]
        BY <1>1, <1>2, <2>1
    <2> QED
        BY <1>1, <1>2, <2>2 DEF SoundPool, IsPool, Held
<1>4. IsFiniteSet(Held(next))
    BY <1>3, FS_AddElement DEF SoundPool
<1>5. /\ Footprint(next.blocks) = F \cup Column(b, size)
      /\ Lent(next.blocks) = L \cup Column(b, -size)
    BY <1>1 DEF Footprint, Lent, Column, Held
<1>6. Column(b, size) \cap F = {} /\ Column(b, -size) \cap L = {}
    BY DEF Footprint, Lent, Column, Held
<1>7. /\ Gross(next) = Gross(pool) + Cardinality(Column(b, size))
      /\ Owed(next) = Owed(pool) + Cardinality(Column(b, -size))
    <2> HIDE DEF F, L
    <2>1. /\ Cardinality(F \cup Column(b, size)) = Cardinality(F) + Cardinality(Column(b, size))
          /\ Cardinality(L \cup Column(b, -size)) = Cardinality(L) + Cardinality(Column(b, -size))
        BY <1>2, <1>6, AddColumn
    <2> QED BY <1>5, <2>1 DEF Gross, Owed, F, L
<1>8. /\ Cardinality(Column(b, size)) = IF size >= 0 THEN size ELSE 0
      /\ Cardinality(Column(b, -size)) = IF -size >= 0 THEN -size ELSE 0
    BY ColumnSize
<1>9. /\ next.used = Taken(next)
      /\ Gross(next) = IF size >= 0 THEN Gross(pool) + size ELSE Gross(pool)
    <2> HIDE DEF next
    <2>1. /\ pool.used = Gross(pool) - Owed(pool)
          /\ Gross(pool) \in Nat /\ Owed(pool) \in Nat
        BY SoundBlocks
    <2>2. /\ next.used = Gross(next) - Owed(next)
          /\ Gross(next) = IF size >= 0 THEN Gross(pool) + size ELSE Gross(pool)
        BY <1>1, <1>7, <1>8, <2>1
    <2> QED BY <2>2 DEF Taken, Gross, Owed
<1> QED
    BY <1>1, <1>3, <1>4, <1>9 DEF SoundPool

(***************************************************************************)
(* touch changes a time stamp and nothing else.                            *)
(***************************************************************************)
LEMMA TouchSound ==
    ASSUME NEW pool, SoundPool(pool), NEW b \in Held(pool), NEW now \in Int
    PROVE  /\ SoundPool(Touch(pool, b, now))
           /\ Held(Touch(pool, b, now)) = Held(pool)
           /\ Touch(pool, b, now).used = pool.used
           /\ Gross(Touch(pool, b, now)) = Gross(pool)
           /\ \A x \in Held(pool) : Touch(pool, b, now).blocks[x].size = pool.blocks[x].size
           /\ Touch(pool, b, now).evictions = pool.evictions
           /\ Touch(pool, b, now).policy = pool.policy
           /\ Touch(pool, b, now).allocs = pool.allocs
           /\ Touch(pool, b, now).blocks[b].last = now
           /\ \A x \in Held(pool) \ {b} : Touch(pool, b, now).blocks[x] = pool.blocks[x]
<1> DEFINE next == Touch(pool, b, now)
<1>1. /\ DOMAIN next = DOMAIN pool
      /\ next.blocks = [pool.blocks EXCEPT ![b].last = now]
      /\ next.used = pool.used
      /\ next.evictions = pool.evictions
      /\ next.oom = pool.oom
      /\ next.allocs = pool.allocs
      /\ next.policy = pool.policy
    BY DEF Touch, SoundPool, IsPool, Held
<1>2. \A x \in Held(pool) : pool.blocks[x] \in Block
    BY SoundBlocks
<1>3. /\ DOMAIN next.blocks = Held(pool)
      /\ \A x \in Held(pool) : /\ next.blocks[x] \in Block
                               /\ next.blocks[x].size = pool.blocks[x].size
    BY <1>1, <1>2 DEF Held, Block
<1>4. IsPool(next)
    <2>1. next.blocks \in [Held(pool) -> Block]
        BY <1>1, <1>3
    <2> QED BY <1>1, <1>3, <2>1 DEF SoundPool, IsPool, Held
<1>5. /\ Footprint(next.blocks) = Footprint(pool.blocks)
      /\ Lent(next.blocks) = Lent(pool.blocks)
    BY <1>3 DEF Footprint, Lent, Held
<1>6. SoundPool(next) /\ Held(next) = Held(pool) /\ Gross(next) = Gross(pool)
    BY <1>1, <1>3, <1>4, <1>5 DEF SoundPool, Held, Taken, Gross
<1>7. /\ next.blocks[b].last = now
      /\ \A x \in Held(pool) \ {b} : next.blocks[x] = pool.blocks[x]
    BY <1>1, <1>2 DEF Held, Block
<1> QED
    BY <1>1, <1>3, <1>6, <1>7

(***************************************************************************)
(* In particular it leaves the age of every block alone.                   *)
(***************************************************************************)
LEMMA TouchKeepsAges ==
    ASSUME NEW pool, SoundPool(pool), NEW b \in Held(pool), NEW now \in Int
    PROVE  \A x \in Held(pool) :
                /\ Touch(pool, b, now).blocks[x].created = pool.blocks[x].created
                /\ Touch(pool, b, now).blocks[x].pos = pool.blocks[x].pos
<1>1. Touch(pool, b, now).blocks = [pool.blocks EXCEPT ![b].last = now]
    BY DEF Touch, SoundPool, IsPool, Held
<1>2. \A x \in Held(pool) : pool.blocks[x] \in Block
    BY SoundBlocks
<1> QED
    BY <1>1, <1>2 DEF Held, Block

(***************************************************************************)
(* Giving up on an allocation changes a counter and nothing else.          *)
(***************************************************************************)
LEMMA CountOomSound ==
    ASSUME NEW pool, SoundPool(pool)
    PROVE  /\ SoundPool(CountOom(pool))
           /\ CountOom(pool).blocks = pool.blocks
           /\ CountOom(pool).used = pool.used
           /\ CountOom(pool).evictions = pool.evictions
           /\ CountOom(pool).policy = pool.policy
           /\ CountOom(pool).allocs = pool.allocs
<1>1. /\ DOMAIN CountOom(pool) = DOMAIN pool
      /\ CountOom(pool).blocks = pool.blocks
      /\ CountOom(pool).used = pool.used
      /\ CountOom(pool).evictions = pool.evictions
      /\ CountOom(pool).oom = pool.oom + 1
      /\ CountOom(pool).allocs = pool.allocs
      /\ CountOom(pool).policy = pool.policy
    BY DEF CountOom, SoundPool, IsPool
<1> QED
    BY <1>1 DEF SoundPool, IsPool, Held, Taken

(***************************************************************************)
(* The other operators leave that counter alone.                           *)
(***************************************************************************)
LEMMA OnlyFailuresCount ==
    ASSUME NEW pool, SoundPool(pool)
    PROVE  /\ \A b : Release(pool, b).oom = pool.oom
           /\ \A v \in Held(pool) : Evict(pool, v).oom = pool.oom
           /\ \A b, size, now : Insert(pool, b, size, now).oom = pool.oom
           /\ \A b \in Held(pool), now \in Int : Touch(pool, b, now).oom = pool.oom
<1> USE DEF SoundPool, IsPool
<1>1. \A b : Drop(pool, b).oom = pool.oom /\ DOMAIN Drop(pool, b) = DOMAIN pool
    BY DEF Drop
<1> QED
    BY <1>1 DEF Release, Evict, Insert, Touch

-------------------------------------------------------------------------------
(***************************************************************************)
(* What a step does to the units of the pool: no block more and no unit    *)
(* more, or one block more, for which there was room.                      *)
(***************************************************************************)
NothingMore(pool, next) ==
    /\ Gross(next) <= Gross(pool)
    /\ \A x \in Held(next) :
        x \in Held(pool) /\ next.blocks[x].size = pool.blocks[x].size

OneMore(pool, next, b, size) ==
    /\ Gross(next) <= Gross(pool) \/ Gross(next) <= TotalMB + Owed(pool)
    /\ \A x \in Held(next) :
        \/ x \in Held(pool) /\ next.blocks[x].size = pool.blocks[x].size
        \/ x = b /\ next.blocks[x].size = size

(***************************************************************************)
(* No operator but Insert adds anything.                                   *)
(***************************************************************************)
LEMMA NothingTaken ==
    ASSUME NEW pool, SoundPool(pool)
    PROVE  /\ NothingMore(pool, pool)
           /\ NothingMore(pool, CountOom(pool))
           /\ \A b : NothingMore(pool, Release(pool, b))
           /\ \A v \in Held(pool) : NothingMore(pool, Evict(pool, v))
           /\ \A b \in Held(pool), now \in Int : NothingMore(pool, Touch(pool, b, now))
<1>0. Gross(pool) \in Nat
    BY SoundBlocks
<1>1. NothingMore(pool, pool)
    BY <1>0 DEF NothingMore
<1>2. NothingMore(pool, CountOom(pool))
    BY <1>0, CountOomSound DEF NothingMore, Gross, Held
<1>3. ASSUME NEW b PROVE NothingMore(pool, Release(pool, b))
    BY <1>0, ReleaseSound DEF NothingMore
<1>4. ASSUME NEW v \in Held(pool) PROVE NothingMore(pool, Evict(pool, v))
    BY <1>0, EvictSound DEF NothingMore
<1>5. ASSUME NEW b \in Held(pool), NEW now \in Int
      PROVE  NothingMore(pool, Touch(pool, b, now))
    BY <1>0, TouchSound DEF NothingMore
<1> QED
    BY <1>1, <1>2, <1>3, <1>4, <1>5

(***************************************************************************)
(* Insert adds its block.  The loop compares used with the pool, so what   *)
(* all blocks take may pass the pool by what some of them lend.            *)
(***************************************************************************)
LEMMA RoomTaken ==
    ASSUME NEW pool, SoundPool(pool), NEW b \in KvIds, b \notin Held(pool),
           NEW size \in Int, HasRoom(pool, size), NEW now \in Int
    PROVE  OneMore(pool, Insert(pool, b, size, now), b, size)
<1> DEFINE next == Insert(pool, b, size, now)
<1>1. /\ Gross(next) = IF size >= 0 THEN Gross(pool) + size ELSE Gross(pool)
      /\ Held(next) = Held(pool) \cup {b}
      /\ next.blocks[b].size = size
      /\ \A x \in Held(pool) : next.blocks[x] = pool.blocks[x]
    BY InsertSound
<1>2. /\ Gross(pool) \in Nat /\ Owed(pool) \in Nat
      /\ pool.used = Gross(pool) - Owed(pool)
    BY SoundBlocks
<1>3. Gross(pool) - Owed(pool) + size <= TotalMB
    BY <1>2 DEF HasRoom
<1> HIDE DEF next
<1>4. Gross(next) <= Gross(pool) \/ Gross(next) <= TotalMB + Owed(pool)
    BY <1>1, <1>2, <1>3, PoolAssumption
<1> QED
    BY <1>1, <1>4 DEF OneMore, next

(***************************************************************************)
(* If every block below zero is one of those asked for, and no two are the *)
(* same one, the blocks lend no more than was asked for.                   *)
(***************************************************************************)
LEMMA LentIsAsked ==
    ASSUME NEW blocks, NEW asks, IsFiniteSet(DOMAIN asks),
           \A r \in DOMAIN asks : asks[r].size \in Int,
           \A b \in DOMAIN blocks : blocks[b].size \in Int,
           NEW id,
           \A b \in DOMAIN blocks :
                \/ blocks[b].size >= 0
                \/ \E r \in DOMAIN asks : id[r] = b /\ asks[r].size = blocks[b].size
    PROVE  Cardinality(Lent(blocks)) <= Cardinality(Lent(asks))
<1> DEFINE Owner(b) == CHOOSE r \in DOMAIN asks : id[r] = b /\ asks[r].size = blocks[b].size
           f == [u \in Lent(blocks) |-> <<Owner(u[1]), u[2]>>]
<1>1. ASSUME NEW u \in Lent(blocks)
      PROVE  /\ u = <<u[1], u[2]>>
             /\ Owner(u[1]) \in DOMAIN asks /\ id[Owner(u[1])] = u[1]
             /\ f[u] \in Lent(asks)
    <2>1. PICK b \in DOMAIN blocks : u \in {b} \X (1..(-blocks[b].size))
        BY DEF Lent
    <2>2. u = <<u[1], u[2]>> /\ u[1] = b /\ u[2] \in 1..(-blocks[b].size)
        BY <2>1
    <2>3. \E r \in DOMAIN asks : id[r] = b /\ asks[r].size = blocks[b].size
        BY <2>2
    <2>4. Owner(b) \in DOMAIN asks /\ id[Owner(b)] = b /\ asks[Owner(b)].size = blocks[b].size
        BY <2>3
    <2> HIDE DEF Owner
    <2>5. <<Owner(b), u[2]>> \in {Owner(b)} \X (1..(-asks[Owner(b)].size))
        BY <2>2, <2>4
    <2>6. <<Owner(b), u[2]>> \in Lent(asks)
        BY <2>4, <2>5 DEF Lent
    <2> QED
        BY <2>2, <2>4, <2>6
<1>2. f \in [Lent(blocks) -> Lent(asks)]
    <2> HIDE DEF Owner
    <2> QED BY <1>1
<1>3. ASSUME NEW u \in Lent(blocks), NEW w \in Lent(blocks), f[u] = f[w]
      PROVE  u = w
    <2> HIDE DEF Owner
    <2>1. Owner(u[1]) = Owner(w[1]) /\ u[2] = w[2]
        BY <1>3
    <2> QED
        BY <1>1, <2>1
<1>4. f \in Injection(Lent(blocks), Lent(asks))
    <2> HIDE DEF f
    <2> QED BY <1>2, <1>3 DEF Injection, IsInjective
<1>5. IsFiniteSet(Lent(asks))
    BY FootprintFinite
<1> QED
    <2> HIDE DEF f
    <2> QED BY <1>4, <1>5, FS_Injection

-------------------------------------------------------------------------------
(***************************************************************************)
(* _pick_victim finds a block whenever the policy evicts and there is one: *)
(* stamps, with the dictionary order among equals, order the blocks.       *)
(***************************************************************************)
LEMMA VictimExists ==
    ASSUME NEW pool, SoundPool(pool), pool.policy # "none", Held(pool) # {}
    PROVE  Victims(pool) # {}
<1> DEFINE blk(b) == pool.blocks[b]
           R == {p \in Held(pool) \X Held(pool) :
                    ~Before(pool.policy, blk(p[2]), blk(p[1]))}
<1>1. \A b \in Held(pool) : /\ Stamp(pool.policy, blk(b)) \in Int
                            /\ blk(b).pos \in Nat
    BY SoundBlocks DEF Stamp, Block
<1>2. \A x, y \in Held(pool) : <<x, y>> \in R <=> ~Before(pool.policy, blk(y), blk(x))
    OBVIOUS
<1>3. \A x \in Held(pool) : <<x, x>> \notin R
    BY <1>1, <1>2 DEF Before
<1>4. \A x, y, z \in Held(pool) :
        <<x, y>> \in R /\ <<y, z>> \in R => <<x, z>> \in R
    <2> HIDE DEF R
    <2> QED BY <1>1, <1>2 DEF Before
<1>5. PICK v \in Held(pool) : \A b \in Held(pool) : <<b, v>> \notin R
    <2> HIDE DEF R
    <2> QED BY <1>3, <1>4, FiniteOrderHasMinimum DEF SoundPool
<1> QED
    BY <1>2, <1>5 DEF Victims

(***************************************************************************)
(* A pool with nothing in it has room for every block that is not larger   *)
(* than the pool.                                                          *)
(***************************************************************************)
LEMMA EmptyHasRoom ==
    ASSUME NEW pool, SoundPool(pool), Held(pool) = {},
           NEW size \in Int, size <= TotalMB
    PROVE  HasRoom(pool, size)
<1>1. Footprint(pool.blocks) = {} /\ Lent(pool.blocks) = {}
    BY DEF Footprint, Lent, Held
<1>2. pool.used = 0
    BY <1>1, FS_EmptySet DEF SoundPool, Taken
<1> QED
    BY <1>2 DEF HasRoom
===============================================================================
