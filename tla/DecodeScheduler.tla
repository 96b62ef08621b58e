---------------------------- MODULE DecodeScheduler ----------------------------
(***************************************************************************)
(* common/batching.py: the continuous-batching loop of a decode node and   *)
(* the memory pool it admits sequences into.                               *)
(*                                                                         *)
(* The loop is one asyncio task.  Its only suspension points are the two   *)
(* sleeps: put on an unbounded asyncio.Queue never waits.  So requests are *)
(* submitted, and the task is cancelled, only while it sleeps; what lies   *)
(* between two sleeps is several steps here only because it loops over the *)
(* queue, the victims and the batch.                                       *)
(***************************************************************************)
EXTENDS KVPool, Sequences

CONSTANTS
    Reqs,           \* decode requests
    KvOf,           \* KvOf[r]: req.kv_cache_id
    SizeOf,         \* SizeOf[r]: req.kv_size_mb, in units, any integer
    MaxTok,         \* MaxTok[r]: req.max_tokens, any integer
    DefaultTok,     \* Settings.max_tokens_default
    MaxBatch,       \* Settings.max_batch_size
    Ticks           \* what time.time() may gain between two readings

ASSUME SchedulerAssumption ==
    /\ \A r \in Reqs : KvOf[r] \in KvIds
    /\ SizeOf \in [Reqs -> Int]
    /\ MaxTok \in [Reqs -> Int]
    /\ DefaultTok \in Nat \ {0}
    /\ MaxBatch \in Nat \ {0}
    /\ Ticks \subseteq Int

VARIABLES
    pc,         \* where the loop is: "admit", "asleep", "emit" or "stopped"
    waiting,    \* _waiting: the queue of submitted requests
    taken,      \* the request inside memory.allocate, if any
    active,     \* the keys of _active
    ticket,     \* ticket[r]: place of r in the order of the _active dictionary
    todo,       \* members of the batch the current pass has not reached yet
    gen,        \* gen[r]: seq.generated
    out,        \* out[r]: the chunks put on seq.out_queue so far
    pool,       \* the node's MemorySimulator
    clock       \* the latest reading of time.time()

vars == <<pc, waiting, taken, active, ticket, todo, gen, out, pool, clock>>

\* max_tokens as submit() stores it: "or" takes 0 for absent.
Goal(r) == IF MaxTok[r] = 0 THEN DefaultTok ELSE MaxTok[r]

Final(index, reason) == [index |-> index, finish |-> reason]

\* A request is closed once its queue carries a finish_reason.
Closed(r) == \E i \in DOMAIN out[r] : out[r][i].finish # "none"

Put(r, chunks) == out' = [out EXCEPT ![r] = @ \o chunks]

\* The first member of S in the order of the _active dictionary.
IsFirst(r, S) == r \in S /\ \A s \in S : ticket[r] <= ticket[s]

Submitted(r) ==
    \/ r \in taken \cup active
    \/ \E i \in DOMAIN waiting : waiting[i] = r
    \/ Closed(r)

Init ==
    /\ pc = "admit"
    /\ waiting = <<>>
    /\ taken = {}
    /\ active = {}
    /\ ticket = [r \in Reqs |-> 0]
    /\ todo = {}
    /\ gen = [r \in Reqs |-> 0]
    /\ out = [r \in Reqs |-> <<>>]
    /\ \E policy \in Policies : pool = EmptyPool(policy)
    /\ clock = 0

-------------------------------------------------------------------------------
(***************************************************************************)
(* Plausible slips, each used by a mutant of the definition it is named    *)
(* after: the index read before the increment, a batch one too large, a    *)
(* rejected sequence seated all the same, no token for a sequence whose    *)
(* block is gone, a block never given back.                                *)
(***************************************************************************)
TokenOffByOne(r) == [index |-> gen[r] - 1, finish |-> "none"]

CanAdmitOneMore == waiting # <<>> /\ Cardinality(active) <= MaxBatch

AdmitRejectSeated(r) ==
    /\ ~HasRoom(pool, SizeOf[r])
    /\ Victims(pool) = {}
    /\ pool' = CountOom(pool)
    /\ taken' = {}
    /\ active' = active \cup {r}
    /\ UNCHANGED <<pc, waiting, ticket, todo, gen, out, clock>>

EmitIfHeld(r) ==
    /\ pc = "emit"
    /\ IsFirst(r, todo)
    /\ todo' = todo \ {r}
    /\ IF KvOf[r] \in Held(pool)
       THEN /\ gen' = [gen EXCEPT ![r] = @ + 1]
            /\ Put(r, IF gen[r] + 1 >= Goal(r)
                      THEN <<[index |-> gen[r], finish |-> "none"],
                             Final(gen[r] + 1, "length")>>
                      ELSE <<[index |-> gen[r], finish |-> "none"]>>)
       ELSE UNCHANGED <<gen, out>>
    /\ UNCHANGED <<pc, waiting, taken, active, ticket, pool, clock>>

RetireKeepingBlock(r) ==
    /\ pc = "emit" /\ todo = {}
    /\ IsFirst(r, {s \in active : Closed(s)})
    /\ active' = active \ {r}
    /\ UNCHANGED <<pc, waiting, taken, ticket, todo, gen, out, pool, clock>>

-------------------------------------------------------------------------------
\* submit(), called by the HTTP handlers while the loop sleeps -- or after
\* stop(): it does not look whether anybody will serve the queue.
Submit(r) ==
    /\ pc \in {"asleep", "stopped"}
    /\ ~Submitted(r)
    /\ waiting' = Append(waiting, r)
    /\ UNCHANGED <<pc, taken, active, ticket, todo, gen, out, pool, clock>>

-------------------------------------------------------------------------------
(***************************************************************************)
(* _admit.                                                                 *)
(***************************************************************************)
Admitting == pc = "admit" /\ taken = {}

CanAdmit == waiting # <<>> /\ Cardinality(active) < MaxBatch

\* The head of the queue is larger than the whole pool.
AdmitTooBig ==
    /\ Admitting /\ CanAdmit
    /\ SizeOf[Head(waiting)] > TotalMB
    /\ waiting' = Tail(waiting)
    /\ pool' = CountOom(pool)
    /\ Put(Head(waiting), <<Final(0, "oom")>>)
    /\ UNCHANGED <<pc, taken, active, ticket, todo, gen, clock>>

\* allocate starts by dropping the block of the same id.
AdmitTake ==
    /\ Admitting /\ CanAdmit
    /\ SizeOf[Head(waiting)] <= TotalMB
    /\ waiting' = Tail(waiting)
    /\ taken' = {Head(waiting)}
    /\ pool' = Release(pool, KvOf[Head(waiting)])
    /\ UNCHANGED <<pc, active, ticket, todo, gen, out, clock>>

\* allocate makes room.
AdmitEvict(r) ==
    /\ ~HasRoom(pool, SizeOf[r])
    /\ \E v \in Victims(pool) : pool' = Evict(pool, v)
    /\ UNCHANGED <<pc, waiting, taken, active, ticket, todo, gen, out, clock>>

\* allocate gives up: the sequence is rejected.
AdmitReject(r) ==
    /\ ~HasRoom(pool, SizeOf[r])
    /\ Victims(pool) = {}
    /\ pool' = CountOom(pool)
    /\ taken' = {}
    /\ Put(r, <<Final(0, "oom")>>)
    /\ UNCHANGED <<pc, waiting, active, ticket, todo, gen, clock>>

\* The sequence joins the batch.
AdmitSeat(r) ==
    /\ HasRoom(pool, SizeOf[r])
    /\ \E tick \in Ticks :
        /\ clock' = clock + tick
        /\ pool' = Insert(pool, KvOf[r], SizeOf[r], clock + tick)
    /\ taken' = {}
    /\ active' = active \cup {r}
    /\ ticket' = [ticket EXCEPT ![r] = pool.allocs]
    /\ UNCHANGED <<pc, waiting, todo, gen, out>>

\* The queue is empty or the batch full: sleep, idle or for one step.
AdmitDone ==
    /\ Admitting /\ ~CanAdmit
    /\ pc' = "asleep"
    /\ UNCHANGED <<waiting, taken, active, ticket, todo, gen, out, pool, clock>>

-------------------------------------------------------------------------------
(***************************************************************************)
(* The rest of _run.                                                       *)
(***************************************************************************)

\* The idle sleep ends; while it lasted _active was empty.
WakeIdle ==
    /\ pc = "asleep" /\ active = {}
    /\ pc' = "admit"
    /\ UNCHANGED <<waiting, taken, active, ticket, todo, gen, out, pool, clock>>

\* The sleep of one simulated forward pass ends.
WakeStep ==
    /\ pc = "asleep" /\ active # {}
    /\ pc' = "emit"
    /\ todo' = active
    /\ UNCHANGED <<waiting, taken, active, ticket, gen, out, pool, clock>>

\* touch() of a block that was evicted does nothing, and nobody looks.
TouchBlock(b) ==
    IF b \in Held(pool)
    THEN \E tick \in Ticks :
            /\ clock' = clock + tick
            /\ pool' = Touch(pool, b, clock + tick)
    ELSE UNCHANGED <<pool, clock>>

Token(r) == [index |-> gen[r], finish |-> "none"]

\* One token to the next member of the batch, and its final chunk if due.
Emit(r) ==
    /\ pc = "emit"
    /\ IsFirst(r, todo)
    /\ todo' = todo \ {r}
    /\ TouchBlock(KvOf[r])
    /\ gen' = [gen EXCEPT ![r] = @ + 1]
    /\ Put(r, IF gen[r] + 1 >= Goal(r)
              THEN <<Token(r), Final(gen[r] + 1, "length")>>
              ELSE <<Token(r)>>)
    /\ UNCHANGED <<pc, waiting, taken, active, ticket>>

\* A finished sequence leaves the batch and gives its block back.
Retire(r) ==
    /\ pc = "emit" /\ todo = {}
    /\ IsFirst(r, {s \in active : Closed(s)})
    /\ active' = active \ {r}
    /\ pool' = Release(pool, KvOf[r])
    /\ UNCHANGED <<pc, waiting, taken, ticket, todo, gen, out, clock>>

PassDone ==
    /\ pc = "emit" /\ todo = {}
    /\ \A r \in active : ~Closed(r)
    /\ pc' = "admit"
    /\ UNCHANGED <<waiting, taken, active, ticket, todo, gen, out, pool, clock>>

\* stop(): the task is cancelled in its sleep; nobody is told.
Stop ==
    /\ pc = "asleep"
    /\ pc' = "stopped"
    /\ UNCHANGED <<waiting, taken, active, ticket, todo, gen, out, pool, clock>>

-------------------------------------------------------------------------------
Loop ==
    \/ AdmitTooBig
    \/ AdmitTake
    \/ \E r \in taken : AdmitEvict(r)
    \/ \E r \in taken : AdmitReject(r)
    \/ \E r \in taken : AdmitSeat(r)
    \/ AdmitDone
    \/ WakeIdle
    \/ WakeStep
    \/ \E r \in todo : Emit(r)
    \/ \E r \in active : Retire(r)
    \/ PassDone

Next ==
    \/ \E r \in Reqs : Submit(r)
    \/ Loop
    \/ Stop

\* The event loop resumes the task when its sleep is over.
Spec == Init /\ [][Next]_vars /\ WF_vars(Loop)

-------------------------------------------------------------------------------
Chunk(c) == c.index \in Nat /\ c.finish \in {"none", "length", "oom"}

(***************************************************************************)
(* Types.                                                                  *)
(***************************************************************************)
TypeOK ==
    /\ pc \in {"admit", "asleep", "emit", "stopped"}
    /\ waiting \in Seq(Reqs)
    /\ taken \subseteq Reqs /\ active \subseteq Reqs /\ todo \subseteq Reqs
    /\ ticket \in [Reqs -> Nat]
    /\ gen \in [Reqs -> Nat]
    /\ DOMAIN out = Reqs
    /\ \A r \in Reqs : \A i \in DOMAIN out[r] : Chunk(out[r][i])
    /\ IsPool(pool)
    /\ clock \in Int

(***************************************************************************)
(* The pool holds blocks of running sequences only: no block outlives its  *)
(* sequence, so the node never leaks memory -- and a later turn that a     *)
(* sticky session sends here never finds the KV cache of an earlier one.   *)
(***************************************************************************)
NoLeftovers == Held(pool) \subseteq {KvOf[r] : r \in active}

(***************************************************************************)
(* A node with nothing running takes any request that fits its pool, under *)
(* every policy; an evicting node takes any request that fits even then.   *)
(* (A leaked block or a miscounted byte would turn into refusals.)         *)
(***************************************************************************)
RefusesOnlyWhenFull ==
    [][\A r \in taken : AdmitReject(r) =>
            pool.policy = "none" /\ \E s \in active : KvOf[s] \in Held(pool)]_vars

(***************************************************************************)
(* The batch never exceeds max_batch_size and no sequence is overtaken:    *)
(* while the loop sleeps, one admitted earlier has at least as many tokens *)
(* as one admitted later.                                                  *)
(***************************************************************************)
FairBatch ==
    /\ Cardinality(active) <= MaxBatch
    /\ pc = "asleep" =>
        \A r, s \in active : ticket[r] < ticket[s] => gen[r] >= gen[s]

(***************************************************************************)
(* On a decode node LRU is FIFO: every pass touches the batch in admission *)
(* order, so the victim is always the block entered first -- that of the   *)
(* sequence that has run longest.                                          *)
(***************************************************************************)
EvictsOldestAdmitted ==
    [][\A v \in Held(pool) \ Held(pool') :
            pool'.evictions > pool.evictions =>
                \A b \in Held(pool') : pool.blocks[v].pos < pool.blocks[b].pos]_vars

(***************************************************************************)
(* Without eviction every running sequence has its KV block in the pool,   *)
(* as long as no other request has the same id.  (An evicting policy only  *)
(* ever evicts the block of a running sequence, see NoLeftovers.)          *)
(***************************************************************************)
ActiveHoldsBlock ==
    pool.policy = "none" =>
        \A r \in active :
            (\A s \in Reqs \ {r} : KvOf[s] # KvOf[r]) => KvOf[r] \in Held(pool)

(***************************************************************************)
(* "Sessions pin to the decode node holding their cache" (README.md:34):   *)
(* a request that was served has left its KV block on the node for the     *)
(* next turn.  The code frees it when the sequence retires.                *)
(***************************************************************************)
ServedCacheStays ==
    \A r \in Reqs : Closed(r) /\ gen[r] > 0 => KvOf[r] \in Held(pool)

-------------------------------------------------------------------------------
(***************************************************************************)
(* The scheduler implements TokenStream: whatever it batches, evicts and   *)
(* rejects, each request sees its own tokens in order and one final chunk, *)
(* and every request is answered unless the node stops.  A limit below one *)
(* still yields one token: the test follows the emission.                  *)
(***************************************************************************)
LimitBar == [r \in Reqs |-> IF Goal(r) < 1 THEN 1 ELSE Goal(r)]

phaseBar ==
    [r \in Reqs |-> IF ~Submitted(r) THEN "new"
                    ELSE IF Closed(r) THEN "closed" ELSE "open"]

Stream == INSTANCE TokenStream
            WITH Limit <- LimitBar, phase <- phaseBar, stream <- out,
                 up <- pc # "stopped"

ImplementsTokenStream == Stream!Spec
===============================================================================
