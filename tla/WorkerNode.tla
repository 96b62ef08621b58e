------------------------------- MODULE WorkerNode -------------------------------
(***************************************************************************)
(* services/prefill/main.py and services/decode/main.py: the HTTP handlers *)
(* of a worker node around its DecodeScheduler, its MemorySimulator, the   *)
(* KV metadata in Redis, and the node's Prometheus metrics.                *)
(*                                                                         *)
(* /v1/generate of a prefill node (the colocated mode) and /v1/decode of a *)
(* decode node have the same shape: sleep, submit to the scheduler, pass   *)
(* its chunks on.  /v1/prefill, on the prefill node only, allocates from   *)
(* the same pool and registers the block in Redis; nobody ever frees it.   *)
(*                                                                         *)
(* Handlers and scheduler share one event loop, so a handler runs only     *)
(* while the scheduler sleeps.                                             *)
(***************************************************************************)
EXTENDS KVPool, MockModel, Sequences

CONSTANTS
    Generates,      \* calls of /v1/generate, on a prefill node
    DecodeCalls,    \* calls of /v1/decode, on a decode node
    PrefillCalls,   \* calls of /v1/prefill, on a prefill node
    Words,          \* Words[x]: length of the prompt of a call with a prompt
    Asked,          \* Asked[r]: kv_size_mb of a decode call, in units, any integer
    Meta,           \* Meta[r]: size in the KV metadata of its id, if there is any
    KvOf,           \* KvOf[x]: kv_cache_id
    MaxTok,         \* MaxTok[r]: max_tokens
    DefaultTok,     \* Settings.max_tokens_default
    MaxBatch,       \* Settings.max_batch_size
    Ticks           \* what time.time() may gain between two readings

Reqs == Generates \cup DecodeCalls
Prompted == Generates \cup PrefillCalls
Calls == Reqs \cup PrefillCalls

ASSUME NodeAssumption ==
    /\ Generates \cap DecodeCalls = {} /\ Reqs \cap PrefillCalls = {}
    /\ Words \in [Prompted -> Nat]
    /\ Asked \in [DecodeCalls -> Int]
    /\ DOMAIN Meta \subseteq DecodeCalls /\ Meta \in [DOMAIN Meta -> Nat]
    /\ KvOf \in [Calls -> KvIds]
    /\ MaxTok \in [Reqs -> Int]
    /\ DefaultTok \in Nat \ {0} /\ MaxBatch \in Nat \ {0} /\ Ticks \subseteq Int

\* model.prefill makes up its ids of 32 random bits, taken not to collide.
ASSUME FreshIds == \A x \in Prompted, y \in Calls : x # y => KvOf[x] # KvOf[y]

\* The size a sequence is submitted with: that of its prompt, or what the
\* caller of /v1/decode says; zero or less defers to the metadata of a cache
\* prefilled elsewhere and without any goes to the scheduler as it is.
SizeOf ==
    [r \in Reqs |-> IF r \in Generates THEN KvSize(Words[r])
                    ELSE IF Asked[r] <= 0 /\ r \in DOMAIN Meta THEN Meta[r]
                    ELSE Asked[r]]

PrefillSize(c) == KvSize(Words[c])

VARIABLES
    pc, waiting, taken, active, ticket, todo, gen, out, pool, clock,
                \* the scheduler's, see DecodeScheduler
    role,       \* of the node, "prefill" or "decode"
    stage,      \* stage[x]: where the handler of call x is
    read,       \* read[r]: chunks of out[r] the handler has passed on
    inside,     \* the prefill call inside memory.allocate, if any
    evicted,    \* victims of the allocation under way, the list it returns
    metrics     \* QUEUE_DEPTH, ACTIVE_BATCH, EVICTIONS_TOTAL

schedVars == <<pc, waiting, taken, active, ticket, todo, gen, out, pool, clock>>
queueVars == <<pc, waiting, taken, active, ticket, todo, gen, out>>
countVars == <<evicted, metrics>>
vars == <<role, schedVars, stage, read, inside, countVars>>

Scheduler == INSTANCE DecodeScheduler

Init ==
    /\ Scheduler!Init
    /\ role \in {"prefill", "decode"}
    /\ stage = [x \in Calls |-> "new"]
    /\ read = [r \in Reqs |-> 0]
    /\ inside = {}
    /\ evicted = 0
    /\ metrics = [queue |-> 0, batch |-> 0, evictions |-> 0]

GoTo(x, s) == stage' = [stage EXCEPT ![x] = s]

\* The event loop is free to run a handler.
Idle == pc \in {"asleep", "stopped"} /\ inside = {}

\* What the node's HTTP routes accept.
Serves(x) ==
    \/ role = "prefill" /\ x \in Prompted
    \/ role = "decode" /\ x \in DecodeCalls

Arrives(x) == stage[x] = "new" /\ Serves(x) /\ Idle

\* memory.allocate returns, or raises, in this step.
EvictsOne == evicted' = evicted + 1 /\ UNCHANGED metrics

AllocationCounted ==
    /\ metrics' = [metrics EXCEPT !.evictions = @ + evicted]
    /\ evicted' = 0

AllocationRaises == evicted' = 0 /\ UNCHANGED metrics

-------------------------------------------------------------------------------
(***************************************************************************)
(* Slips used by mutants: a handler that drains its queue and looks at the *)
(* first chunk only, a prefill that does not check for room, one that does *)
(* not count its victims.                                                  *)
(***************************************************************************)
PassOnDraining(r) ==
    /\ stage[r] = "reading" /\ Idle
    /\ read[r] < Len(out[r])
    /\ read' = [read EXCEPT ![r] = Len(out[r])]
    /\ GoTo(r, IF out[r][read[r] + 1].finish # "none" THEN "done" ELSE "reading")
    /\ UNCHANGED <<schedVars, inside, countVars>>

PrefillEnterUnchecked(c) ==
    /\ \E tick \in Ticks :
        /\ clock' = clock + tick
        /\ pool' = Insert(pool, KvOf[c], PrefillSize(c), clock + tick)
    /\ inside' = {}
    /\ GoTo(c, "storing")
    /\ AllocationCounted
    /\ UNCHANGED <<queueVars, read>>

PrefillEnterUncounted(c) ==
    /\ HasRoom(pool, PrefillSize(c))
    /\ \E tick \in Ticks :
        /\ clock' = clock + tick
        /\ pool' = Insert(pool, KvOf[c], PrefillSize(c), clock + tick)
    /\ inside' = {}
    /\ GoTo(c, "storing")
    /\ AllocationRaises
    /\ UNCHANGED <<queueVars, read>>

-------------------------------------------------------------------------------
(***************************************************************************)
(* /v1/generate and /v1/decode.                                            *)
(***************************************************************************)

\* get_kv raises with Redis away: the caller gets a 500.
ResolveFails(r) ==
    /\ r \in DecodeCalls /\ Asked[r] <= 0
    /\ Arrives(r)
    /\ GoTo(r, "error")
    /\ UNCHANGED <<schedVars, read, inside, countVars>>

\* The simulated prefill, or the simulated KV transfer, has been slept
\* through.  (Until then the call touches nothing.)
SubmitSeq(r) ==
    /\ Arrives(r)
    /\ Scheduler!Submit(r)
    /\ GoTo(r, "reading")
    /\ metrics' = [metrics EXCEPT !.queue = Len(waiting')]
    /\ UNCHANGED <<read, inside, evicted>>

\* out.get() returns and the chunk is sent; one with a finish_reason ends it.
PassOn(r) ==
    /\ stage[r] = "reading" /\ Idle
    /\ read[r] < Len(out[r])
    /\ read' = [read EXCEPT ![r] = @ + 1]
    /\ GoTo(r, IF out[r][read[r] + 1].finish # "none" THEN "done" ELSE "reading")
    /\ UNCHANGED <<schedVars, inside, countVars>>

\* The caller goes away: the handler is cancelled, its sequence is not.
Disconnect(r) ==
    /\ stage[r] = "reading" /\ Idle
    /\ GoTo(r, "gone")
    /\ UNCHANGED <<schedVars, read, inside, countVars>>

-------------------------------------------------------------------------------
(***************************************************************************)
(* /v1/prefill.  FastAPI does not cancel it when its caller goes away.     *)
(***************************************************************************)
\* OutOfMemoryError is raised on: the caller gets a 500.
PrefillTooBig(c) ==
    /\ Arrives(c)
    /\ PrefillSize(c) > TotalMB
    /\ pool' = CountOom(pool)
    /\ GoTo(c, "error")
    /\ UNCHANGED <<queueVars, clock, read, inside, countVars>>

PrefillBegin(c) ==
    /\ Arrives(c)
    /\ PrefillSize(c) <= TotalMB
    /\ pool' = Release(pool, KvOf[c])
    /\ inside' = {c}
    /\ UNCHANGED <<queueVars, clock, stage, read, countVars>>

PrefillEvict(c) ==
    /\ ~HasRoom(pool, PrefillSize(c))
    /\ \E v \in Victims(pool) : pool' = Evict(pool, v)
    /\ EvictsOne
    /\ UNCHANGED <<queueVars, clock, stage, read, inside>>

PrefillRefused(c) ==
    /\ ~HasRoom(pool, PrefillSize(c))
    /\ Victims(pool) = {}
    /\ pool' = CountOom(pool)
    /\ inside' = {}
    /\ GoTo(c, "error")
    /\ AllocationRaises
    /\ UNCHANGED <<queueVars, clock, read>>

PrefillEnter(c) ==
    /\ HasRoom(pool, PrefillSize(c))
    /\ \E tick \in Ticks :
        /\ clock' = clock + tick
        /\ pool' = Insert(pool, KvOf[c], PrefillSize(c), clock + tick)
    /\ inside' = {}
    /\ GoTo(c, "storing")
    /\ AllocationCounted
    /\ UNCHANGED <<queueVars, read>>

\* register_kv succeeds, or raises with Redis away: the caller gets a 500
\* and the block stays.
Store(c) ==
    /\ stage[c] = "storing" /\ Idle
    /\ \E answer \in {"ok", "error"} : GoTo(c, answer)
    /\ UNCHANGED <<schedVars, read, inside, countVars>>

Handler ==
    \/ \E r \in Reqs : ResolveFails(r)
    \/ \E r \in Reqs : SubmitSeq(r)
    \/ \E r \in Reqs : PassOn(r)
    \/ \E c \in PrefillCalls : PrefillTooBig(c)
    \/ \E c \in PrefillCalls : PrefillBegin(c)
    \/ \E c \in inside : PrefillEvict(c)
    \/ \E c \in inside : PrefillRefused(c)
    \/ \E c \in inside : PrefillEnter(c)
    \/ \E c \in PrefillCalls : Store(c)

-------------------------------------------------------------------------------
\* _publish_gauges, the gauges of the memory left out.
GaugesPublished ==
    /\ metrics' = [metrics EXCEPT !.queue = Len(waiting'), !.batch = Cardinality(active')]
    /\ UNCHANGED evicted

\* The scheduler's Loop, when no handler is in the middle of something.
RunScheduler ==
    /\ inside = {}
    /\ \/ (\E r \in taken : Scheduler!AdmitEvict(r)) /\ EvictsOne
       \/ (\E r \in taken : Scheduler!AdmitReject(r)) /\ AllocationRaises
       \/ (\E r \in taken : Scheduler!AdmitSeat(r)) /\ AllocationCounted
       \/ (Scheduler!AdmitDone \/ Scheduler!PassDone) /\ GaugesPublished
       \/ /\ \/ Scheduler!AdmitTooBig \/ Scheduler!AdmitTake
             \/ Scheduler!WakeIdle \/ Scheduler!WakeStep
             \/ \E r \in todo : Scheduler!Emit(r)
             \/ \E r \in active : Scheduler!Retire(r)
          /\ UNCHANGED countVars
    /\ UNCHANGED <<stage, read, inside>>

Shutdown ==
    /\ inside = {}
    /\ Scheduler!Stop
    /\ UNCHANGED <<stage, read, inside, countVars>>

Next ==
    /\ \/ \E r \in Reqs : Disconnect(r)
       \/ Handler
       \/ RunScheduler
       \/ Shutdown
    /\ UNCHANGED role

(***************************************************************************)
(* The event loop runs every task that is ready: the scheduler after its   *)
(* sleep, each handler after its own.  A handler is ready only while the   *)
(* scheduler sleeps, again and again, and the loop's queue of ready tasks  *)
(* is first in, first out: hence strong fairness.                          *)
(***************************************************************************)
Fairness ==
    /\ WF_vars(RunScheduler /\ UNCHANGED role)
    /\ \A r \in Reqs : SF_vars(PassOn(r) /\ UNCHANGED role)
    /\ \A c \in PrefillCalls : SF_vars(Store(c) /\ UNCHANGED role)
    /\ WF_vars(/\ \E c \in inside : PrefillEvict(c) \/ PrefillRefused(c) \/ PrefillEnter(c)
               /\ UNCHANGED role)

Spec == Init /\ [][Next]_vars /\ Fairness
-------------------------------------------------------------------------------
(***************************************************************************)
(* Types.                                                                  *)
(***************************************************************************)
TypeOK ==
    /\ Scheduler!TypeOK
    /\ role \in {"prefill", "decode"}
    /\ stage \in [Calls -> {"new", "reading", "storing", "done", "gone", "ok", "error"}]
    /\ \A x \in Calls : stage[x] # "new" => Serves(x)
    /\ \A r \in Reqs : read[r] \in 0..Len(out[r])
    /\ inside \subseteq PrefillCalls /\ Cardinality(inside) <= 1
    /\ evicted \in Nat
    /\ metrics \in [queue : Nat, batch : Nat, evictions : Nat]

(***************************************************************************)
(* The two users of the pool keep its books between them: used_mb is the   *)
(* sum of the blocks, and every block is that of a running sequence or of  *)
(* a prefill that got past its allocation.  (Such a block stays also when  *)
(* register_kv failed and nobody will ask for it.)  used_mb passes the     *)
(* pool by no more than what callers of /v1/decode asked for below zero:   *)
(* such a block makes room for others, which stay when it goes.            *)
(***************************************************************************)
Submitted == {r \in Reqs : stage[r] \in {"reading", "done", "gone"}}

BelowZero == Cardinality(Lent([r \in Submitted |-> [size |-> SizeOf[r]]]))

SharedBooks ==
    /\ pool.used = Taken(pool) /\ pool.used <= TotalMB + BelowZero
    /\ Held(pool) \subseteq
            {KvOf[r] : r \in active} \cup
            {KvOf[c] : c \in {d \in PrefillCalls :
                                        stage[d] \in {"storing", "ok", "error"}}}

(***************************************************************************)
(* Without eviction a KV cache that was announced to the router is on the  *)
(* node and stays there, whatever the sequences of the colocated mode do:  *)
(* the prefill node's memory only ever fills up.                           *)
(***************************************************************************)
AnnouncedStays ==
    \A c \in PrefillCalls :
        pool.policy = "none" /\ stage[c] \in {"storing", "ok"} =>
            KvOf[c] \in Held(pool)

(***************************************************************************)
(* What a scrape finds.  /metrics runs in the threadpool, so one may come  *)
(* in the middle of a pass: EVICTIONS_TOTAL is never ahead of the pool,    *)
(* and behind it by the victims of an allocation under way alone -- also   *)
(* after one that raised, whose list of victims nobody gets.  The gauges   *)
(* of the queue and the batch catch up by the time the loop sleeps.        *)
(***************************************************************************)
MetricsFollow ==
    /\ metrics.evictions + evicted = pool.evictions
    /\ evicted > 0 => taken \cup inside # {}
    /\ pc \in {"asleep", "stopped"} =>
        metrics.queue = Len(waiting) /\ metrics.batch = Cardinality(active)

(***************************************************************************)
(* A call is refused memory only under policy none, and then only because  *)
(* of what others hold.                                                    *)
(***************************************************************************)
RefusesForOthersOnly ==
    [][pool'.oom > pool.oom =>
            \/ \E c \in PrefillCalls : PrefillTooBig(c)
            \/ Scheduler!AdmitTooBig
            \/ pool.policy = "none" /\ Held(pool) # {}]_vars

(***************************************************************************)
(* Every call that got as far as the scheduler or the pool is answered to  *)
(* its end, unless the caller leaves or the node shuts down.               *)
(***************************************************************************)
CallsEnd ==
    /\ \A r \in Reqs :
        stage[r] = "reading" ~> stage[r] \in {"done", "gone"} \/ pc = "stopped"
    /\ \A c \in PrefillCalls :
        c \in inside ~> stage[c] \in {"ok", "error"}

(***************************************************************************)
(* Whatever the prefills take from the pool, and whoever stops listening,  *)
(* the sequences are served as TokenStream says.                           *)
(***************************************************************************)
StreamsUndisturbed == Scheduler!ImplementsTokenStream
===============================================================================
