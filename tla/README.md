# Mini-Dynamo in TLA+

Mini-Dynamo imitates a disaggregated LLM server: a router sends each request to
a *prefill* node, which computes a KV cache, and then to a *decode* node, which
streams tokens.  Nodes register themselves in Redis, sessions are pinned to
decode nodes, and decode nodes batch requests over a fixed pool of simulated GPU
memory.  This directory holds TLA+ modules translated from `src/`, TLC
configurations that check them on small instances, and TLAPS proofs.

## Inventory

### The parts

| part | source | state it keeps | operations |
|---|---|---|---|
| MemorySimulator | `common/memory_sim.py` | `_blocks`, `_used_mb`, three counters, a lock | `allocate`, `touch`, `free`, readers |
| DecodeScheduler | `common/batching.py` | `_waiting` queue, `_active` batch, one queue of chunks per request, a task | `submit`, the loop `_run`/`_admit`, `start`, `stop` |
| decode service | `services/decode/main.py` | a scheduler, a pool, a heartbeat task | `POST /v1/decode` (SSE) |
| prefill service | `services/prefill/main.py` | a pool, a second scheduler for the colocated mode, a heartbeat task | `POST /v1/prefill`, `POST /v1/generate` |
| router | `services/router/main.py` | one handler per request | `POST /v1/generate`, disaggregated or colocated |
| RoutingPolicy | `services/router/routing.py` | a round-robin counter; reads Redis | `select_prefill`, `select_decode`, `fallback_decode` |
| RedisState | `common/redis_client.py` | in Redis: registry (TTL), session map (TTL), KV metadata (TTL) | `register_backend`, `list_backends`, `get/set_session_backend`, `register_kv`, `get_kv`, `ping` |
| heartbeat | `common/node.py` | a task per node; its entry in Redis | re-registers the node for ever; cancelled at shutdown |
| MockModel | `common/mock_model.py` | none | tokens and memory of a prompt, a fresh `kv_cache_id`, latencies |
| KV transfer | `common/kv_transfer.py` | none | the time a transfer takes |
| metrics | `common/metrics.py` | counters, gauges, histograms | updated by scheduler, handlers, router |
| SSE, schemas, config, telemetry | `common/` | none that control depends on | formatting, declarations, settings |
| load client, benchmark, deployment | `scripts/`, `benchmark/`, `k8s/`, compose | - | drivers and manifests |

### How they interact

The router awaits Redis (candidates, pin, re-pin), then HTTP streams of the
nodes.  A node's HTTP handler awaits a queue the scheduler's task fills; handler
and task share one event loop, the node's metrics and one `MemorySimulator`,
which is also reachable from the thread pool and therefore locked.  A scrape of
`/metrics` does run there (a plain `def`, `metrics.py:117`), at any moment of a pass.
Heartbeats
write the registry the router reads key by key.  Nothing else is shared.

### What is hard, and what makes each part correct

* **MemorySimulator.**  `allocate` is several mutations with an exit in the
  middle.  Correct: `used_mb` is the sum of the blocks at every moment and, for
  sizes that are none below zero, within the pool; a block that fits an evicting pool is
  never refused; a refusal costs
  nobody else a block; the victim is the one the policy names; the lock comes
  back.
* **DecodeScheduler.**  One sequence's admission evicts another's block while
  that one runs; ids may be shared; rejection happens in the middle of
  admission; the loop must serve everyone who waits.  Correct: every request
  gets tokens 0, 1, 2, ... and one final chunk (or a refusal before any token);
  no block outlives its sequence; no sequence overtakes an older one; refusal
  only for want of memory.
* **Router.**  Every Redis access is an `await` between a check and the write
  that depends on it; nodes die while registered, pinned or streaming; a failed
  attempt has already sent tokens.  Correct: every request ends; a disaggregated one
  that ends well delivered a complete run of tokens; one crash with a live alternative is
  survived; the router gives up only when it has tried what it knows; a turn goes
  where its session was served.
* **Redis and heartbeats.**  Outages, restarts with or without the data, expiry;
  a listing that reads one key after the other while they change; a node that dies
  with a registration under way.  Correct: a live node stays listed, a dead one
  drops out in time, and whatever is left over, a system that has recovered
  serves.
* **Prefill service.**  Its pool is never freed except by eviction; prefills and
  the colocated scheduler compete for it.  Correct: the books balance between the
  two; a cache announced to the router stays without eviction; each call ends;
  nobody's stream suffers from the other user or from a caller that leaves; the
  metrics say what happened.
* **Load client.**  Requests fail at any moment and end in any order.  Correct:
  every request is reported, the percentiles are percentiles.

The full list, each at its line, is under `hazards` in `PROJECT.json`.

## Modules

```
KVPool ---------- MemorySimulator ------- MCMemorySimulator   (Mem)
   |    \               \
   |     KVPoolProofs ---- MemorySimulatorProofs
   |                  \--- DecodeSchedulerProofs --- WorkerNodeProofs
   |
   +------------- DecodeScheduler ------- MCDecodeScheduler   (Decode, DecodeCacheGone)
                    |        | implements
                    |    TokenStream ---- TokenStreamProofs
                    | instance of      :
MockModel ------- WorkerNode ------------ MCWorkerNode        (Worker)
                                       : what Router assumes of a stream
RoutingPolicy --- Router ---------------- MCRouter            (Router*)
                    |  :               : how a request may end
              RouterProofs :           LoadClient --- LoadClientProofs  (Load, LoadWall)
                           : when entries expire
                       Heartbeat -------- HeartbeatProofs
KVTransfer -------- WorkerNodeProofs
```

### KVPool and MemorySimulator

`KVPool` has no variables: a pool is a record of the fields of the class
(`policy`, `blocks`, `used`, `evictions`, `oom`, `allocs`) and each operator is
one branch or loop iteration of a method (`Release`, `Evict`, `Insert`, `Touch`,
`CountOom`, and `Victims` for `_pick_victim`).  `MemorySimulator` keeps one pool
in a variable and gives `allocate` one step per loop iteration inside the lock:
`AllocateBegin` (line 94-98), `AllocateEvict` (100-109), `AllocateFail` (102-106),
`AllocateCommit` (111-119); `AllocateTooBig` is the check before the lock.
`touch` and `free` are one step each and wait for the lock; the check does not.

Abstractions: memory is counted in whole units (the code's floats are exact for
the shipped `KV_MB_PER_TOKEN` of 0.5); `created_at` and `last_access` of a new
block, two readings of the clock in one statement, are the same reading; `pos`
records the insertion order of the dictionary, in which `min()` breaks ties; a
size may be below zero, as `allocate` does not look (the simulator's own run and
theorems have none, which is the caller's contract; the node's have);
session ids and token counts, which no method reads, are left out.

### DecodeScheduler

The loop has two suspension points, the sleeps.  `pc` says where it is: `admit`
(one step per queue entry and per eviction), `asleep` (the only place where
`submit` and `stop` can run: `put` on an unbounded `asyncio.Queue` does not
suspend), `emit` (one step per member of the batch, then one per retirement).
`out[r]` is the history of `seq.out_queue`.  Gauges and the texts of tokens are
left out.  A request is submitted at most once; two requests may carry one
`kv_cache_id`.  `Goal` is `max_tokens or max_tokens_default`, and since the test
follows the emission a negative limit yields one token.

### TokenStream

The abstract specification of a decode node, without batches or memory: `Open`,
`Deliver`, `Refuse`, `Shutdown`.  `DecodeScheduler` implements it under the
mapping written at its end (`phaseBar` is computed from queue, batch and output;
`up` is `pc # "stopped"`), including its liveness.

### WorkerNode and MockModel

The HTTP handlers of a node around one instance of `DecodeScheduler`, whose
variables it shares.  `role` says which of the two services the node runs, and so
which routes it has: `/v1/prefill` and the colocated `/v1/generate` of a prefill
node, `/v1/decode` of a decode node.  The last two have one shape, so one set of
actions stands for both: `SubmitSeq` after the simulated prefill or transfer,
`PassOn` for each chunk taken from the queue, `Disconnect` for a caller that
leaves (the handler is cancelled, the sequence is not).  What differs is the size
they submit (`SizeOf`): of the prompt, by `MockModel`'s `KvSize`; or what the
caller of `/v1/decode` says, any number, for `models.py:57` sets no bound.  Zero or
less defers to the KV metadata in Redis, which may be unreadable (`ResolveFails`: a
500) or absent: the size then goes to the scheduler as it is.  The `kv_cache_id`s
that prefills make up are taken to be fresh (`FreshIds`); they are 32 random bits.
`/v1/prefill` is `PrefillTooBig`, `PrefillBegin`, `PrefillEvict`, `PrefillRefused`,
`PrefillEnter` (the call of `allocate` on the same pool, to its end without an
`await`) and `Store` (`register_kv`, which succeeds or raises; the block stays
either way, as nobody catches).  Handlers run only while the scheduler sleeps:
one event loop.

`metrics` are QUEUE_DEPTH, ACTIVE_BATCH and EVICTIONS_TOTAL: `submit` sets the
first, `_publish_gauges` (`AdmitDone`, `PassDone`) the first two, and each
successful `allocate` adds the length of the list of victims it returns, which is
lost if it raises.  `evicted` counts the victims of the allocation under way, so
`MetricsFollow` can say what a scrape in the middle of it finds.  The gauges of memory
are left out: they are set only by the
scheduler and after a prefill, and nobody promises more.

### Heartbeat

One node's `heartbeat_loop` and its entry, in discrete time: the sleep, the
registration (sent, executed by Redis, answered), the exception that the loop
swallows, Redis going away and coming back with or without its data, the death of
the node with a registration still under way (`LateExecute`), its restart.  Nothing
compares `HEARTBEAT_TTL` with `HEARTBEAT_INTERVAL`; `GoodSettings` says what they
must satisfy, and the shipped 10 s and 3 s do.  `Delay` bounds the time a
registration takes when Redis answers; a Redis that takes a command and never
answers is left out, for the client sets no timeout and the loop would hang with
it.  The module has no run: it was model-checked while it was written (interval 2,
TTL 5, delay 1, time up to 14), and its two promises are theorems.  `Router` relies on
them: there the entry of a node that runs and had a beat since its last fault does not
expire while Redis is up.

### KVTransfer

`transfer_ms` as an exact fraction.  `simulate_transfer` sleeps that long before
`SubmitSeq`, and the models of handlers count no time, so the formula stands alone
and its two theorems are with those of the node that waits for the transfer.

### LoadClient

`run_load`: the fair semaphore, `one_request` over the frames a stream may carry,
`Summary.report`.  A request ends by `Done` (`[DONE]`) or `Fail` (an error frame, an
error status, a broken stream); the client does not look at `finish_reason`, so a
refused request counts as a success without tokens.  `InOrder` is what `sorted` does:
each successful request has the place that the number of those before it gives.
Percentiles are computed in hundredths, exactly; rounding is left out.

### RoutingPolicy and Router

`RoutingPolicy` holds what `routing.py` and `redis_client.py` compute;
`Router` keeps the stores and gives every `await` of
`_generate_disaggregated`, `_generate_colocated`, `select_*` and `fallback_decode` a step of its own:

| step | code |
|---|---|
| `Arrive`, `ChoosePrefill` | `main.py:83-100`, `routing.py:43-58` |
| `PrefillOk`, `PrefillFail` | `main.py:109-125` |
| `Visit`, `Listed`, `ListEnds` | `list_backends`, one `GET` per step, `redis_client.py:57-68` |
| `ListDecode`, `ReadPin`, `SetPin` | `routing.py:65-78` |
| `TokenFrame`, `FinalFrame` | `main.py:155-168` |
| `WorkerFinal`, `WorkerDone`, `WorkerBreaks` | the colocated stream, `main.py:209-252` |
| `DecodeBreaks`, `ListOthers`, `Repin` | `main.py:169-185`, `routing.py:80-92` |
| `RedisRaises` | any access of `redis_client.py` during an outage |
| `Heartbeat`, `EntryExpires`, `PinExpires` | `node.py:25-34`, the two TTLs |
| `Crash`, `Restart`, `StreamTimesOut`, `PrefillErrs`, `HangUp`, `RedisFails`, `RedisReturns` | the environment |

Abstractions: `list_backends` reads the keys one at a time in any order, and
one that has expired by then is left out; which keys SCAN yields is not modelled,
for a key that comes or goes during the scan is indistinguishable from one read before
or after the change.  The load score is the number the last heartbeat carried,
any of `Loads`; ties among prefill nodes, which the code breaks by a round-robin
counter over the order SCAN happens to return, may fall on any of them; a decode
attempt is what TokenStream says of it.  A registry entry expires only when nobody
renewed it for long (`Heartbeat`).  `stale` holds the entries left from before their
node crashed or Redis went away: each may run out at any moment, also after Redis is
back, until the node's next beat renews it.  Redis may come back with its data or
empty.  Prefill needs Redis (`register_kv` is awaited without a handler), so it
fails during an outage.  `Init` is a deployment that has warmed up, with sessions
pinned from an earlier life of the router or not.  The names made up from
`PREFILL_URLS` and `DECODE_URLS` are one of each role in `router_faults`
(`prefill-0`, `decode-0`, for the prefill node and the first decode node) and none in
the other runs; the repository's deployments set none.

A colocated stream may break, which the client is told, or just end without `[DONE]`,
which falls out of the loop as a complete one does (`main.py:230`): `WorkerBreaks` has
both outcomes.  `Fresh` and `FitToServe` say what a request that `ServedWhenFit` speaks
of finds: Redis answers, every listed prefill node is up, and a node of either role is
up whose entry is not stale.

`tally` is what the router counts: outcomes (REQUESTS_TOTAL, its `fallback`
included in the decisions) and ROUTING_DECISIONS, with cache hits and misses in one.  `past` is
history: it records, when a request arrives, who had served its session, whether
another turn was in flight, whether the system was fit to serve and how many
faults there had been.

## Runs

All runs pass `CHECK_DEADLOCK FALSE`: each system may legitimately have nothing
left to do (all calls made, all requests answered, the node stopped).

| run | question | bounds | what it shows |
|---|---|---|---|
| `mem` | Is the pool right under every policy? | 3 ids, pool of 3, sizes 1, 2 and 4 (too large), 5 calls | `Accounting`, `NoSpuriousOom`, `FailureSparesOthers`, `EvictsLeastRecentlyUsed`, `EvictsOldest`, `LockReleased` |
| `decode` | Is the scheduler right under every policy? | 5 requests (2 share an id, 1 never fits), batch of 3, pool of 3, limits 2, absent, negative, 1 | `NoLeftovers`, `FairBatch`, `ActiveHoldsBlock`, `EvictsOldestAdmitted`, `RefusesOnlyWhenFull`, `ImplementsTokenStream` |
| `decode_cache_gone` | Does a served turn leave its cache? | the same, distinct ids | no: `free` at retirement |
| `worker` | Do prefills and sequences get along on one node?  Do its metrics tell the truth? | a prefill node with 2 prefills (1 never fits) and a colocated call with an empty prompt, or a decode node with 3 calls: 1 leaves the size to the metadata, 1 asks for -1 and has none, 1 asks for 2; batch of 3, pool of 3, policies lru and none, callers that leave, shutdown (29,998 states) | `SharedBooks`, `AnnouncedStays`, `MetricsFollow`, `RefusesForOthersOnly`, `CallsEnd`, `StreamsUndisturbed` |
| `load` | Are the client's figures what they are called? | 3 requests, 2 at a time, 4 clock readings, success, refusal or failure at any moment | `PercentilesAreRanks`, `EveryRequestReported` |
| `load_wall` | Is tokens/sec computed over the run? | the same | no: over its longest request |
| `router_crash` | Does a crash harm a request?  Does the system heal?  Do turns stick? | 3 turns of a session, in sequence or at once, 2 decode nodes, 1 crash of any node at any moment, restart; requests and decode nodes symmetric (about 895,000 states) | `CrashSurvived`, `ServedWhenFit`, `TurnsStick` |
| `router_faults` | Does every request end, not too early, and complete if well?  Does a recovered system serve? | 1 request in either mode, a prefill node and 2 decode nodes, one of each role also under a made-up name, 2 tokens, any 3 faults of all kinds, before or during the request (about 735,000 states) | `OkIsComplete`, `ServedWhenFit`, `DecisionsAreAttempts`, `GivesUpOnlyWhenAllTried`, `EveryRequestEnds` |
| `router_three` | The same as `router_faults` with 3 decode nodes | 1 request | `GivesUpOnlyWhenAllTried` fails |
| `router_race` | Do turns stick to the node that *first* served the session? | 3 turns | no: two first turns race for the pin |
| `router_redis` | Is a brief Redis outage harmless? | 1 request | no: 500, or a stream cut without a final frame |
| `router_replay` | Is a token ever sent twice? | 1 crash | yes: fallback starts over |

**Why the bounds are enough.**  A pool of 3 with blocks of 1 and 2 has every
case of the loop: room at once, one eviction, two evictions, none possible.
Five calls fill the pool, touch a block and overflow it.  A batch of 3 with five
requests makes some wait, and the ids and sizes are such that a sequence loses
its block to another, to its namesake, and is refused.  Two decode nodes are
what `docker-compose.yml` deploys; the defect that needs a third has a run with
three.  Three faults are an outage or a crash, one more before the system has
recovered, and one in the course of the request.  Two loads are in `router_three`; in
the other runs all are equal, which leaves every choice among the candidates open, where
different loads leave some of them.  One token or
two distinguish "before the first", "in the middle" and "after the last" token.  On the
worker two blocks of 2 in a pool of 3 make every pair of users compete, and with a
size of -1 both fit: when its block goes `used_mb` is 4.  Two
keys of a role are the least that can be read at different times.  The
load client needs more requests than slots.  The counters that would grow
without end (`ops`, `faults`, and the load client's `clock` and `tokens`, which
the router's second attempt may double) are capped in guards (`MaxOps`,
`MaxFaults`, `MaxTime`, `2 * MaxTokens`); what the router has sent a request
(`sent`) needs no cap: `MaxTokens` for each attempt, and few attempts.

**Fairness.**  Weak fairness of steps that run once they can:
an `allocate` call in the lock is straight-line code (`MemorySimulator`); the
event loop resumes a task whose sleep is over (`DecodeScheduler`); a router
handler is resumed when its await completes, Redis answers or raises, a live
backend delivers (TokenStream's fairness, shown of the scheduler by `decode`, and `CallsEnd` of
`worker`) and a dead one is noticed by the connection or its 60 s timeout
(`Router`); the router ends every request (`EveryRequestEnds`), so the client's
streams end (`LoadClient`).  Strong fairness in one place: a handler of
`WorkerNode` is ready only while the scheduler sleeps, but that is again and
again, and the event loop runs ready tasks first in, first out.
Arrivals, heartbeats, faults, restarts and the return of Redis are never assumed.

## Disagreements between code and documentation

Each is a run that expects a violation and is listed under `findings`.

* `load_wall`: throughput is computed over the longest request (`load_client.py:46`).
* `decode_cache_gone`: the block is freed when the turn ends, so no session ever
  returns to a node "holding their cache" (README.md:34).
* `router_three`: fallback excludes only the backend that failed last.
* `router_race`: a pin is written two awaits after it was looked for.
* `router_redis`: only `ping` catches exceptions (`redis_client.py:12-13` says
  every method degrades gracefully).
* `router_replay`: a fallback in mid-stream sends the client the same tokens again.

Facts that are not findings but worth knowing: the recency of a block is a
reading of `time.time()` (`memory_sim.py:127`), so with readings that repeat or
are set back LRU may evict a block used more recently, which is why `mem` and
`LruIsExact` assume readings that differ; the colocated handler counts a request
that failed under outcome `ok` (`main.py:246-249`), and one whose upstream ends without
`[DONE]` and without an exception gets no error frame but a `[DONE]`, whatever tokens
are missing, which the disaggregated handler notices (`main.py:169-170`) and why
`OkIsComplete` is about that one; `/v1/decode` takes a `kv_size_mb` below zero, which
lowers `used_mb` and lets it pass `total_mb` later (`SharedBooks` says by how much);
while Redis knows no node that had a beat since an outage, a request may find none
though all are up; a failed `allocate` of an id
that was present loses the old block (`FailureSparesOthers` is about the
others), and on a decode node LRU is FIFO (`EvictsOldestAdmitted`), for every
pass touches the batch in admission order.

## Proofs

`tlapm` checks the eight modules named `...Proofs`.  The theorems hold for any set
of ids, pool size, set of block sizes, set of policies, number of calls, requests
and limits, batch size, and any clock, unless a hypothesis is named below.

* `KVPoolProofs`: what each pool operator preserves.  `SoundPool` says that a
  pool is well typed, finite and that `used` is the sum of the sizes (`Taken`).  The sum
  is the cardinality of the set of memory units the blocks take (`Footprint`), so
  that dropping or entering a block is a set difference or union and no
  induction over the blocks is needed; sizes below zero have units of their own
  (`Lent`), which are subtracted.  `VictimExists` shows that `_pick_victim`
  finds a block in every non-empty evicting pool: stamps with ties broken by
  position have a minimum in a finite set.
* `MemorySimulatorProofs`:
  * `TypeCorrect`, `AccountingCorrect` from the inductive invariant `Inv`.
    `Accounting` is not inductive by itself: entering a block keeps the books
    only if its id is absent and it fits, which `AllocateBegin` and the loop
    condition settled earlier; `HolderOk` carries both across the steps.
  * `EvictionSuffices` (`NoSpuriousOom`): an empty pool has room for whatever
    passed the check before the lock, and a non-empty one has a victim.
  * `FailureIsHarmless` (`FailureSparesOthers`): so a failure means policy
    none, under which nothing was evicted.
  * `LruIsExact` (`EvictsLeastRecentlyUsed`) from `OrderInv`, the order of the
    stamps is the order of the calls, assuming `StrictClock`: each reading is
    later than the one before.
  * `FifoIsExact` (`EvictsOldest`) from `AgeInv`, assuming only that the clock is
    not set back (`SteadyClock`): equal readings are decided by position.
* `TokenStreamProofs`: `StreamsAreWellFormed`, what follows from the contract:
  every stream is tokens 0, 1, 2, ... and one final chunk, or a refusal.
* `DecodeSchedulerProofs`, over the same pool lemmas:
  * the inductive invariant is `TypeInv`, `PoolInv` and `QueueInv`.  `QueueInv` says
    that no request is at two places (queue, admission, batch), which is what
    `submit`'s one call per request gives; `PoolInv`, that the request inside
    `allocate` has no block yet.  Sizes are any integers, so it does not say that `used`
    is within the pool.  None of them says whose the blocks are, so that they
    also hold of a scheduler that shares its pool (see `WorkerNodeProofs`).
  * `SchedulerTypeCorrect`;
  * `NothingLeftOver` (`NoLeftovers`), inductive next to those, for a scheduler that
    has its pool to itself;
  * `RunningHoldsBlock` (`ActiveHoldsBlock`): dropping the old block of the id of
    the request at the head of the queue could take it from a running sequence,
    unless that sequence shares its id with nobody and is not the head itself;
  * `RefusalsAreDue` (`RefusesOnlyWhenFull`): a refusal means no room and no
    victim, so by `EmptyHasRoom` the pool is not empty, by `VictimExists` the
    policy is none, and by `NoLeftovers` the blocks are of running sequences.
  * `SchedulerKeepsContract`, the safety half of `ImplementsTokenStream`.  The
    mapping computes the abstract phase from queue, admission, batch and output;
    `StreamInv` adds to `QueueInv` that a closed request is never served again and
    that until then it has as many chunks as tokens were counted.  Then `Submit` is
    `Open`, a rejection is `Refuse`, an emission is `Deliver`, and the rest leaves
    phases and streams alone.
  * `SchedulerStreamsWellFormed`: the theorem of `TokenStreamProofs`, instantiated
    under the mapping.
  * `BatchIsFair` (`FairBatch`), from `BatchInv`.  `FairBatch` speaks of the moments
    between passes; in the middle of one those not reached yet are behind by one, so
    the invariant compares `AfterPass`, what each will have at the end of the pass, and
    says that those not reached are the last in the order of tickets.
  * `EvictsTheOldest` (`EvictsOldestAdmitted`): under LRU as under FIFO the victim is
    the block that was entered first.  `OwnerInv` gives each block its running
    sequence, the youngest with its id, and says that its position is that one's ticket;
    `AgeInv`, that a block entered later was not created earlier and, once the pass
    under way has reached its owner, not used earlier either.  Nothing is evicted in the
    middle of a pass.  Assumed is `SteadyClock`, that readings are not set back; equal
    ones are decided by position.
* `WorkerNodeProofs`.  The node's scheduler is an `INSTANCE`, so its theorems are
  taken over through a second one, `Sched`, of `DecodeSchedulerProofs`; the `Same...`
  lemmas say that both have the same actions and states.  The steps of a prefill are
  not the scheduler's, but change only the pool, and that soundly (`PoolAlone`).  The
  inductive invariant `NodeInv` has, next to the scheduler's, `HandlerInv` (no call is
  past the routes of its role, no handler has read more chunks than there are),
  `AllocInv` (one prefill at most is inside `allocate`, while the scheduler sleeps, and its id
  has no block), `BookInv` (each block has an owner), `AskInv` (who waits or is being
  admitted has been submitted), `UnitInv`, `AnnouncedStays` and
  `MetricInv` (the metric lacks exactly the victims of the allocation under way, and
  there are none under policy none, the only one under which `allocate` raises and
  would lose them).  `UnitInv`: what the blocks above zero take
  is within the pool and `BelowZero`, the units that submitted calls asked for below zero,
  and each block below zero is one of those.  That `used_mb` is within the same bound is
  not inductive, for dropping a block below zero raises it.  From it:
  * `NodeTypeCorrect` (`TypeOK`), `BooksAreShared` (`SharedBooks`),
    `AnnouncedCacheStays` (`AnnouncedStays`), `MetricsAreTrue` (`MetricsFollow`),
    `RefusalsAreForOthers` (`RefusesForOthersOnly`);
  * `StreamsKeepContract`, the safety half of `StreamsUndisturbed`;
  * of the transfer, `LargerTakesLonger`, and `NoLinkIsFastest`, an effect of line 34 of
    `kv_transfer.py` that no doc mentions.
* `RouterProofs`, for any nodes, made-up names, loads, requests, sessions and limits:
  * `RouterTypeCorrect` (`TypeOK`), `OkMeansComplete` (`OkIsComplete`, of
    disaggregated requests) and
    `DecisionsCountAttempts` (`DecisionsAreAttempts`), under any number of faults.  The
    invariant `Inv` says per request that its backend and lists fit the place where it is
    (`PlaceInv`, which is why a handler never connects to a node of the wrong role
    though the registry changes between its reads), that the client's stream ends
    with what the current backend sent (`TokenInv`), and that nothing is tried before
    the first attempt (`EarlyInv`).  Two lemmas, `Moves` and `Starts`, say what any
    step of a request may change, so each action has only its own part to show.
  * `CrashIsSurvived` (`CrashSurvived`) where one crash is the only fault and there are two
    decode nodes (`OneCrash`, the settings of `router_crash`, for any further nodes and
    requests).  `CrashInv`: there is one node such that all others are up, registered and
    found by every listing under way (`Finds`), and only a request whose first attempt was
    at that node goes on to another.  Before the crash it may be any node, hence the
    two conjuncts.
  * `FitSystemServes` (`ServedWhenFit`) and `AllTried` (`GivesUpOnlyWhenAllTried`) for any
    faults, with two decode nodes at most (`AtMostTwo`, as in `docker-compose.yml`): with a
    third both are false, as `router_three` shows of the second, because the fallback
    excludes only the backend that failed last.  `FitInv` follows a request through its
    life: it has found, or will, a backend that is up.  It stays so only while the fault
    count does, so the invariant carries the count at the arrival (`PastInv`).  `TriedInv`:
    what the fallback goes to is not what failed first, so the two are all there is.
  * `CalmTurnsStick` (`TurnsStick`) in disaggregated mode; a colocated turn reads and sets no
    pin, so the mode is a hypothesis.  `StickInv`: the pin of a served session names a
    backend that serves or served a turn of it, and after a calm arrival no other turn is
    at the place where the pin is set.
* `HeartbeatProofs`: `LiveNodesStayListed` and `DeadNodesDropOut`, under
  `GoodSettings`.  The time at which the next registration is executed at the
  latest (`Due`) is before the entry expires, or within a beat of the moment node
  and Redis both came up.
* `LoadClientProofs`:
  * `LoadTypeCorrect` (`TypeOK`), the client's books, from `LoadInv`: the semaphore is
    fair and all ask for it at once, so those who wait are the last in their own
    order and each of the others runs or has reported;
  * `PercentilesAreTrue` (`PercentilesAreRanks`), for any number of requests in whatever
    order they end.  No two requests have one place (`PlacesAscend`) and an injection of a
    finite set into one of its size is onto (`PlacesAreAll`), so the list has everyone
    at its place, smaller values first (`InOrderSorts`, `ValuesAscend`): no induction
    over the list is needed.  A percentile lies between two neighbours of it
    (`PctBetween`), so what is below has a place up to the first and what is above one
    after it, and an injection of places counts them (`PctIsRank`).  `PctGrows`: p95 is
    beyond the neighbours that hold p50, or shares them and lies further on.

Assumed are only the named assumptions on the constants (`PoolAssumption`,
`SchedulerAssumption`, `NodeAssumption`, `FreshIds`, `ModelAssumption`, `RoutingAssumption`,
`RouterAssumption`, `LoadAssumption` and that of the simulator), which TLC evaluates in
the runs, and the hypotheses named above: `GoodSettings`, `StrictClock` and
`SteadyClock`, `OneCrash`, `AtMostTwo`, one mode.  Each of them holds in a run or of
the settings the repository ships.

Only model-checked is liveness, which is out of the prover's reach: `LockReleased`,
`EveryRequestEnds`, `CallsEnd`, `EveryRequestReported`, and the fairness halves of
`ImplementsTokenStream` and `StreamsUndisturbed`.  Every other property of a passing
run is a theorem.

## Not modelled, and the plan

Left out for good:

* latencies and vocabulary of `MockModel`: they only delay, and no property tells
  one word from another;
* formatting (`sse.py`), declarations (`models.py`) and the reading of the environment
  (`config.py`): frames are values and settings are CONSTANTS here;
* histograms, memory gauges and tracing: nothing reads them but a dashboard;
* the benchmark (`run_bench.py`, `report.py`): the load client twice, one run after
  the other, and a difference of two readings of a histogram;
* the drift of `used_mb`, a float: memory is counted in whole units, exact for the
  shipped 0.5 MB per token;
* a Redis that accepts a command and never answers: neither router nor heartbeat
  sets a timeout, and everything that awaits it hangs;
* the manifests, whose numbers of nodes are the bounds of the runs.

Done: pool and simulator, scheduler and contract, router with its listing, counters and
made-up names, both worker services, heartbeats, transfer cost, load client; the
proofs above.  What remains:

1. A composition of the router with worker nodes in place of the abstract stream, and
   with it the step from `Heartbeat` to what `Router` assumes of the registry.
2. `GivesUpOnlyWhenAllTried` for any number of nodes, restated for what the code does
   promise: what is given up was tried at two backends, or knew only one.
