--------------------------------- MODULE Router ---------------------------------
(***************************************************************************)
(* services/router/main.py with routing.py, redis_client.py and node.py:   *)
(* the life of the requests one router serves concurrently, in either      *)
(* mode: disaggregated (prefill, then a decode node) or colocated (both on *)
(* one prefill node, the baseline of the benchmark).                       *)
(* Each await of the handler ends a step, so requests interleave there     *)
(* with each other, with heartbeats, and with faults of the nodes and of   *)
(* Redis.                                                                  *)
(*                                                                         *)
(* A stream from a node is what TokenStream says of it: tokens 0, 1, 2...  *)
(* then a final frame, or a refusal; DecodeScheduler implements that, and  *)
(* WorkerNode passes it on.                                                *)
(***************************************************************************)
EXTENDS RoutingPolicy, Sequences

CONSTANTS
    Reqs,           \* client requests
    SessionOf,      \* SessionOf[r]: req.session_id
    MaxTokens,      \* tokens each request asks for
    Modes,          \* what MODE may be set to
    FaultKinds,     \* the faults that may happen
    MaxFaults       \* bound: how many of them

ASSUME RouterAssumption ==
    /\ SessionOf \in [Reqs -> Sessions]
    /\ MaxTokens \in Nat \ {0}
    /\ Modes \subseteq {"disaggregated", "colocated"}
    /\ FaultKinds \subseteq {"crash", "timeout", "prefill", "redis", "expiry", "hangup"}
    /\ MaxFaults \in Nat

VARIABLES
    mode,       \* settings.mode, which never changes
    redisUp,    \* Redis answers
    registry,   \* mdyn:backend:* keys
    stale,      \* the registry keys not renewed since a fault, see EntryExpires
    pins,       \* mdyn:session:* keys
    alive,      \* alive[n]: the process of node n runs
    faults,     \* faults so far
    pc,         \* pc[r]: the await request r is at
    backend,    \* backend[r]: the node name the handler is working with
    cands,      \* cands[r]: the candidate list it read last
    attempted,  \* attempted[r]: names of the decode backends tried
    sent,       \* sent[r]: indices of the tokens the client was sent
    got,        \* got[r]: tokens received from the current node
    lost,       \* requests whose node died while connected
    seen,       \* seen[r]: keys its current listing of backends has visited
    tally,      \* REQUESTS_TOTAL and ROUTING_DECISIONS, by label
    past        \* history: past[r], see Arrive

redisVars == <<redisUp, registry, stale, pins>>
envVars == <<redisVars, alive, faults, lost>>
localVars == <<backend, cands, seen, attempted, sent, got>>
reqVars == <<pc, localVars, tally, past>>
vars == <<mode, envVars, reqVars>>

\* How a request ends.  "cut": the stream stops without a final frame.
Outcomes == {"ok", "oom", "no_prefill", "prefill_failed", "no_decode",
             "decode_failed", "worker_failed", "http_500", "cut", "gone"}

\* Where a request is while its handler runs.
Stages == {"choose", "prefill", "list", "readpin", "setpin", "decode",
           "fallback", "repin", "colocated", "closing"}

ListStages == {"choose", "list", "fallback"}

RedisStages == {"choose", "list", "readpin", "setpin", "fallback", "repin"}

\* Where it is connected to a node.
Connections == {"prefill", "decode", "colocated", "closing"}

\* What the router counts: the outcomes of REQUESTS_TOTAL, and the kinds of
\* ROUTING_DECISIONS, of which "routed" is cache_hit or cache_miss.
Labels == {"ok", "error", "routed", "fallback"}

\* Every node is up and has sent a heartbeat.  Redis may hold sessions from
\* before the router was started.
Init ==
    /\ mode \in Modes
    /\ redisUp = TRUE
    /\ registry \in [Nodes -> Loads]
    /\ stale = {}
    /\ \E known \in SUBSET Sessions : pins \in [known -> DecodeNames]
    /\ alive = [n \in Nodes |-> TRUE]
    /\ faults = 0
    /\ pc = [r \in Reqs |-> "new"]
    /\ backend = [r \in Reqs |-> "nobody"]
    /\ cands = [r \in Reqs |-> NoKeys]
    /\ seen = [r \in Reqs |-> {}]
    /\ attempted = [r \in Reqs |-> {}]
    /\ sent = [r \in Reqs |-> <<>>]
    /\ got = [r \in Reqs |-> 0]
    /\ lost = {}
    /\ tally = [label \in Labels |-> 0]
    /\ past = [r \in Reqs |-> [calm |-> FALSE, by |-> {}, well |-> FALSE, faults |-> 0]]

InFlight(r) == pc[r] \in Stages

Count(labels) ==
    tally' = [label \in Labels |-> IF label \in labels THEN tally[label] + 1 ELSE tally[label]]

\* What REQUESTS_TOTAL counts at the end of a request.  A colocated one that
\* breaks is counted as ok; what is neither is not counted at all.
CountedAs(stage) ==
    {label \in {"ok", "error"} :
        \/ label = "ok" /\ stage \in {"ok", "oom", "worker_failed"}
        \/ label = "error" /\ stage \in {"prefill_failed", "decode_failed"}
        \/ label = "error" /\ stage = "no_prefill" /\ mode = "disaggregated"}

GoTo(r, stage) ==
    /\ pc' = [pc EXCEPT ![r] = stage]
    /\ Count(CountedAs(stage))

\* Nodes that had a beat since the last fault that kept them from it.
Fresh == DOMAIN registry \ stale

\* Redis answers, every prefill node the registry lists is up, and of either
\* role one node is up whose entry is fresh.
FitToServe ==
    /\ redisUp
    /\ \A n \in DOMAIN registry \cap Prefills : alive[n]
    /\ Fresh \cap Prefills # {}
    /\ \E n \in Fresh \cap Decodes : alive[n]

\* The node the current backend of r stands for.
Node(r) == NodeOf[backend[r]]

\* An attempt begins: attempted.add and the request to the backend.  The list
\* it was chosen from is gone; decision is what the choice is counted as.
StartDecode(r, name, decision) ==
    /\ pc' = [pc EXCEPT ![r] = "decode"]
    /\ Count({decision})
    /\ backend' = [backend EXCEPT ![r] = name]
    /\ cands' = [cands EXCEPT ![r] = NoKeys]
    /\ attempted' = [attempted EXCEPT ![r] = @ \cup {name}]
    /\ got' = [got EXCEPT ![r] = 0]

-------------------------------------------------------------------------------
(***************************************************************************)
(* Slips used by mutants: a stream that stops is taken for one that ended; *)
(* attempted is not consulted, or a backend in it is passed over and the   *)
(* next one asked for; the pin is not written; an entry expires between    *)
(* two heartbeats; a listing takes the keys of both roles.                 *)
(***************************************************************************)
DecodeBreaksUnnoticed(r) ==
    /\ pc[r] = "decode" /\ (r \in lost \/ ~alive[Node(r)])
    /\ GoTo(r, "ok")
    /\ lost' = lost \ {r}
    /\ UNCHANGED <<redisVars, alive, faults, localVars, past>>

RepinUnchecked(r) ==
    /\ pc[r] = "repin" /\ redisUp
    /\ pins' = SetKey(pins, SessionOf[r], backend[r])
    /\ StartDecode(r, backend[r], "fallback")
    /\ UNCHANGED <<redisUp, registry, stale, alive, faults, lost, seen, sent, past>>

RepinAskingAgain(r) ==
    /\ pc[r] = "repin" /\ redisUp
    /\ pins' = SetKey(pins, SessionOf[r], backend[r])
    /\ IF backend[r] \in attempted[r]
       THEN /\ GoTo(r, "fallback")
            /\ UNCHANGED <<backend, cands, attempted, got>>
       ELSE StartDecode(r, backend[r], "fallback")
    /\ UNCHANGED <<redisUp, registry, stale, alive, faults, lost, seen, sent, past>>

SetPinForgotten(r) ==
    /\ pc[r] = "setpin" /\ redisUp
    /\ StartDecode(r, backend[r], "routed")
    /\ UNCHANGED <<envVars, seen, sent, past>>

EntryExpiresEarly(n) ==
    /\ n \in DOMAIN registry
    /\ registry' = DropKey(registry, n)
    /\ stale' = stale \ {n}
    /\ UNCHANGED <<redisUp, pins, alive, faults, lost, reqVars>>

AnyRole(stage) == Nodes

-------------------------------------------------------------------------------
(***************************************************************************)
(* _generate_disaggregated, up to the first decode attempt.  In colocated  *)
(* mode the node select_prefill finds serves the whole request.            *)
(***************************************************************************)

\* The request arrives.  past notes which backends had served its session
\* by then, whether no other request of the session was in flight, whether
\* the system was fit to serve, and the faults there had been.
Arrive(r) ==
    /\ pc[r] = "new"
    /\ GoTo(r, "choose")
    /\ LET turns == {x \in Reqs \ {r} : SessionOf[x] = SessionOf[r]}
       IN  past' = [past EXCEPT ![r] =
                        [calm |-> \A x \in turns : ~InFlight(x),
                         by |-> {backend[x] : x \in {y \in turns : pc[y] \in {"ok", "oom"}}},
                         well |-> FitToServe, faults |-> faults]]
    /\ UNCHANGED <<envVars, localVars>>

\* list_backends goes over the keys in the order SCAN yields them and reads
\* each for itself.  The last one is read by the step that uses the list.
RoleAt(stage) == IF stage = "choose" THEN Prefills ELSE Decodes

Unseen(r) == RoleAt(pc[r]) \ seen[r]

FoundSoFar(r) == IF seen[r] = {} THEN NoKeys ELSE cands[r]

Visit(r) ==
    /\ pc[r] \in ListStages /\ redisUp
    /\ Cardinality(Unseen(r)) > 1
    /\ \E n \in Unseen(r) :
        /\ cands' = [cands EXCEPT ![r] = ReadKeys(FoundSoFar(r), registry, {n})]
        /\ seen' = [seen EXCEPT ![r] = @ \cup {n}]
    /\ UNCHANGED <<envVars, pc, backend, attempted, sent, got, tally, past>>

Listed(r) == ReadKeys(FoundSoFar(r), registry, Unseen(r))

ListEnds(r, stage) ==
    /\ pc[r] = stage /\ redisUp
    /\ Cardinality(Unseen(r)) <= 1
    /\ seen' = [seen EXCEPT ![r] = {}]

\* select_prefill: round robin among the least loaded; as SCAN returns them
\* in any order, that is any of them.
ChoosePrefill(r) ==
    /\ ListEnds(r, "choose")
    /\ LET found == Candidates(Listed(r), StaticPrefills)
       IN  IF DOMAIN found = {}
           THEN /\ GoTo(r, "no_prefill")
                /\ UNCHANGED backend
           ELSE /\ GoTo(r, IF mode = "colocated" THEN "colocated" ELSE "prefill")
                /\ \E n \in LeastLoaded(found) : backend' = [backend EXCEPT ![r] = n]
    /\ UNCHANGED <<envVars, cands, attempted, sent, got, past>>

\* POST /v1/prefill answers; the node has called register_kv.
PrefillOk(r) ==
    /\ pc[r] = "prefill" /\ alive[Node(r)] /\ r \notin lost /\ redisUp
    /\ GoTo(r, "list")
    /\ UNCHANGED <<envVars, localVars, past>>

\* It does not, or with an error: the client is sent an error frame.
PrefillFail(r) ==
    /\ pc[r] = "prefill" /\ (r \in lost \/ ~alive[Node(r)] \/ ~redisUp)
    /\ GoTo(r, "prefill_failed")
    /\ lost' = lost \ {r}
    /\ UNCHANGED <<redisVars, alive, faults, localVars, past>>

\* select_decode has its candidates.
ListDecode(r) ==
    /\ ListEnds(r, "list")
    /\ LET found == Candidates(Listed(r), StaticDecodes)
       IN  /\ cands' = [cands EXCEPT ![r] = found]
           /\ GoTo(r, IF DOMAIN found = {} THEN "no_decode" ELSE "readpin")
    /\ UNCHANGED <<envVars, backend, attempted, sent, got, past>>

\* select_decode reads the pin: a hit if it names one of the candidates.
ReadPin(r) ==
    /\ pc[r] = "readpin" /\ redisUp
    /\ LET s == SessionOf[r]
       IN  IF s \in DOMAIN pins /\ pins[s] \in DOMAIN cands[r]
           THEN StartDecode(r, pins[s], "routed")
           ELSE /\ GoTo(r, "setpin")
                /\ \E n \in LeastLoaded(cands[r]) :
                        backend' = [backend EXCEPT ![r] = n]
                /\ UNCHANGED <<cands, attempted, got>>
    /\ UNCHANGED <<envVars, seen, sent, past>>

SetPin(r) ==
    /\ pc[r] = "setpin" /\ redisUp
    /\ pins' = SetKey(pins, SessionOf[r], backend[r])
    /\ StartDecode(r, backend[r], "routed")
    /\ UNCHANGED <<redisUp, registry, stale, alive, faults, lost, seen, sent, past>>

-------------------------------------------------------------------------------
(***************************************************************************)
(* The decode stream and the fallback loop.                                *)
(***************************************************************************)
Connected(r) == pc[r] \in Connections /\ alive[Node(r)] /\ r \notin lost

\* A token frame is passed on to the client.
TokenFrame(r) ==
    /\ pc[r] \in {"decode", "colocated"} /\ Connected(r) /\ got[r] < MaxTokens
    /\ sent' = [sent EXCEPT ![r] = Append(@, got[r])]
    /\ got' = [got EXCEPT ![r] = @ + 1]
    /\ UNCHANGED <<envVars, pc, backend, cands, seen, attempted, tally, past>>

\* So is the frame with a finish_reason; the request is over.
FinalFrame(r) ==
    /\ pc[r] = "decode" /\ Connected(r)
    /\ \/ got[r] = MaxTokens /\ GoTo(r, "ok")
       \/ got[r] = 0 /\ GoTo(r, "oom")
    /\ UNCHANGED <<envVars, localVars, past>>

\* The backend is not there any more.
DecodeBreaks(r) ==
    /\ pc[r] = "decode" /\ (r \in lost \/ ~alive[Node(r)])
    /\ GoTo(r, "fallback")
    /\ lost' = lost \ {r}
    /\ UNCHANGED <<redisVars, alive, faults, localVars, past>>

\* fallback_decode has its candidates and chooses among the others.
ListOthers(r) ==
    /\ ListEnds(r, "fallback")
    /\ cands' = [cands EXCEPT ![r] = Candidates(Listed(r), StaticDecodes)]
    /\ LET others == Others(Candidates(Listed(r), StaticDecodes), backend[r])
       IN  IF DOMAIN others = {}
           THEN /\ GoTo(r, "decode_failed")
                /\ UNCHANGED backend
           ELSE /\ GoTo(r, "repin")
                /\ \E n \in LeastLoaded(others) :
                        backend' = [backend EXCEPT ![r] = n]
    /\ UNCHANGED <<envVars, attempted, sent, got, past>>

\* It re-pins the session; then the loop looks whether it was tried before.
Repin(r) ==
    /\ pc[r] = "repin" /\ redisUp
    /\ pins' = SetKey(pins, SessionOf[r], backend[r])
    /\ IF backend[r] \in attempted[r]
       THEN /\ GoTo(r, "decode_failed")
            /\ UNCHANGED <<backend, cands, attempted, got>>
       ELSE StartDecode(r, backend[r], "fallback")
    /\ UNCHANGED <<redisUp, registry, stale, alive, faults, lost, seen, sent, past>>

\* No method of RedisState but ping catches: before the stream has begun the
\* exception is a 500, afterwards the stream just ends.
RedisRaises(r) ==
    /\ pc[r] \in RedisStages /\ ~redisUp
    /\ GoTo(r, IF pc[r] = "choose" THEN "http_500" ELSE "cut")
    /\ seen' = [seen EXCEPT ![r] = {}]
    /\ UNCHANGED <<envVars, backend, cands, attempted, sent, got, past>>

-------------------------------------------------------------------------------
(***************************************************************************)
(* _generate_colocated.  There is no fallback; the handler reads on after  *)
(* the final frame, up to the "[DONE]" that follows it.                    *)
(***************************************************************************)
\* How a client that is sent no error frame takes the end of its stream.
EndSeen(r) == IF pc[r] = "closing" /\ got[r] = 0 THEN "oom" ELSE "ok"

WorkerFinal(r) ==
    /\ pc[r] = "colocated" /\ Connected(r)
    /\ got[r] \in {0, MaxTokens}
    /\ GoTo(r, "closing")
    /\ UNCHANGED <<envVars, localVars, past>>

WorkerDone(r) ==
    /\ pc[r] = "closing" /\ Connected(r)
    /\ GoTo(r, EndSeen(r))
    /\ UNCHANGED <<envVars, localVars, past>>

\* The connection breaks and the client is sent an error frame, after a final
\* frame if it got that; or the stream just ends, which leaves the loop as the
\* "[DONE]" does: no error frame, whatever tokens are missing.
WorkerBreaks(r) ==
    /\ pc[r] \in {"colocated", "closing"} /\ ~Connected(r)
    /\ GoTo(r, "worker_failed") \/ GoTo(r, EndSeen(r))
    /\ lost' = lost \ {r}
    /\ UNCHANGED <<redisVars, alive, faults, localVars, past>>

-------------------------------------------------------------------------------
Handler(r) ==
    \/ Visit(r) \/ ChoosePrefill(r) \/ PrefillOk(r) \/ PrefillFail(r)
    \/ ListDecode(r) \/ ReadPin(r) \/ SetPin(r)
    \/ TokenFrame(r) \/ FinalFrame(r) \/ DecodeBreaks(r)
    \/ ListOthers(r) \/ Repin(r) \/ RedisRaises(r)
    \/ WorkerFinal(r) \/ WorkerDone(r) \/ WorkerBreaks(r)

-------------------------------------------------------------------------------
(***************************************************************************)
(* Nodes and Redis.                                                        *)
(***************************************************************************)
Fault(kind) ==
    /\ kind \in FaultKinds
    /\ faults < MaxFaults
    /\ faults' = faults + 1

\* register_backend, with the load of the moment.
Heartbeat(n) ==
    /\ alive[n] /\ redisUp
    /\ \E load \in Loads : registry' = SetKey(registry, n, load)
    /\ stale' = stale \ {n}
    /\ UNCHANGED <<redisUp, pins, alive, faults, lost, reqVars>>

\* heartbeat_ttl passes without a heartbeat.  Heartbeat.tla shows that with
\* Redis up this cannot happen to a node that runs and had a beat; it can to an
\* entry left from before the node crashed, or before Redis was out, at any
\* moment up to the node's next beat.
EntryExpires(n) ==
    /\ n \in stale
    /\ registry' = DropKey(registry, n)
    /\ stale' = stale \ {n}
    /\ UNCHANGED <<redisUp, pins, alive, faults, lost, reqVars>>

\* A node crashes or is stopped.  Nothing removes its registry entry.
Crash(n) ==
    /\ alive[n] /\ Fault("crash")
    /\ alive' = [alive EXCEPT ![n] = FALSE]
    /\ stale' = stale \cup (DOMAIN registry \cap {n})
    /\ lost' = lost \cup {r \in Reqs : pc[r] \in Connections /\ Node(r) = n}
    /\ UNCHANGED <<redisUp, registry, pins, reqVars>>

Restart(n) ==
    /\ ~alive[n]
    /\ alive' = [alive EXCEPT ![n] = TRUE]
    /\ UNCHANGED <<redisVars, faults, lost, reqVars>>

\* A live node takes longer than the client's read timeout.
StreamTimesOut(r) ==
    /\ pc[r] \in Connections \ {"prefill"} /\ Fault("timeout")
    /\ GoTo(r, IF pc[r] = "decode" THEN "fallback" ELSE "worker_failed")
    /\ lost' = lost \ {r}
    /\ UNCHANGED <<redisVars, alive, localVars, past>>

\* A live prefill node answers 500 (no memory) or too late.
PrefillErrs(r) ==
    /\ pc[r] = "prefill" /\ Fault("prefill")
    /\ GoTo(r, "prefill_failed")
    /\ lost' = lost \ {r}
    /\ UNCHANGED <<redisVars, alive, localVars, past>>

\* The client goes away and the handler is cancelled.
HangUp(r) ==
    /\ InFlight(r) /\ pc[r] # "choose" /\ Fault("hangup")
    /\ GoTo(r, "gone")
    /\ seen' = [seen EXCEPT ![r] = {}]
    /\ lost' = lost \ {r}
    /\ UNCHANGED <<redisVars, alive, backend, cands, attempted, sent, got, past>>

\* session_ttl passes: it counts from the last write, not the last use.
PinExpires(s) ==
    /\ s \in DOMAIN pins /\ Fault("expiry")
    /\ pins' = DropKey(pins, s)
    /\ UNCHANGED <<redisUp, registry, stale, alive, lost, reqVars>>

RedisFails ==
    /\ redisUp /\ Fault("redis")
    /\ redisUp' = FALSE
    /\ stale' = DOMAIN registry
    /\ UNCHANGED <<registry, pins, alive, lost, reqVars>>

\* It comes back with what it had, or empty after a restart.
RedisReturns ==
    /\ ~redisUp
    /\ redisUp' = TRUE
    /\ \/ UNCHANGED <<registry, stale, pins>>
       \/ registry' = NoKeys /\ stale' = {} /\ pins' = NoKeys
    /\ UNCHANGED <<alive, faults, lost, reqVars>>

Environment ==
    \/ \E n \in Nodes : Heartbeat(n) \/ EntryExpires(n) \/ Crash(n) \/ Restart(n)
    \/ \E r \in Reqs : StreamTimesOut(r) \/ PrefillErrs(r) \/ HangUp(r)
    \/ \E s \in Sessions : PinExpires(s)
    \/ RedisFails
    \/ RedisReturns

Next ==
    /\ \/ \E r \in Reqs : Arrive(r) \/ Handler(r)
       \/ Environment
    /\ UNCHANGED mode

(***************************************************************************)
(* Every handler is scheduled; a live backend delivers (TokenStream's      *)
(* fairness) and a dead one is noticed by the connection or its timeout.   *)
(***************************************************************************)
Spec == Init /\ [][Next]_vars /\ \A r \in Reqs : WF_vars(Handler(r) /\ UNCHANGED mode)

-------------------------------------------------------------------------------
(***************************************************************************)
(* Types.                                                                  *)
(***************************************************************************)
TypeOK ==
    /\ mode \in Modes
    /\ DOMAIN registry \subseteq Nodes /\ \A n \in DOMAIN registry : registry[n] \in Loads
    /\ stale \subseteq DOMAIN registry
    /\ DOMAIN pins \subseteq Sessions /\ \A s \in DOMAIN pins : pins[s] \in DecodeNames
    /\ alive \in [Nodes -> BOOLEAN] /\ faults \in 0..MaxFaults
    /\ pc \in [Reqs -> {"new"} \cup Stages \cup Outcomes]
    /\ \A r \in Reqs :
        /\ pc[r] \in {"setpin", "decode", "fallback", "repin"} => backend[r] \in DecodeNames
        /\ pc[r] \in Connections \ {"decode"} => backend[r] \in PrefillNames
        /\ attempted[r] \subseteq DecodeNames
    /\ got \in [Reqs -> 0..MaxTokens]
    /\ \A r \in Reqs : seen[r] # {} => pc[r] \in ListStages
    /\ tally \in [Labels -> Nat]
    /\ lost \subseteq {r \in Reqs : pc[r] \in Connections}

(***************************************************************************)
(* Whatever was sent by backends that failed, a disaggregated request that *)
(* ends well ends with all its tokens from one backend: 0, 1, 2... in a    *)
(* row (main.py:169-170).  A colocated one may not: see WorkerBreaks.      *)
(***************************************************************************)
OkIsComplete ==
    \A r \in Reqs : mode = "disaggregated" /\ pc[r] = "ok" =>
        LET before == Len(sent[r]) - MaxTokens
        IN  before >= 0 /\ \A i \in 1..MaxTokens : sent[r][before + i] = i - 1

(***************************************************************************)
(* One crash of a node does not fail a request in its decode stage while   *)
(* another decode node is up: neither a stale registry entry, nor a pin to *)
(* the dead node, nor a break in mid-stream.                               *)
(***************************************************************************)
CrashSurvived == \A r \in Reqs : pc[r] \notin {"decode_failed", "no_decode"}

(***************************************************************************)
(* The system heals: whatever happened before, a request that arrives when *)
(* Redis answers, every registered prefill node is up, and one node of     *)
(* either role is up and had a heartbeat since the faults that concern it, *)
(* and that meets no fault of its own, is served.  Neither a stale entry,  *)
(* there or expiring under way, nor a stale pin nor what earlier requests  *)
(* left behind fails it.                                                   *)
(***************************************************************************)
ServedWhenFit ==
    \A r \in Reqs :
        past[r].well /\ faults = past[r].faults =>
            pc[r] \in {"new", "ok", "oom"} \cup Stages

(***************************************************************************)
(* ROUTING_DECISIONS counts the decode attempts: one for each backend a    *)
(* request was sent to, and no backend twice for the same request.         *)
(***************************************************************************)
DecisionsAreAttempts ==
    tally["routed"] + tally["fallback"] =
         Cardinality(UNION {{r} \X attempted[r] : r \in Reqs})

(***************************************************************************)
(* The router gives up a request only after trying every backend it knew   *)
(* of: "If that node fails, the router falls back to another live decode   *)
(* node" (README.md:153).  Holds for two decode nodes, not for three.  A   *)
(* request that tried a made-up name is excepted: that name may stand for  *)
(* a node it then tries again, or not, under the name it registered.       *)
(***************************************************************************)
GivesUpOnlyWhenAllTried ==
    [][\A r \in Reqs :
        /\ pc[r] # "decode_failed" /\ pc'[r] = "decode_failed"
        /\ attempted[r] \cap StaticDecodes = {}
        => DOMAIN cands'[r] \subseteq attempted[r]]_vars

(***************************************************************************)
(* A turn that arrives when every other turn of its session is over goes   *)
(* to a backend that served one of them, as long as nothing failed: not a  *)
(* third one, whatever the races of earlier turns left as the pin.         *)
(***************************************************************************)
TurnsStick ==
    \A r \in Reqs :
        faults = 0 /\ pc[r] \in {"decode", "ok"} /\ past[r].calm /\ past[r].by # {} =>
            backend[r] \in past[r].by

(***************************************************************************)
(* "Repeated requests with the same session_id are pinned to the decode    *)
(* node that first served them" (README.md:152): the same for a turn that  *)
(* arrives while others run.  Two first turns that both find no pin break  *)
(* it.                                                                     *)
(***************************************************************************)
ServedTurnsPin ==
    \A r \in Reqs :
        pc[r] \in {"decode", "ok"} /\ past[r].by # {} => backend[r] \in past[r].by

(***************************************************************************)
(* "Every method degrades gracefully if Redis is briefly unavailable       *)
(* rather than crashing the request path" (redis_client.py:12-13).         *)
(***************************************************************************)
RedisOutageHarmless == \A r \in Reqs : pc[r] \notin {"http_500", "cut"}

(***************************************************************************)
(* A client is never sent more tokens than it asked for (models.py:18),    *)
(* nor a token twice.  A fallback in mid-stream starts again from 0.       *)
(***************************************************************************)
NoTokenTwice ==
    \A r \in Reqs : \A i, j \in 1..Len(sent[r]) : i < j => sent[r][i] < sent[r][j]

(***************************************************************************)
(* Every request comes to an end: the fallback loop does not go round      *)
(* among failing backends for ever.                                        *)
(***************************************************************************)
EveryRequestEnds == \A r \in Reqs : pc[r] = "choose" ~> pc[r] \in Outcomes
===============================================================================
