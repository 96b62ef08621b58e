------------------------------- MODULE Heartbeat -------------------------------
(***************************************************************************)
(* common/node.py and RedisState.register_backend: how one worker node     *)
(* keeps its entry in the registry, and how the entry outlives the node.   *)
(* Router lets heartbeats and expiries happen when they may; this module   *)
(* has the times.                                                          *)
(*                                                                         *)
(* Time is counted in any unit.  A registration that Redis answers is      *)
(* answered within Delay, which also covers the lateness of the event      *)
(* loop; a Redis that takes the command and never answers is left out (the *)
(* client sets no timeout: the loop would hang with it).                   *)
(***************************************************************************)
EXTENDS Integers

CONSTANTS
    Interval,   \* Settings.heartbeat_interval
    TTL,        \* Settings.heartbeat_ttl
    Delay,      \* the longest a registration takes
    MaxTime     \* bound on the clock, for TLC; the theorems leave it open

VARIABLES
    now,        \* the time
    loop,       \* where heartbeat_loop is: "asleep", "sending" a registration,
                \* "sent" (executed and not yet answered), or "dead"
    since,      \* when the loop got there; it is "sent" since it was "sending"
    late,       \* a dead node's last registration may still be under way
    expires,    \* when the entry expires; it is there while now < expires
    redis,      \* "up" or "down"
    steady,     \* history: when both Redis and the node last came up
    died        \* history: when the node last went down

vars == <<now, loop, since, late, expires, redis, steady, died>>

Init ==
    /\ now = 0 /\ since = 0 /\ expires = 0 /\ steady = 0 /\ died = 0
    /\ loop = "sending"
    /\ late = FALSE
    /\ redis = "up"

Listed == now < expires

GoTo(l) == loop' = l /\ since' = now

\* SET with ex: the entry lives TTL longer.
SetEntry == expires' = now + TTL

-------------------------------------------------------------------------------
\* asyncio.sleep is over and the next registration starts.
Wake ==
    /\ loop = "asleep" /\ now >= since + Interval
    /\ GoTo("sending")
    /\ UNCHANGED <<now, late, expires, redis, steady, died>>

\* Redis executes it.
Execute ==
    /\ loop = "sending" /\ redis = "up"
    /\ SetEntry
    /\ loop' = "sent"
    /\ UNCHANGED <<now, since, late, redis, steady, died>>

\* register_backend returns.
Return ==
    /\ loop = "sent"
    /\ GoTo("asleep")
    /\ UNCHANGED <<now, late, expires, redis, steady, died>>

\* It raises, for Redis is away, or was when it started; the loop goes on.
Raise ==
    /\ loop \in {"sending", "sent"}
    /\ redis = "down" \/ since <= steady
    /\ GoTo("asleep")
    /\ UNCHANGED <<now, late, expires, redis, steady, died>>

\* The node is killed, or lifespan ends and cancels the task: nobody removes
\* the entry, and a registration already sent still reaches Redis.
Die ==
    /\ loop # "dead"
    /\ GoTo("dead")
    /\ late' = (late \/ (loop = "sending" /\ redis = "up"))
    /\ died' = now
    /\ UNCHANGED <<now, expires, redis, steady>>

LateExecute ==
    /\ late /\ redis = "up"
    /\ now <= died + Delay
    /\ SetEntry
    /\ late' = FALSE
    /\ UNCHANGED <<now, loop, since, redis, steady, died>>

\* The node starts again.  It registers at once.
Start ==
    /\ loop = "dead"
    /\ GoTo("sending")
    /\ steady' = now
    /\ UNCHANGED <<now, late, expires, redis, died>>

\* Redis goes away, and comes back with its data or without.
RedisFails ==
    /\ redis = "up"
    /\ redis' = "down"
    /\ late' = FALSE
    /\ UNCHANGED <<now, loop, since, expires, steady, died>>

RedisReturns ==
    /\ redis = "down"
    /\ redis' = "up"
    /\ expires' \in {expires, 0}
    /\ steady' = now
    /\ UNCHANGED <<now, loop, since, late, died>>

\* Time passes, but no sleep lasts longer than it should and no registration
\* takes longer than Delay.
Tick ==
    /\ loop = "asleep" => now < since + Interval
    /\ loop \in {"sending", "sent"} => now < since + Delay
    /\ late => now < died + Delay
    /\ now < MaxTime
    /\ now' = now + 1
    /\ UNCHANGED <<loop, since, late, expires, redis, steady, died>>

Next ==
    \/ Wake \/ Execute \/ Return \/ Raise \/ Die \/ LateExecute \/ Start
    \/ RedisFails \/ RedisReturns \/ Tick

Spec == Init /\ [][Next]_vars
-------------------------------------------------------------------------------
\* What the settings must satisfy; nothing in config.py checks it.  The
\* shipped 10 s and 3 s leave a registration almost 3.5 s.
GoodSettings ==
    /\ Interval \in Nat /\ TTL \in Nat /\ Delay \in Nat /\ MaxTime \in Nat
    /\ TTL > Interval + 2 * Delay

\* The longest between two registrations of a node that is well.
Beat == Interval + 2 * Delay

(***************************************************************************)
(* A node that is up, with a Redis that is up, is in the registry from one *)
(* beat after either came up, whatever happened before: outages, an empty  *)
(* restart of Redis, crashes of the node.  In particular its entry never   *)
(* expires in the router's back.                                           *)
(***************************************************************************)
LiveIsListed ==
    loop # "dead" /\ redis = "up" /\ now > steady + Beat => Listed

(***************************************************************************)
(* A node that died is out of the registry in time, although the last word *)
(* it sent may reach Redis after its death.  (node.py:5: "If a worker      *)
(* dies, its entry expires and the router stops routing to it".)           *)
(***************************************************************************)
DeadDropsOut == loop = "dead" /\ now >= died + Delay + TTL => ~Listed
===============================================================================
