---------------------------- MODULE HeartbeatProofs ----------------------------
(***************************************************************************)
(* Heartbeat's two promises, for every interval, TTL and delay that suit   *)
(* each other.                                                             *)
(*                                                                         *)
(* The invariant behind the first: with node and Redis up, the time by     *)
(* which the next registration is executed is either before the entry      *)
(* expires, or within a beat of the moment both came up.  Behind the       *)
(* second: an entry never has more than TTL to live, and a dead node's was *)
(* last written by Delay after its death.                                  *)
(***************************************************************************)
EXTENDS Heartbeat, TLAPS

TypeInv ==
    /\ now \in Nat /\ since \in Nat /\ expires \in Nat
    /\ steady \in Nat /\ died \in Nat
    /\ loop \in {"asleep", "sending", "sent", "dead"}
    /\ late \in BOOLEAN
    /\ redis \in {"up", "down"}

\* No wait lasts longer than it should.
Timely ==
    /\ since <= now /\ steady <= now /\ died <= now
    /\ loop = "asleep" => now <= since + Interval
    /\ loop \in {"sending", "sent"} => now <= since + Delay

\* When the next registration is executed at the latest.
Due ==
    IF loop = "asleep" THEN since + Interval + Delay
    ELSE IF loop = "sending" THEN since + Delay
    ELSE since + Beat

Covered ==
    loop # "dead" /\ redis = "up" => expires > Due \/ Due <= steady + Beat

\* The entry has at most TTL to live.
ShortLived ==
    /\ expires <= now + TTL
    /\ loop = "dead" => expires <= died + Delay + TTL

IInv == TypeInv /\ Timely /\ Covered /\ ShortLived

-------------------------------------------------------------------------------
LEMMA InitInv == GoodSettings /\ Init => IInv
<1> SUFFICES ASSUME GoodSettings, Init PROVE IInv
  OBVIOUS
<1>1. TypeInv
  BY DEF Init, TypeInv
<1>2. Timely
  BY DEF GoodSettings, Init, Timely
<1>3. Covered
  BY DEF GoodSettings, Init, Covered, Due, Beat
<1>4. ShortLived
  BY DEF GoodSettings, Init, ShortLived
<1> QED
  BY <1>1, <1>2, <1>3, <1>4 DEF IInv

\* Each step keeps the invariant: one case per action.
LEMMA StepInv == GoodSettings /\ IInv /\ [Next]_vars => IInv'
<1> SUFFICES ASSUME GoodSettings, IInv, [Next]_vars PROVE IInv'
  OBVIOUS
<1> USE DEF GoodSettings, IInv, TypeInv, Timely, Due, Beat, Covered, ShortLived, GoTo, SetEntry
<1>1. CASE Wake
  BY <1>1 DEF Wake
<1>2. CASE Execute
  BY <1>2 DEF Execute
<1>3. CASE Return
  BY <1>3 DEF Return
<1>4. CASE Raise
  BY <1>4 DEF Raise
<1>5. CASE Die
  BY <1>5 DEF Die
<1>6. CASE LateExecute
  <2>1. /\ late' \in BOOLEAN /\ expires' = now + TTL /\ redis' = redis
        /\ now <= died + Delay
        /\ UNCHANGED <<now, loop, since, steady, died>>
    BY <1>6 DEF LateExecute
  <2>2. TypeInv'
    BY <2>1
  <2>3. Timely' /\ Covered' /\ ShortLived'
    BY <2>1
  <2> QED
    BY <2>2, <2>3
<1>7. CASE Start
  BY <1>7 DEF Start
<1>8. CASE RedisFails
  BY <1>8 DEF RedisFails
<1>9. CASE RedisReturns
  BY <1>9 DEF RedisReturns
<1>10. CASE Tick
  BY <1>10 DEF Tick
<1>11. CASE UNCHANGED vars
  BY <1>11 DEF vars
<1> QED
  BY <1>1, <1>2, <1>3, <1>4, <1>5, <1>6, <1>7, <1>8, <1>9, <1>10, <1>11 DEF Next

(***************************************************************************)
(* Whenever the settings suit the delays, a node that has been up for a    *)
(* beat with Redis up is registered, whatever failed before.               *)
(***************************************************************************)
THEOREM LiveNodesStayListed ==
    ASSUME GoodSettings PROVE Spec => []LiveIsListed
<1>1. IInv => LiveIsListed
  BY GoodSettings
     DEF GoodSettings, IInv, TypeInv, Timely, Due, Beat, Covered, LiveIsListed, Listed
<1> QED
  BY GoodSettings, InitInv, StepInv, <1>1, PTL DEF Spec

(***************************************************************************)
(* The entry of a node that died is gone within Delay and TTL, although    *)
(* nobody removes it and its last registration may come late.              *)
(***************************************************************************)
THEOREM DeadNodesDropOut ==
    ASSUME GoodSettings PROVE Spec => []DeadDropsOut
<1>1. IInv => DeadDropsOut
  BY GoodSettings
     DEF GoodSettings, IInv, TypeInv, ShortLived, DeadDropsOut, Listed
<1> QED
  BY GoodSettings, InitInv, StepInv, <1>1, PTL DEF Spec
===============================================================================
