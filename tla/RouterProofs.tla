------------------------------ MODULE RouterProofs ------------------------------
(***************************************************************************)
(* The router keeps its types, completes what it calls complete, and       *)
(* counts each decode attempt once: for any nodes, made-up names, loads,   *)
(* requests, sessions, limits, and any number of faults of any kind.       *)
(*                                                                         *)
(* Then, each with an invariant of its own on top of that one: it survives *)
(* a crash (with no other fault, and two decode nodes), serves whenever it *)
(* is fit to, keeps the turns of a session together while nothing fails,   *)
(* and gives up only when all was tried (the second and the last for at    *)
(* most two decode nodes, which is where they hold).                       *)
(***************************************************************************)
EXTENDS Router, FiniteSetTheorems, TLAPS

Names == {"nobody"} \cup PrefillNames \cup DecodeNames

EnvInv ==
    /\ mode \in Modes
    /\ DOMAIN registry \subseteq Nodes /\ \A n \in DOMAIN registry : registry[n] \in Loads
    /\ stale \subseteq DOMAIN registry
    /\ DOMAIN pins \subseteq Sessions /\ \A s \in DOMAIN pins : pins[s] \in DecodeNames
    /\ alive \in [Nodes -> BOOLEAN] /\ faults \in 0..MaxFaults

TypeInv ==
    /\ pc \in [Reqs -> {"new"} \cup Stages \cup Outcomes]
    /\ backend \in [Reqs -> Names]
    /\ DOMAIN cands = Reqs /\ DOMAIN seen = Reqs
    /\ attempted \in [Reqs -> SUBSET DecodeNames]
    /\ sent \in [Reqs -> Seq(Nat)]
    /\ got \in [Reqs -> 0..MaxTokens]
    /\ tally \in [Labels -> Nat]
    /\ lost \subseteq Reqs

(***************************************************************************)
(* What a request works with fits the place where it is: a name it may     *)
(* connect to, a list of nodes of the role it asks for; and only one that  *)
(* is connected can lose its connection.                                   *)
(***************************************************************************)
PlaceInv(r) ==
    /\ pc[r] \in {"setpin", "decode", "fallback", "repin"} => backend[r] \in DecodeNames
    /\ pc[r] \in {"prefill", "colocated", "closing"} => backend[r] \in PrefillNames
    /\ pc[r] \in {"colocated", "closing"} => mode = "colocated"
    /\ pc[r] = "readpin" => DOMAIN cands[r] \subseteq DecodeNames
    /\ seen[r] # {} => pc[r] \in ListStages /\ DOMAIN cands[r] \subseteq RoleAt(pc[r])
    /\ r \in lost => pc[r] \in Connections

(***************************************************************************)
(* The client's stream ends with what the current backend sent: 0, 1, 2... *)
(***************************************************************************)
TokenInv(r) ==
    /\ got[r] <= Len(sent[r])
    /\ \A i \in 1..got[r] : sent[r][Len(sent[r]) - got[r] + i] = i - 1
    /\ pc[r] = "ok" /\ mode = "disaggregated" => got[r] = MaxTokens

\* Before its first decode attempt a request has tried nothing.
Early == {"new", "choose", "prefill", "list", "readpin", "setpin"}

EarlyInv(r) == pc[r] \in Early => attempted[r] = {}

ReqInv == \A r \in Reqs : PlaceInv(r) /\ TokenInv(r) /\ EarlyInv(r)

Attempts == UNION {{r} \X attempted[r] : r \in Reqs}

CountInv ==
    /\ IsFiniteSet(Attempts)
    /\ tally["routed"] + tally["fallback"] = Cardinality(Attempts)

Inv == EnvInv /\ TypeInv /\ ReqInv /\ CountInv

-------------------------------------------------------------------------------
(***************************************************************************)
(* A listing holds nodes of the role asked for.                            *)
(***************************************************************************)
LEMMA ListedRole ==
    ASSUME Inv, NEW r \in Reqs, pc[r] \in ListStages
    PROVE  /\ DOMAIN Listed(r) \subseteq RoleAt(pc[r])
           /\ \A n \in Unseen(r) :
                DOMAIN ReadKeys(FoundSoFar(r), registry, {n}) \subseteq RoleAt(pc[r])
<1>1. DOMAIN FoundSoFar(r) \subseteq RoleAt(pc[r])
  BY DEF Inv, ReqInv, PlaceInv, FoundSoFar, NoKeys
<1>2. \A keys : DOMAIN ReadKeys(FoundSoFar(r), registry, keys)
                    \subseteq DOMAIN FoundSoFar(r) \cup keys
  BY DEF ReadKeys
<1> QED
  BY <1>1, <1>2 DEF Listed, Unseen

(***************************************************************************)
(* The next token in a row keeps it one.                                   *)
(***************************************************************************)
LEMMA OneMoreToken ==
    ASSUME NEW q \in Seq(Nat), NEW g \in Nat, g <= Len(q),
           \A i \in 1..g : q[Len(q) - g + i] = i - 1
    PROVE  \A p : p = Append(q, g) =>
             /\ g + 1 <= Len(p)
             /\ \A i \in 1..(g + 1) : p[Len(p) - (g + 1) + i] = i - 1
<1>1. /\ Len(Append(q, g)) = Len(q) + 1 /\ Len(q) \in Nat
      /\ Append(q, g)[Len(q) + 1] = g
      /\ \A j \in 1..Len(q) : Append(q, g)[j] = q[j]
  OBVIOUS
<1>2. ASSUME NEW i \in 1..(g + 1)
      PROVE  Append(q, g)[Len(q) - g + i] = i - 1
  <2>1. CASE i = g + 1
    <3>1. Len(q) - g + i = Len(q) + 1 /\ i - 1 = g
      BY <1>1, <2>1
    <3> QED
      BY <1>1, <3>1
  <2>2. CASE i # g + 1
    <3>1. i \in 1..g /\ Len(q) - g + i \in 1..Len(q)
      BY <1>1, <2>2
    <3> QED
      BY <1>1, <3>1
  <2> QED
    BY <2>1, <2>2
<1>3. ASSUME NEW p, p = Append(q, g), NEW i \in 1..(g + 1)
      PROVE  p[Len(p) - (g + 1) + i] = i - 1
  <2>1. Len(p) = Len(q) + 1
    BY <1>1, <1>3
  <2>2. Len(p) - (g + 1) + i = Len(q) - g + i
    BY <1>1, <2>1
  <2> QED
    BY <1>2, <1>3, <2>2
<1>4. ASSUME NEW p, p = Append(q, g)
      PROVE  g + 1 <= Len(p)
  <2>1. Len(p) = Len(q) + 1
    BY <1>1, <1>4
  <2> QED
    BY <1>1, <2>1
<1> QED
  BY <1>3, <1>4

(***************************************************************************)
(* The candidates of a listing have names of decode backends.              *)
(***************************************************************************)
LEMMA CandidateNames ==
    ASSUME NEW found, DOMAIN found \subseteq Decodes
    PROVE  DOMAIN Candidates(found, StaticDecodes) \subseteq DecodeNames
BY DEF Candidates, DecodeNames

-------------------------------------------------------------------------------
(***************************************************************************)
(* GoTo moves one request and counts no decision.                          *)
(***************************************************************************)
LEMMA GoToEffect ==
    ASSUME TypeInv, NEW r \in Reqs, NEW stage \in Stages \cup Outcomes, GoTo(r, stage)
    PROVE  /\ pc' \in [Reqs -> {"new"} \cup Stages \cup Outcomes]
           /\ pc'[r] = stage /\ \A s \in Reqs \ {r} : pc'[s] = pc[s]
           /\ tally' \in [Labels -> Nat]
           /\ tally'["routed"] = tally["routed"] /\ tally'["fallback"] = tally["fallback"]
<1>1. pc' = [pc EXCEPT ![r] = stage]
  BY DEF GoTo
<1>2. "routed" \notin CountedAs(stage) /\ "fallback" \notin CountedAs(stage)
  BY DEF CountedAs
<1>3. tally' = [label \in Labels |-> IF label \in CountedAs(stage)
                                     THEN tally[label] + 1 ELSE tally[label]]
  BY DEF GoTo, Count
<1>4. tally' \in [Labels -> Nat]
  BY <1>3 DEF TypeInv
<1>5. "routed" \in Labels /\ "fallback" \in Labels
  BY DEF Labels
<1> QED
  BY <1>1, <1>2, <1>3, <1>4, <1>5 DEF TypeInv

(***************************************************************************)
(* A step that moves request r on, and changes at most its backend and     *)
(* lists besides, keeps Inv if it keeps what Inv says of r's place.        *)
(***************************************************************************)
LEMMA Moves ==
    ASSUME Inv, EnvInv', NEW r \in Reqs, NEW stage \in Stages \cup Outcomes,
           GoTo(r, stage), UNCHANGED <<attempted, sent, got>>,
           backend' \in [Reqs -> Names], DOMAIN cands' = Reqs, DOMAIN seen' = Reqs,
           \A s \in Reqs \ {r} :
               backend'[s] = backend[s] /\ cands'[s] = cands[s] /\ seen'[s] = seen[s],
           lost' \subseteq lost,
           PlaceInv(r)',
           stage \in Early => pc[r] \in Early,
           UNCHANGED mode,
           stage = "ok" /\ mode = "disaggregated" => got[r] = MaxTokens
    PROVE  Inv'
<1>1. /\ pc' \in [Reqs -> {"new"} \cup Stages \cup Outcomes]
      /\ pc'[r] = stage /\ \A s \in Reqs \ {r} : pc'[s] = pc[s]
      /\ tally' \in [Labels -> Nat]
      /\ tally'["routed"] = tally["routed"] /\ tally'["fallback"] = tally["fallback"]
  BY GoToEffect DEF Inv
<1>2. TypeInv'
  BY <1>1 DEF Inv, TypeInv
<1>3. PlaceInv(r)' /\ TokenInv(r)' /\ EarlyInv(r)'
  BY <1>1 DEF Inv, ReqInv, TokenInv, EarlyInv
<1>4. ASSUME NEW s \in Reqs \ {r}
      PROVE  PlaceInv(s)' /\ TokenInv(s)' /\ EarlyInv(s)'
  <2>1. PlaceInv(s) /\ TokenInv(s) /\ EarlyInv(s)
    BY DEF Inv, ReqInv
  <2>2. PlaceInv(s)'
    BY <1>1, <2>1 DEF PlaceInv, RoleAt
  <2> QED
    BY <1>1, <2>1, <2>2 DEF TokenInv, EarlyInv
<1>5. CountInv'
  BY <1>1 DEF Inv, CountInv, Attempts
<1> QED
  BY <1>2, <1>3, <1>4, <1>5 DEF Inv, ReqInv

(***************************************************************************)
(* So does one that starts an attempt at a backend not tried before.       *)
(***************************************************************************)
LEMMA Starts ==
    ASSUME Inv, EnvInv', NEW r \in Reqs, NEW name \in DecodeNames \ attempted[r],
           NEW decision \in {"routed", "fallback"},
           StartDecode(r, name, decision), UNCHANGED <<mode, seen, sent, lost>>,
           pc[r] \in {"readpin", "setpin", "repin"}
    PROVE  Inv'
<1>1. /\ pc' \in [Reqs -> {"new"} \cup Stages \cup Outcomes]
      /\ pc'[r] = "decode" /\ \A s \in Reqs \ {r} : pc'[s] = pc[s]
  BY DEF StartDecode, Inv, TypeInv, Stages
<1>2. /\ backend' \in [Reqs -> Names] /\ DOMAIN cands' = Reqs
      /\ backend'[r] = name
      /\ \A s \in Reqs \ {r} : backend'[s] = backend[s] /\ cands'[s] = cands[s]
  BY DEF StartDecode, Inv, TypeInv, Names
<1>3. /\ attempted' \in [Reqs -> SUBSET DecodeNames]
      /\ attempted'[r] = attempted[r] \cup {name}
      /\ \A s \in Reqs \ {r} : attempted'[s] = attempted[s]
  BY DEF StartDecode, Inv, TypeInv
<1>4. /\ got' \in [Reqs -> 0..MaxTokens] /\ got'[r] = 0
      /\ \A s \in Reqs \ {r} : got'[s] = got[s]
  BY RouterAssumption DEF StartDecode, Inv, TypeInv
<1>5. /\ tally' \in [Labels -> Nat]
      /\ tally'["routed"] + tally'["fallback"] = tally["routed"] + tally["fallback"] + 1
  <2>1. tally' = [label \in Labels |-> IF label \in {decision} THEN tally[label] + 1
                                       ELSE tally[label]]
    BY DEF StartDecode, Count
  <2>2. "routed" \in Labels /\ "fallback" \in Labels /\ tally \in [Labels -> Nat]
    BY DEF Labels, Inv, TypeInv
  <2> QED
    BY <2>1, <2>2
<1>6. TypeInv'
  BY <1>1, <1>2, <1>3, <1>4, <1>5 DEF Inv, TypeInv
<1>7. seen[r] = {} /\ r \notin lost /\ sent[r] \in Seq(Nat)
  BY DEF Inv, ReqInv, PlaceInv, ListStages, Connections, TypeInv
<1>8. PlaceInv(r)' /\ TokenInv(r)' /\ EarlyInv(r)'
  <2>1. PlaceInv(r)'
    BY <1>1, <1>2, <1>7 DEF PlaceInv
  <2>2. TokenInv(r)'
    BY <1>1, <1>4, <1>7 DEF TokenInv
  <2> QED
    BY <1>1, <2>1, <2>2 DEF EarlyInv, Early
<1>9. ASSUME NEW s \in Reqs \ {r}
      PROVE  PlaceInv(s)' /\ TokenInv(s)' /\ EarlyInv(s)'
  <2>1. PlaceInv(s) /\ TokenInv(s) /\ EarlyInv(s)
    BY DEF Inv, ReqInv
  <2>2. PlaceInv(s)'
    BY <1>1, <1>2, <2>1 DEF PlaceInv, RoleAt
  <2> QED
    BY <1>1, <1>3, <1>4, <2>1, <2>2 DEF TokenInv, EarlyInv
<1>10. CountInv'
  <2>1. Attempts' = Attempts \cup {<<r, name>>}
    BY <1>3 DEF Attempts
  <2>2. <<r, name>> \notin Attempts
    BY DEF Attempts
  <2>3. IsFiniteSet(Attempts') /\ Cardinality(Attempts') = Cardinality(Attempts) + 1
    BY <2>1, <2>2, FS_AddElement DEF Inv, CountInv
  <2> QED
    BY <1>5, <2>3 DEF Inv, CountInv
<1> QED
  BY <1>6, <1>8, <1>9, <1>10 DEF Inv, ReqInv

-------------------------------------------------------------------------------
(***************************************************************************)
(* Every step of a request, or of a fault that meets one, keeps Inv.       *)
(***************************************************************************)
LEMMA RequestStep ==
    ASSUME Inv, NEW r \in Reqs,
           Arrive(r) \/ Handler(r) \/ StreamTimesOut(r) \/ PrefillErrs(r) \/ HangUp(r),
           UNCHANGED mode
    PROVE  Inv'
<1> USE DEF Stages, Outcomes, Early
<1>0. /\ PlaceInv(r) /\ TokenInv(r) /\ EarlyInv(r)
      /\ backend \in [Reqs -> Names] /\ DOMAIN cands = Reqs /\ DOMAIN seen = Reqs
      /\ lost \subseteq Reqs
  BY DEF Inv, ReqInv, TypeInv
<1>1. UNCHANGED <<mode, envVars>> => EnvInv'
  BY DEF Inv, EnvInv, envVars, redisVars
<1>2. CASE Arrive(r)
  <2>1. pc[r] = "new" /\ GoTo(r, "choose") /\ UNCHANGED <<mode, envVars, localVars>>
    BY <1>2 DEF Arrive
  <2>2. PlaceInv(r)'
    BY <1>0, <2>1, GoToEffect DEF Inv, PlaceInv, envVars, localVars, Connections, ListStages
  <2>3. EnvInv'
    BY <1>1, <2>1 DEF envVars, redisVars
  <2>4. UNCHANGED <<attempted, sent, got, backend, cands, seen, lost>>
    BY <2>1 DEF envVars, localVars
  <2>5. "choose" \in Stages \cup Outcomes /\ pc[r] \in Early
    BY <2>1
  <2> QED
    BY <1>0, <2>1, <2>2, <2>3, <2>4, <2>5, Moves
<1>3. CASE Visit(r)
  <2>1. PICK n \in Unseen(r) :
            /\ cands' = [cands EXCEPT ![r] = ReadKeys(FoundSoFar(r), registry, {n})]
            /\ seen' = [seen EXCEPT ![r] = seen[r] \cup {n}]
    BY <1>3 DEF Visit
  <2>2. /\ pc[r] \in ListStages
        /\ UNCHANGED <<mode, envVars, pc, backend, attempted, sent, got, tally>>
    BY <1>3 DEF Visit
  <2>3. DOMAIN cands'[r] \subseteq RoleAt(pc[r]) /\ DOMAIN cands' = Reqs /\ DOMAIN seen' = Reqs
    BY <1>0, <2>1, <2>2, ListedRole
  <2>4. \A s \in Reqs \ {r} : cands'[s] = cands[s] /\ seen'[s] = seen[s]
    BY <1>0, <2>1
  <2>5. \A s \in Reqs : PlaceInv(s)'
    <3>1. PlaceInv(r)'
      BY <1>0, <2>2, <2>3 DEF PlaceInv, RoleAt, ListStages, envVars
    <3>2. ASSUME NEW s \in Reqs \ {r}
          PROVE  PlaceInv(s)'
      <4>1. PlaceInv(s)
        BY DEF Inv, ReqInv
      <4> QED
        BY <2>2, <2>4, <4>1 DEF PlaceInv, RoleAt, envVars
    <3> QED
      BY <3>1, <3>2
  <2>6. \A s \in Reqs : TokenInv(s)' /\ EarlyInv(s)'
    BY <2>2 DEF Inv, ReqInv, TokenInv, EarlyInv
  <2>7. EnvInv' /\ TypeInv' /\ CountInv'
    BY <1>1, <2>2, <2>3 DEF Inv, TypeInv, CountInv, Attempts, envVars, redisVars
  <2> QED
    BY <2>5, <2>6, <2>7 DEF Inv, ReqInv
<1>4. CASE ChoosePrefill(r)
  <2>1. /\ pc[r] = "choose" /\ seen' = [seen EXCEPT ![r] = {}]
        /\ UNCHANGED <<mode, envVars, cands, attempted, sent, got>>
    BY <1>4 DEF ChoosePrefill, ListEnds
  <2>2. r \notin lost /\ attempted[r] = {}
    BY <1>0, <2>1 DEF PlaceInv, EarlyInv, Connections
  <2>3. CASE GoTo(r, "no_prefill") /\ UNCHANGED backend
    <3>1. PlaceInv(r)'
      BY <1>0, <2>1, <2>2, <2>3, GoToEffect DEF Inv, PlaceInv, envVars
    <3> QED
      BY <1>0, <1>1, <2>1, <2>3, <3>1, Moves DEF envVars, redisVars
  <2>4. ASSUME NEW stage \in {"colocated", "prefill"}, GoTo(r, stage),
               stage = "colocated" => mode = "colocated",
               NEW n \in LeastLoaded(Candidates(Listed(r), StaticPrefills)),
               backend' = [backend EXCEPT ![r] = n]
        PROVE  Inv'
    <3>1. n \in PrefillNames
      BY <2>1, ListedRole DEF LeastLoaded, RoleAt, ListStages, Candidates, PrefillNames
    <3>2. backend'[r] = n /\ backend' \in [Reqs -> Names]
      BY <1>0, <2>4, <3>1 DEF Names
    <3>3. PlaceInv(r)'
      BY <1>0, <2>1, <2>2, <2>4, <3>1, <3>2, GoToEffect DEF Inv, PlaceInv, envVars
    <3> QED
      BY <1>0, <1>1, <2>1, <2>4, <3>2, <3>3, Moves DEF envVars, redisVars
  <2> QED
    BY <1>4, <2>3, <2>4 DEF ChoosePrefill
<1>5. CASE PrefillOk(r)
  <2>1. /\ pc[r] = "prefill" /\ r \notin lost /\ GoTo(r, "list")
        /\ UNCHANGED <<mode, envVars, localVars>>
    BY <1>5 DEF PrefillOk
  <2>2. PlaceInv(r)'
    BY <1>0, <2>1, GoToEffect DEF Inv, PlaceInv, envVars, localVars, ListStages
  <2> QED
    BY <1>0, <1>1, <2>1, <2>2, Moves DEF envVars, redisVars, localVars
<1>6. ASSUME NEW stage \in {"prefill_failed", "fallback", "worker_failed", "ok", "oom"},
             GoTo(r, stage), stage = "ok" => mode # "disaggregated",
             pc[r] \in Connections, stage = "fallback" => pc[r] = "decode",
             lost' = lost \ {r}, UNCHANGED <<mode, redisVars, alive, localVars>>,
             faults' \in 0..MaxFaults
      PROVE  Inv'
  <2>1. PlaceInv(r)'
    BY <1>0, <1>6, GoToEffect DEF Inv, PlaceInv, localVars, ListStages, Connections
  <2>2. EnvInv'
    BY <1>6 DEF Inv, EnvInv, redisVars
  <2> QED
    BY <1>0, <1>6, <2>1, <2>2, Moves DEF localVars
<1>60. faults \in 0..MaxFaults /\ \A kind : Fault(kind) => faults' \in 0..MaxFaults
  BY RouterAssumption DEF Inv, EnvInv, Fault
<1>7. CASE PrefillFail(r) \/ PrefillErrs(r)
  BY <1>6, <1>60, <1>7 DEF PrefillFail, PrefillErrs, Connections
<1>8. CASE ListDecode(r)
  <2>1. /\ pc[r] = "list" /\ seen' = [seen EXCEPT ![r] = {}]
        /\ UNCHANGED <<mode, envVars, backend, attempted, sent, got>>
        /\ cands' = [cands EXCEPT ![r] = Candidates(Listed(r), StaticDecodes)]
    BY <1>8 DEF ListDecode, ListEnds
  <2>2. PICK stage \in {"no_decode", "readpin"} : GoTo(r, stage)
    BY <1>8 DEF ListDecode
  <2>3. DOMAIN cands'[r] \subseteq DecodeNames
    BY <1>0, <2>1, ListedRole, CandidateNames DEF RoleAt, ListStages
  <2>4. PlaceInv(r)'
    BY <1>0, <2>1, <2>2, <2>3, GoToEffect DEF Inv, PlaceInv, envVars, Connections
  <2> QED
    BY <1>0, <1>1, <2>1, <2>2, <2>4, Moves DEF envVars, redisVars
<1>9. CASE ReadPin(r)
  <2>1. pc[r] = "readpin" /\ UNCHANGED <<mode, envVars, seen, sent>>
    BY <1>9 DEF ReadPin
  <2>2. attempted[r] = {} /\ DOMAIN cands[r] \subseteq DecodeNames /\ r \notin lost /\ seen[r] = {}
    BY <1>0, <2>1 DEF PlaceInv, EarlyInv, Connections, ListStages
  <2>3. ASSUME NEW name \in DOMAIN cands[r], StartDecode(r, name, "routed")
        PROVE  Inv'
    BY <1>1, <2>1, <2>2, <2>3, Starts DEF envVars, redisVars
  <2>4. ASSUME GoTo(r, "setpin"), NEW n \in LeastLoaded(cands[r]),
               backend' = [backend EXCEPT ![r] = n], UNCHANGED <<cands, attempted, got>>
        PROVE  Inv'
    <3>1. n \in DecodeNames
      BY <2>2 DEF LeastLoaded
    <3>2. backend'[r] = n /\ backend' \in [Reqs -> Names]
      BY <1>0, <2>4, <3>1 DEF Names
    <3>3. PlaceInv(r)'
      BY <2>1, <2>2, <2>4, <3>1, <3>2, GoToEffect DEF Inv, PlaceInv, envVars
    <3> QED
      BY <1>0, <1>1, <2>1, <2>4, <3>2, <3>3, Moves DEF envVars, redisVars
  <2> QED
    BY <1>9, <2>3, <2>4 DEF ReadPin
<1>10. ASSUME pc[r] \in {"setpin", "repin"}, UNCHANGED <<mode, registry, stale, alive, faults>>,
              pins' = SetKey(pins, SessionOf[r], backend[r])
       PROVE  EnvInv' /\ backend[r] \in DecodeNames
  <2>1. backend[r] \in DecodeNames /\ SessionOf[r] \in Sessions
    BY <1>0, <1>10, RouterAssumption DEF PlaceInv
  <2>2. /\ DOMAIN pins' = DOMAIN pins \cup {SessionOf[r]}
        /\ pins'[SessionOf[r]] = backend[r]
        /\ \A s \in DOMAIN pins \ {SessionOf[r]} : pins'[s] = pins[s]
    BY <1>10 DEF SetKey
  <2>3. DOMAIN pins' \subseteq Sessions /\ \A s \in DOMAIN pins' : pins'[s] \in DecodeNames
    BY <2>1, <2>2 DEF Inv, EnvInv
  <2> QED
    BY <1>10, <2>1, <2>3 DEF Inv, EnvInv
<1>11. CASE SetPin(r)
  <2>1. attempted[r] = {} /\ backend[r] \in DecodeNames /\ EnvInv'
    BY <1>0, <1>10, <1>11 DEF SetPin, EarlyInv
  <2> QED
    BY <1>11, <2>1, Starts DEF SetPin
<1>12. CASE TokenFrame(r)
  <2>1. /\ pc[r] \in {"decode", "colocated"} /\ got[r] < MaxTokens
        /\ sent' = [sent EXCEPT ![r] = Append(sent[r], got[r])]
        /\ got' = [got EXCEPT ![r] = got[r] + 1]
        /\ UNCHANGED <<mode, envVars, pc, backend, cands, seen, attempted, tally>>
    BY <1>12 DEF TokenFrame
  <2>2. sent \in [Reqs -> Seq(Nat)] /\ got \in [Reqs -> 0..MaxTokens] /\ MaxTokens \in Nat
    BY RouterAssumption DEF Inv, TypeInv
  <2>3. /\ sent' \in [Reqs -> Seq(Nat)] /\ got' \in [Reqs -> 0..MaxTokens]
        /\ sent'[r] = Append(sent[r], got[r]) /\ got'[r] = got[r] + 1
        /\ \A s \in Reqs \ {r} : sent'[s] = sent[s] /\ got'[s] = got[s]
    BY <2>1, <2>2
  <2>4. TokenInv(r)'
    <3>1. /\ sent[r] \in Seq(Nat) /\ Len(sent[r]) \in Nat /\ got[r] \in Nat
          /\ got[r] <= Len(sent[r])
          /\ \A i \in 1..got[r] : sent[r][Len(sent[r]) - got[r] + i] = i - 1
      BY <1>0, <2>2 DEF TokenInv
    <3>2. /\ got[r] + 1 <= Len(sent'[r])
          /\ \A i \in 1..(got[r] + 1) : sent'[r][Len(sent'[r]) - (got[r] + 1) + i] = i - 1
      BY <2>3, <3>1, OneMoreToken
    <3>3. pc'[r] # "ok" /\ got'[r] = got[r] + 1
      BY <2>1, <2>3
    <3> QED
      BY <3>2, <3>3 DEF TokenInv
  <2>5. \A s \in Reqs \ {r} : TokenInv(s)'
    BY <2>1, <2>3 DEF Inv, ReqInv, TokenInv
  <2>6. \A s \in Reqs : PlaceInv(s)' /\ EarlyInv(s)'
    BY <2>1 DEF Inv, ReqInv, PlaceInv, RoleAt, EarlyInv, envVars
  <2>7. EnvInv' /\ TypeInv' /\ CountInv'
    BY <1>1, <2>1, <2>3 DEF Inv, TypeInv, CountInv, Attempts, envVars, redisVars
  <2> QED
    BY <2>4, <2>5, <2>6, <2>7 DEF Inv, ReqInv
<1>13. ASSUME NEW stage \in {"ok", "oom", "closing"}, GoTo(r, stage), Connected(r),
              stage = "ok" /\ mode = "disaggregated" => got[r] = MaxTokens,
              stage = "closing" => pc[r] = "colocated",
              UNCHANGED <<mode, envVars, localVars>>
       PROVE  Inv'
  <2>1. PlaceInv(r)'
    BY <1>0, <1>13, GoToEffect
       DEF Inv, PlaceInv, Connected, envVars, localVars, ListStages, Connections
  <2> QED
    BY <1>0, <1>1, <1>13, <2>1, Moves DEF envVars, redisVars, localVars
<1>14. CASE FinalFrame(r) \/ WorkerFinal(r) \/ WorkerDone(r)
  <2>1. WorkerDone(r) => mode # "disaggregated"
    BY <1>0 DEF WorkerDone, PlaceInv
  <2> QED
    BY <1>13, <1>14, <2>1 DEF FinalFrame, WorkerFinal, WorkerDone, EndSeen
<1>15. CASE DecodeBreaks(r) \/ WorkerBreaks(r)
  <2>1. WorkerBreaks(r) => mode # "disaggregated"
    BY <1>0 DEF WorkerBreaks, PlaceInv
  <2> QED
    BY <1>6, <1>60, <1>15, <2>1 DEF DecodeBreaks, WorkerBreaks, EndSeen, Connections
<1>16. CASE ListOthers(r)
  <2>1. /\ pc[r] = "fallback" /\ seen' = [seen EXCEPT ![r] = {}]
        /\ UNCHANGED <<mode, envVars, attempted, sent, got>>
        /\ cands' = [cands EXCEPT ![r] = Candidates(Listed(r), StaticDecodes)]
    BY <1>16 DEF ListOthers, ListEnds
  <2>2. r \notin lost
    BY <1>0, <2>1 DEF PlaceInv, Connections
  <2>3. CASE GoTo(r, "decode_failed") /\ UNCHANGED backend
    <3>1. PlaceInv(r)'
      BY <1>0, <2>1, <2>2, <2>3, GoToEffect DEF Inv, PlaceInv, envVars
    <3> QED
      BY <1>0, <1>1, <2>1, <2>3, <3>1, Moves DEF envVars, redisVars
  <2>4. ASSUME NEW n \in LeastLoaded(Others(Candidates(Listed(r), StaticDecodes), backend[r])),
               GoTo(r, "repin"), backend' = [backend EXCEPT ![r] = n]
        PROVE  Inv'
    <3>1. n \in DecodeNames
      <4>1. DOMAIN Listed(r) \subseteq Decodes
        BY <2>1, ListedRole DEF RoleAt, ListStages
      <4>2. DOMAIN Candidates(Listed(r), StaticDecodes) \subseteq DecodeNames
        BY <4>1, CandidateNames
      <4>3. DOMAIN Others(Candidates(Listed(r), StaticDecodes), backend[r]) \subseteq DecodeNames
        BY <4>2 DEF Others, DropKey, Restrict
      <4> QED
        BY <4>3 DEF LeastLoaded
    <3>2. backend'[r] = n /\ backend' \in [Reqs -> Names]
      BY <1>0, <2>4, <3>1 DEF Names
    <3>3. PlaceInv(r)'
      BY <1>0, <2>1, <2>2, <2>4, <3>1, <3>2, GoToEffect DEF Inv, PlaceInv, envVars
    <3> QED
      BY <1>0, <1>1, <2>1, <2>4, <3>2, <3>3, Moves DEF envVars, redisVars
  <2> QED
    BY <1>16, <2>3, <2>4 DEF ListOthers
<1>17. CASE Repin(r)
  <2>1. /\ pc[r] = "repin" /\ pins' = SetKey(pins, SessionOf[r], backend[r])
        /\ UNCHANGED <<mode, registry, stale, alive, faults, lost, seen, sent>>
    BY <1>17 DEF Repin
  <2>2. EnvInv' /\ backend[r] \in DecodeNames
    BY <1>10, <2>1
  <2>3. CASE GoTo(r, "decode_failed") /\ UNCHANGED <<backend, cands, attempted, got>>
    <3>1. PlaceInv(r)'
      BY <1>0, <2>1, <2>3, GoToEffect DEF Inv, PlaceInv, Connections, ListStages
    <3> QED
      BY <1>0, <2>1, <2>2, <2>3, <3>1, Moves
  <2>4. CASE backend[r] \notin attempted[r] /\ StartDecode(r, backend[r], "fallback")
    BY <2>1, <2>2, <2>4, Starts
  <2> QED
    BY <1>17, <2>3, <2>4 DEF Repin
<1>18. CASE RedisRaises(r)
  <2>1. PICK stage \in {"http_500", "cut"} : GoTo(r, stage)
    BY <1>18 DEF RedisRaises
  <2>2. /\ pc[r] \in RedisStages /\ seen' = [seen EXCEPT ![r] = {}]
        /\ UNCHANGED <<mode, envVars, backend, cands, attempted, sent, got>>
    BY <1>18 DEF RedisRaises
  <2>3. PlaceInv(r)'
    BY <1>0, <2>1, <2>2, GoToEffect DEF Inv, PlaceInv, envVars, RedisStages, Connections
  <2> QED
    BY <1>0, <1>1, <2>1, <2>2, <2>3, Moves DEF envVars, redisVars
<1>19. CASE StreamTimesOut(r)
  BY <1>6, <1>60, <1>19 DEF StreamTimesOut, Connections
<1>20. CASE HangUp(r)
  <2>1. /\ GoTo(r, "gone") /\ seen' = [seen EXCEPT ![r] = {}] /\ lost' = lost \ {r}
        /\ UNCHANGED <<mode, redisVars, alive, backend, cands, attempted, sent, got>>
        /\ faults' \in 0..MaxFaults
    BY <1>20, <1>60 DEF HangUp
  <2>2. PlaceInv(r)'
    BY <1>0, <2>1, GoToEffect DEF Inv, PlaceInv
  <2>3. EnvInv'
    BY <2>1 DEF Inv, EnvInv, redisVars
  <2> QED
    BY <1>0, <2>1, <2>2, <2>3, Moves
<1> QED
  BY <1>2, <1>3, <1>4, <1>5, <1>7, <1>8, <1>9, <1>11, <1>12, <1>14, <1>15, <1>16,
     <1>17, <1>18, <1>19, <1>20 DEF Handler

(***************************************************************************)
(* So does every step that leaves the requests alone, or breaks            *)
(* connections.                                                            *)
(***************************************************************************)
LEMMA OutsideStep ==
    ASSUME Inv, UNCHANGED <<mode, reqVars>>, lost' \subseteq Reqs,
           \A r \in lost' : r \in lost \/ pc[r] \in Connections,
           EnvInv'
    PROVE  Inv'
<1>1. UNCHANGED <<pc, backend, cands, seen, attempted, sent, got, tally>>
  BY DEF reqVars, localVars
<1>2. TypeInv' /\ CountInv'
  BY <1>1 DEF Inv, TypeInv, CountInv, Attempts
<1>3. \A r \in Reqs : PlaceInv(r)' /\ TokenInv(r)' /\ EarlyInv(r)'
  BY <1>1 DEF Inv, ReqInv, PlaceInv, RoleAt, TokenInv, EarlyInv
<1> QED
  BY <1>2, <1>3 DEF Inv, ReqInv

(***************************************************************************)
(* Heartbeats, expiries, crashes and restarts keep Inv.                    *)
(***************************************************************************)
LEMMA NodeStep ==
    ASSUME Inv, UNCHANGED mode, NEW n \in Nodes,
           Heartbeat(n) \/ EntryExpires(n) \/ Crash(n) \/ Restart(n)
    PROVE  Inv'
<1>0. lost \subseteq Reqs
  BY DEF Inv, TypeInv
<1>1. CASE Heartbeat(n)
  <2>1. PICK load \in Loads : registry' = SetKey(registry, n, load)
    BY <1>1 DEF Heartbeat
  <2>2. stale' = stale \ {n} /\ UNCHANGED <<pins, alive, faults, lost, reqVars>>
    BY <1>1 DEF Heartbeat
  <2>3. /\ DOMAIN registry' = DOMAIN registry \cup {n} /\ registry'[n] = load
        /\ \A m \in DOMAIN registry \ {n} : registry'[m] = registry[m]
    BY <2>1 DEF SetKey
  <2>4. EnvInv'
    BY <2>2, <2>3 DEF Inv, EnvInv
  <2> QED
    BY <1>0, <2>2, <2>4, OutsideStep
<1>2. CASE EntryExpires(n)
  <2>1. /\ registry' = DropKey(registry, n) /\ stale' = stale \ {n}
        /\ UNCHANGED <<pins, alive, faults, lost, reqVars>>
    BY <1>2 DEF EntryExpires
  <2>2. /\ DOMAIN registry' = DOMAIN registry \ {n}
        /\ \A m \in DOMAIN registry \ {n} : registry'[m] = registry[m]
    BY <2>1 DEF DropKey, Restrict
  <2>3. EnvInv'
    BY <2>1, <2>2 DEF Inv, EnvInv
  <2> QED
    BY <1>0, <2>1, <2>3, OutsideStep
<1>3. CASE Crash(n)
  <2>1. /\ alive' = [alive EXCEPT ![n] = FALSE] /\ UNCHANGED <<registry, pins, reqVars>>
        /\ stale' = stale \cup (DOMAIN registry \cap {n})
        /\ lost' = lost \cup {r \in Reqs : pc[r] \in Connections /\ Node(r) = n}
    BY <1>3 DEF Crash
  <2>2. faults' \in 0..MaxFaults
    BY <1>3, RouterAssumption DEF Crash, Fault, Inv, EnvInv
  <2>3. EnvInv'
    BY <2>1, <2>2 DEF Inv, EnvInv
  <2> QED
    BY <1>0, <2>1, <2>3, OutsideStep
<1>4. CASE Restart(n)
  <2>1. /\ alive' = [alive EXCEPT ![n] = TRUE]
        /\ UNCHANGED <<registry, stale, pins, faults, lost, reqVars>>
    BY <1>4 DEF Restart, redisVars
  <2>2. EnvInv'
    BY <2>1 DEF Inv, EnvInv
  <2> QED
    BY <1>0, <2>1, <2>2, OutsideStep
<1> QED
  BY <1>1, <1>2, <1>3, <1>4

(***************************************************************************)
(* So do an outage of Redis, its return, and a pin that expires.           *)
(***************************************************************************)
LEMMA RedisStep ==
    ASSUME Inv, UNCHANGED mode,
           (\E s \in Sessions : PinExpires(s)) \/ RedisFails \/ RedisReturns
    PROVE  Inv'
<1>0. lost \subseteq Reqs
  BY DEF Inv, TypeInv
<1>1. ASSUME NEW s \in Sessions, PinExpires(s)
      PROVE  Inv'
  <2>1. pins' = DropKey(pins, s) /\ UNCHANGED <<registry, stale, alive, lost, reqVars>>
    BY <1>1 DEF PinExpires
  <2>2. /\ DOMAIN pins' = DOMAIN pins \ {s}
        /\ \A x \in DOMAIN pins \ {s} : pins'[x] = pins[x]
    BY <2>1 DEF DropKey, Restrict
  <2>3. faults' \in 0..MaxFaults
    BY <1>1, RouterAssumption DEF PinExpires, Fault, Inv, EnvInv
  <2>4. EnvInv'
    BY <2>1, <2>2, <2>3 DEF Inv, EnvInv
  <2> QED
    BY <1>0, <2>1, <2>4, OutsideStep
<1>2. CASE RedisFails
  <2>1. stale' = DOMAIN registry /\ UNCHANGED <<registry, pins, alive, lost, reqVars>>
    BY <1>2 DEF RedisFails
  <2>2. faults' \in 0..MaxFaults
    BY <1>2, RouterAssumption DEF RedisFails, Fault, Inv, EnvInv
  <2>3. EnvInv'
    BY <2>1, <2>2 DEF Inv, EnvInv
  <2> QED
    BY <1>0, <2>1, <2>3, OutsideStep
<1>3. CASE RedisReturns
  <2>1. UNCHANGED <<alive, faults, lost, reqVars>>
    BY <1>3 DEF RedisReturns
  <2>4. \/ registry' = registry /\ stale' = stale /\ pins' = pins
        \/ registry' = NoKeys /\ stale' = {} /\ pins' = NoKeys
    BY <1>3 DEF RedisReturns
  <2>2. DOMAIN NoKeys = {}
    BY DEF NoKeys
  <2>3. EnvInv'
    BY <2>1, <2>2, <2>4 DEF Inv, EnvInv
  <2> QED
    BY <1>0, <2>1, <2>3, OutsideStep
<1> QED
  BY <1>1, <1>2, <1>3

(***************************************************************************)
(* Inv holds at the start, whatever sessions Redis has kept.               *)
(***************************************************************************)
LEMMA InitInv == Init => Inv
<1> SUFFICES ASSUME Init PROVE Inv
  OBVIOUS
<1>1. EnvInv
  <2>1. PICK known \in SUBSET Sessions : pins \in [known -> DecodeNames]
    BY DEF Init
  <2> QED
    BY <2>1, RouterAssumption DEF Init, EnvInv
<1>2. TypeInv
  BY RouterAssumption DEF Init, TypeInv, Names
<1>3. ReqInv
  BY DEF Init, ReqInv, PlaceInv, TokenInv, EarlyInv
<1>4. CountInv
  <2>1. Attempts = {}
    BY DEF Init, Attempts
  <2>2. tally["routed"] = 0 /\ tally["fallback"] = 0
    BY DEF Init, Labels
  <2> QED
    BY <2>1, <2>2, FS_EmptySet DEF CountInv
<1> QED
  BY <1>1, <1>2, <1>3, <1>4 DEF Inv

(***************************************************************************)
(* Inv holds in every state.                                               *)
(***************************************************************************)
LEMMA Invariance == Spec => []Inv
<1>1. Inv /\ [Next]_vars => Inv'
  <2> SUFFICES ASSUME Inv, [Next]_vars PROVE Inv'
    OBVIOUS
  <2>1. CASE UNCHANGED vars
    <3>1. UNCHANGED <<mode, reqVars, registry, stale, pins, alive, faults, lost>>
      BY <2>1 DEF vars, envVars, redisVars
    <3>2. EnvInv'
      BY <3>1 DEF Inv, EnvInv
    <3>3. lost \subseteq Reqs
      BY DEF Inv, TypeInv
    <3> QED
      BY <3>1, <3>2, <3>3, OutsideStep
  <2>2. CASE Next
    BY <2>2, RequestStep, NodeStep, RedisStep DEF Next, Environment
  <2> QED
    BY <2>1, <2>2
<1> QED
  BY InitInv, <1>1, PTL DEF Spec

-------------------------------------------------------------------------------
(***************************************************************************)
(* The variables of the router keep their types, and a handler has a       *)
(* backend of the right role wherever it uses one (main.py:93-252).        *)
(***************************************************************************)
THEOREM RouterTypeCorrect == Spec => []TypeOK
<1>1. Inv => TypeOK
  <2> SUFFICES ASSUME Inv PROVE TypeOK
    OBVIOUS
  <2>1. \A r \in Reqs : PlaceInv(r)
    BY DEF Inv, ReqInv
  <2>2. \A r \in Reqs :
            /\ pc[r] \in {"setpin", "decode", "fallback", "repin"} => backend[r] \in DecodeNames
            /\ pc[r] \in Connections \ {"decode"} => backend[r] \in PrefillNames
            /\ attempted[r] \subseteq DecodeNames
            /\ seen[r] # {} => pc[r] \in ListStages
    BY <2>1 DEF Inv, TypeInv, PlaceInv, Connections
  <2>3. lost \subseteq {r \in Reqs : pc[r] \in Connections}
    BY <2>1 DEF Inv, TypeInv, PlaceInv
  <2> QED
    BY <2>2, <2>3 DEF Inv, EnvInv, TypeInv, TypeOK
<1> QED
  BY Invariance, <1>1, PTL

(***************************************************************************)
(* A disaggregated request that ends well has, at the end of what it was   *)
(* sent, all its tokens in order from one backend, whatever failed before  *)
(* (main.py:149-187).  Not so a colocated one, whose stream may just end   *)
(* (main.py:230-250).                                                      *)
(***************************************************************************)
THEOREM OkMeansComplete == Spec => []OkIsComplete
<1>1. Inv => OkIsComplete
  <2> SUFFICES ASSUME Inv, NEW r \in Reqs, pc[r] = "ok", mode = "disaggregated"
               PROVE  /\ Len(sent[r]) - MaxTokens >= 0
                      /\ \A i \in 1..MaxTokens :
                            sent[r][(Len(sent[r]) - MaxTokens) + i] = i - 1
    BY DEF OkIsComplete
  <2>1. TokenInv(r) /\ sent[r] \in Seq(Nat) /\ MaxTokens \in Nat
    BY RouterAssumption DEF Inv, ReqInv, TypeInv
  <2>2. got[r] = MaxTokens
    BY <2>1 DEF TokenInv
  <2>3. /\ MaxTokens <= Len(sent[r])
        /\ \A i \in 1..MaxTokens : sent[r][Len(sent[r]) - MaxTokens + i] = i - 1
    BY <2>1, <2>2 DEF TokenInv
  <2>4. Len(sent[r]) \in Nat
    BY <2>1
  <2> QED
    BY <2>1, <2>3, <2>4
<1> QED
  BY Invariance, <1>1, PTL

(***************************************************************************)
(* The routing decisions counted are the attempts made: one for each       *)
(* backend a request was sent to, none twice (main.py:131-184).            *)
(***************************************************************************)
THEOREM DecisionsCountAttempts == Spec => []DecisionsAreAttempts
<1>1. Inv => DecisionsAreAttempts
  BY DEF Inv, CountInv, Attempts, DecisionsAreAttempts
<1> QED
  BY Invariance, <1>1, PTL

-------------------------------------------------------------------------------
(***************************************************************************)
(* One crash at most, no other fault, and a decode node to spare.          *)
(***************************************************************************)
OneCrash ==
    /\ FaultKinds \subseteq {"crash"} /\ MaxFaults <= 1
    /\ \E d, e \in Decodes : d # e

\* The listing of r has found node n, or will.
Finds(r, n) == n \in DOMAIN registry /\ (n \in seen[r] => n \in DOMAIN cands[r])

(***************************************************************************)
(* What CrashSurvived rests on.  x alone may have crashed: the other nodes *)
(* are up and registered, every listing finds them, and only a request     *)
(* that began with x goes on to another.                                   *)
(***************************************************************************)
Survives(r, x) ==
    /\ \A n \in Nodes \ {x} : Finds(r, n)
    /\ pc[r] = "readpin" => DOMAIN cands[r] \subseteq Decodes
    /\ pc[r] \in {"setpin", "decode", "repin"} => backend[r] \in Decodes
    /\ pc[r] = "decode" /\ backend[r] = x => attempted[r] = {x}
    /\ pc[r] = "fallback" => backend[r] = x /\ attempted[r] = {x}
    /\ pc[r] = "repin" => backend[r] # x /\ attempted[r] = {x}
    /\ pc[r] \notin {"decode_failed", "no_decode"}

OnlyDown(x) ==
    /\ redisUp /\ stale \subseteq {x}
    /\ \A n \in Nodes \ {x} : n \in DOMAIN registry /\ alive[n]
    /\ \A r \in lost : Node(r) = x
    /\ \A r \in Reqs : Survives(r, x)

\* Before the crash it may be any node.
CrashInv ==
    /\ \E x \in Nodes : OnlyDown(x)
    /\ faults = 0 => \A x \in Nodes : OnlyDown(x)

-------------------------------------------------------------------------------
(***************************************************************************)
(* No third decode node: a fallback from one is to the other.              *)
(***************************************************************************)
AtMostTwo == \A d, e, f \in Decodes : d = e \/ d = f \/ e = f

(***************************************************************************)
(* What ServedWhenFit rests on: the system stays fit while no fault        *)
(* happens, and the request has, or will find, a backend that is up; or    *)
(* it tries its first, with another that is up to fall back to.  What its  *)
(* listing has to find is an entry that cannot expire under way.           *)
(***************************************************************************)
Keeps(r, n) == n \in Fresh /\ Finds(r, n)

Healthy(r) ==
    /\ FitToServe
    /\ r \notin lost
    /\ pc[r] \in {"ok", "oom"} \cup Stages
    /\ pc[r] = "choose" =>
            /\ \E n \in Prefills : Keeps(r, n)
            /\ seen[r] # {} => \A n \in DOMAIN cands[r] : alive[n]
    /\ pc[r] \in {"prefill", "colocated", "closing"} => alive[Node(r)]
    /\ pc[r] = "list" => \E d \in Decodes : Keeps(r, d) /\ alive[d]
    /\ pc[r] = "readpin" => DOMAIN cands[r] \subseteq Decodes
    /\ pc[r] \in {"setpin", "decode", "fallback", "repin"} => backend[r] \in Decodes
    /\ pc[r] = "decode" => alive[backend[r]] \/ attempted[r] = {backend[r]}
    /\ pc[r] = "fallback" =>
            /\ attempted[r] = {backend[r]}
            /\ \E d \in Decodes \ {backend[r]} : Keeps(r, d) /\ alive[d]
    /\ pc[r] = "repin" => backend[r] \notin attempted[r] /\ alive[backend[r]]

FitInv(r) ==
    /\ past[r].faults \in Nat /\ past[r].faults <= faults
    /\ past[r].well /\ faults = past[r].faults => Healthy(r)

-------------------------------------------------------------------------------
(***************************************************************************)
(* What TurnsStick rests on, as long as nothing failed.  The pin of a      *)
(* session that was served names a backend that serves or served it; and   *)
(* after a calm arrival nobody moves it.                                   *)
(***************************************************************************)
Served(r) == pc[r] \in {"decode", "ok", "oom"}

Sound(r) ==
    /\ \A n \in Nodes : Finds(r, n)
    /\ pc[r] \notin {"fallback", "repin", "colocated", "closing"}
    /\ pc[r] = "readpin" => DOMAIN cands[r] = Decodes
    /\ pc[r] = "setpin" \/ Served(r) => backend[r] \in Decodes

PinOfServed(s) ==
    (\E r \in Reqs : SessionOf[r] = s /\ Served(r)) =>
        /\ s \in DOMAIN pins
        /\ \E y \in Reqs : SessionOf[y] = s /\ Served(y) /\ backend[y] = pins[s]

CalmTurn(r) ==
    past[r].calm /\ past[r].by # {} =>
        /\ SessionOf[r] \in DOMAIN pins
        /\ pins[SessionOf[r]] \in past[r].by /\ past[r].by \subseteq Decodes
        /\ \A y \in Reqs : SessionOf[y] = SessionOf[r] => pc[y] # "setpin"
        /\ Served(r) => backend[r] \in past[r].by

Steady ==
    /\ redisUp /\ lost = {} /\ stale = {}
    /\ \A n \in Nodes : n \in DOMAIN registry /\ alive[n]
    /\ \A r \in Reqs : Sound(r) /\ CalmTurn(r)
    /\ \A s \in Sessions : PinOfServed(s)

StickInv == faults = 0 => Steady

-------------------------------------------------------------------------------
(***************************************************************************)
(* What GivesUpOnlyWhenAllTried rests on.                                  *)
(***************************************************************************)
TriedInv(r) ==
    /\ pc[r] \in {"decode", "fallback"} => backend[r] \in attempted[r]
    /\ pc[r] = "repin" =>
            /\ backend[r] \in DOMAIN cands[r]
            /\ \E f \in attempted[r] : f # backend[r]
            /\ DOMAIN cands[r] \subseteq Decodes \/ DOMAIN cands[r] \subseteq StaticDecodes

-------------------------------------------------------------------------------
(***************************************************************************)
(* What the step of one request leaves alone.                              *)
(***************************************************************************)
OwnStep(r) ==
    Arrive(r) \/ Handler(r) \/ StreamTimesOut(r) \/ PrefillErrs(r) \/ HangUp(r)

LEMMA OthersStay ==
    ASSUME Inv, NEW r \in Reqs, OwnStep(r)
    PROVE  /\ UNCHANGED <<redisUp, registry, stale, alive>> /\ lost' = lost \ {r}
           /\ \A s \in Reqs \ {r} :
                /\ pc'[s] = pc[s] /\ backend'[s] = backend[s] /\ cands'[s] = cands[s]
                /\ seen'[s] = seen[s] /\ attempted'[s] = attempted[s]
           /\ Arrive(r) \/ UNCHANGED past
<1> DEFINE Stays ==
            /\ UNCHANGED <<redisUp, registry, stale, alive>> /\ lost' = lost \ {r}
            /\ \A s \in Reqs \ {r} :
                /\ pc'[s] = pc[s] /\ backend'[s] = backend[s] /\ cands'[s] = cands[s]
                /\ seen'[s] = seen[s] /\ attempted'[s] = attempted[s]
            /\ Arrive(r) \/ UNCHANGED past
<1> USE DEF envVars, redisVars, localVars
<1>0. /\ DOMAIN pc = Reqs /\ DOMAIN backend = Reqs /\ DOMAIN cands = Reqs
      /\ DOMAIN seen = Reqs /\ DOMAIN attempted = Reqs
      /\ r \in lost => pc[r] \in Connections
  BY DEF Inv, TypeInv, ReqInv, PlaceInv
<1>1. \A stage : GoTo(r, stage) => pc' = [pc EXCEPT ![r] = stage]
  BY DEF GoTo
<1>2. CASE Arrive(r)
  BY <1>0, <1>1, <1>2 DEF Arrive, Connections
<1>3. CASE Visit(r)
  BY <1>0, <1>3 DEF Visit, ListStages, Connections
<1>4. CASE ChoosePrefill(r)
  BY <1>0, <1>1, <1>4 DEF ChoosePrefill, ListEnds, Connections
<1>5. CASE PrefillOk(r) \/ PrefillFail(r) \/ PrefillErrs(r)
  BY <1>0, <1>1, <1>5 DEF PrefillOk, PrefillFail, PrefillErrs
<1>6. CASE ListDecode(r)
  BY <1>0, <1>1, <1>6 DEF ListDecode, ListEnds, Connections
<1>7. CASE ReadPin(r)
  BY <1>0, <1>1, <1>7 DEF ReadPin, StartDecode, Connections
<1>8. CASE SetPin(r)
  BY <1>0, <1>1, <1>8 DEF SetPin, StartDecode, Connections
<1>9. CASE TokenFrame(r) \/ FinalFrame(r) \/ WorkerFinal(r) \/ WorkerDone(r)
  BY <1>0, <1>1, <1>9 DEF TokenFrame, FinalFrame, WorkerFinal, WorkerDone, Connected
<1>10. CASE DecodeBreaks(r) \/ WorkerBreaks(r) \/ StreamTimesOut(r)
  BY <1>0, <1>1, <1>10 DEF DecodeBreaks, WorkerBreaks, StreamTimesOut
<1>11. CASE ListOthers(r)
  BY <1>0, <1>1, <1>11 DEF ListOthers, ListEnds, Connections
<1>12. CASE Repin(r)
  BY <1>0, <1>1, <1>12 DEF Repin, StartDecode, Connections
<1>13. CASE RedisRaises(r)
  BY <1>0, <1>1, <1>13 DEF RedisRaises, RedisStages, Connections
<1>14. CASE HangUp(r)
  BY <1>0, <1>1, <1>14 DEF HangUp
<1> QED
  BY <1>2, <1>3, <1>4, <1>5, <1>6, <1>7, <1>8, <1>9, <1>10, <1>11, <1>12, <1>13, <1>14
     DEF OwnStep, Handler

(***************************************************************************)
(* A listing misses no node that stays registered while it goes on.        *)
(***************************************************************************)
LEMMA VisitFinds ==
    ASSUME Inv, NEW r \in Reqs, Visit(r), NEW n, Finds(r, n)
    PROVE  Finds(r, n)'
<1>1. PICK m \in Unseen(r) :
        /\ cands' = [cands EXCEPT ![r] = ReadKeys(FoundSoFar(r), registry, {m})]
        /\ seen' = [seen EXCEPT ![r] = seen[r] \cup {m}]
  BY DEF Visit
<1>2. /\ cands'[r] = ReadKeys(FoundSoFar(r), registry, {m}) /\ seen'[r] = seen[r] \cup {m}
      /\ registry' = registry
  BY <1>1 DEF Visit, envVars, redisVars, Inv, TypeInv
<1>3. DOMAIN cands'[r] = DOMAIN FoundSoFar(r) \cup (DOMAIN registry \cap {m})
  BY <1>2 DEF ReadKeys
<1>4. n \in seen[r] => n \in DOMAIN FoundSoFar(r)
  BY DEF Finds, FoundSoFar
<1> QED
  BY <1>2, <1>3, <1>4 DEF Finds

LEMMA ListingFinds ==
    ASSUME NEW r \in Reqs, NEW n \in RoleAt(pc[r]), Finds(r, n)
    PROVE  n \in DOMAIN Listed(r)
<1>1. DOMAIN Listed(r) = DOMAIN FoundSoFar(r) \cup (DOMAIN registry \cap Unseen(r))
  BY DEF Listed, ReadKeys
<1>2. n \in seen[r] => n \in DOMAIN FoundSoFar(r)
  BY DEF Finds, FoundSoFar
<1> QED
  BY <1>1, <1>2 DEF Finds, Unseen

(***************************************************************************)
(* So where a decode node is found there are no made-up candidates.        *)
(***************************************************************************)
LEMMA FoundIsCandidate ==
    ASSUME Inv, NEW r \in Reqs, pc[r] \in {"list", "fallback"},
           NEW d \in Decodes, Finds(r, d)
    PROVE  /\ Candidates(Listed(r), StaticDecodes) = Listed(r)
           /\ d \in DOMAIN Listed(r) /\ DOMAIN Listed(r) \subseteq Decodes
<1>1. RoleAt(pc[r]) = Decodes
  BY DEF RoleAt
<1>2. d \in DOMAIN Listed(r)
  BY <1>1, ListingFinds
<1>3. DOMAIN Listed(r) \subseteq Decodes
  BY <1>1, ListedRole DEF ListStages
<1> QED
  BY <1>2, <1>3 DEF Candidates

-------------------------------------------------------------------------------
(***************************************************************************)
(* A step of a request finds it a backend that is up, whichever node is    *)
(* down.                                                                   *)
(***************************************************************************)
LEMMA CrashRequestStep ==
    ASSUME OneCrash, Inv, NEW x \in Nodes, OnlyDown(x), NEW r \in Reqs, OwnStep(r)
    PROVE  OnlyDown(x)'
<1>0. /\ redisUp /\ PlaceInv(r) /\ EarlyInv(r) /\ Survives(r, x)
      /\ \A n \in Nodes \ {x} : n \in DOMAIN registry /\ alive[n]
      /\ pc \in [Reqs -> {"new"} \cup Stages \cup Outcomes]
      /\ backend \in [Reqs -> Names] /\ DOMAIN cands = Reqs /\ DOMAIN seen = Reqs
      /\ attempted \in [Reqs -> SUBSET DecodeNames]
  BY DEF Inv, TypeInv, ReqInv, OnlyDown
<1>1. /\ UNCHANGED <<redisUp, registry, stale, alive>> /\ lost' = lost \ {r}
      /\ \A s \in Reqs \ {r} :
            /\ pc'[s] = pc[s] /\ backend'[s] = backend[s] /\ cands'[s] = cands[s]
            /\ seen'[s] = seen[s] /\ attempted'[s] = attempted[s]
  BY OthersStay
<1>2. ASSUME Survives(r, x)'
      PROVE  OnlyDown(x)'
  <2>1. \A s \in Reqs \ {r} : Survives(s, x)'
    BY <1>1 DEF OnlyDown, Survives, Finds
  <2>2. \A s \in lost' : s \in lost /\ s \in Reqs \ {r} /\ Node(s)' = Node(s)
    BY <1>1 DEF Node, Inv, TypeInv
  <2> QED
    BY <1>1, <1>2, <2>1, <2>2 DEF OnlyDown
<1>3. PICK d \in Decodes : d # x
  BY DEF OneCrash
<1>4. d \in Nodes \ {x} /\ Finds(r, d)
  BY <1>0, <1>3 DEF Nodes, Survives
<1>5. \A stage : GoTo(r, stage) => pc'[r] = stage
  BY <1>0 DEF GoTo
<1>6. seen'[r] = {} => \A n \in Nodes \ {x} : Finds(r, n)'
  BY <1>0, <1>1 DEF Finds
<1>7. seen'[r] = seen[r] /\ cands'[r] = cands[r] => \A n \in Nodes \ {x} : Finds(r, n)'
  BY <1>0, <1>1 DEF Finds, Survives
<1>8. \A kind : kind # "crash" => ~Fault(kind)
  BY DEF Fault, OneCrash
<1>9. pc[r] \notin ListStages => seen[r] = {}
  BY <1>0 DEF PlaceInv
<1>10. CASE Arrive(r)
  <2>1. pc'[r] = "choose" /\ seen'[r] = seen[r] /\ cands'[r] = cands[r]
    BY <1>5, <1>10 DEF Arrive, localVars
  <2> QED
    BY <1>2, <1>7, <2>1 DEF Survives
<1>11. CASE Visit(r)
  <2>1. pc'[r] = pc[r] /\ pc[r] \in ListStages /\ UNCHANGED <<backend, attempted>>
    BY <1>11 DEF Visit
  <2>2. \A n \in Nodes \ {x} : Finds(r, n)'
    BY <1>0, <1>11, VisitFinds DEF Survives
  <2> QED
    BY <1>0, <1>2, <2>1, <2>2 DEF Survives, ListStages
<1>12. CASE ChoosePrefill(r)
  <2>1. pc'[r] \in {"no_prefill", "colocated", "prefill"} /\ seen'[r] = {}
    BY <1>0, <1>5, <1>12 DEF ChoosePrefill, ListEnds
  <2> QED
    BY <1>2, <1>6, <2>1 DEF Survives
<1>13. CASE PrefillOk(r) \/ PrefillFail(r)
  <2>1. /\ pc'[r] \in {"list", "prefill_failed"}
        /\ seen'[r] = seen[r] /\ cands'[r] = cands[r]
    BY <1>5, <1>13 DEF PrefillOk, PrefillFail, localVars
  <2> QED
    BY <1>2, <1>7, <2>1 DEF Survives
<1>14. CASE ListDecode(r)
  <2>1. pc[r] = "list" /\ seen'[r] = {} /\ cands'[r] = Candidates(Listed(r), StaticDecodes)
    BY <1>0, <1>14 DEF ListDecode, ListEnds
  <2>2. DOMAIN Candidates(Listed(r), StaticDecodes) \subseteq Decodes
        /\ DOMAIN Candidates(Listed(r), StaticDecodes) # {}
    BY <1>4, <2>1, FoundIsCandidate
  <2>3. pc'[r] = "readpin"
    BY <1>5, <1>14, <2>2 DEF ListDecode
  <2> QED
    BY <1>2, <1>6, <2>1, <2>2, <2>3 DEF Survives
<1>15. CASE ReadPin(r)
  <2>1. /\ pc[r] = "readpin" /\ DOMAIN cands[r] \subseteq Decodes /\ attempted[r] = {}
        /\ seen'[r] = seen[r] /\ seen[r] = {}
    BY <1>0, <1>9, <1>15 DEF ReadPin, Survives, EarlyInv, Early, ListStages
  <2>2. \/ /\ pc'[r] = "decode" /\ backend'[r] \in DOMAIN cands[r]
           /\ attempted'[r] = {backend'[r]}
        \/ pc'[r] = "setpin" /\ backend'[r] \in DOMAIN cands[r]
    BY <1>0, <1>5, <1>15, <2>1 DEF ReadPin, StartDecode, LeastLoaded
  <2> QED
    BY <1>2, <1>6, <2>1, <2>2 DEF Survives
<1>16. CASE SetPin(r)
  <2>1. /\ pc[r] = "setpin" /\ pc'[r] = "decode" /\ seen'[r] = {}
        /\ backend'[r] = backend[r] /\ attempted'[r] = attempted[r] \cup {backend[r]}
    BY <1>0, <1>9, <1>16 DEF SetPin, StartDecode, ListStages
  <2>2. backend[r] \in Decodes /\ attempted[r] = {}
    BY <1>0, <2>1 DEF Survives, EarlyInv, Early
  <2> QED
    BY <1>2, <1>6, <2>1, <2>2 DEF Survives
<1>17. CASE TokenFrame(r) \/ FinalFrame(r) \/ WorkerFinal(r) \/ WorkerDone(r)
  <2>1. /\ pc'[r] = pc[r] \/ pc'[r] \in {"ok", "oom", "closing"}
        /\ UNCHANGED <<backend, attempted, seen, cands>>
    BY <1>5, <1>17 DEF TokenFrame, FinalFrame, WorkerFinal, WorkerDone, EndSeen, localVars
  <2> QED
    BY <1>0, <1>2, <1>7, <2>1 DEF Survives
<1>18. CASE DecodeBreaks(r)
  <2>1. /\ pc[r] = "decode" /\ (r \in lost \/ ~alive[Node(r)]) /\ pc'[r] = "fallback"
        /\ UNCHANGED <<backend, attempted, seen, cands>>
    BY <1>5, <1>18 DEF DecodeBreaks, localVars
  <2>2. backend[r] \in Decodes /\ Node(r) \in Nodes /\ Node(r) = backend[r]
    BY <1>0, <1>18, RoutingAssumption DEF DecodeBreaks, Survives, Node, Nodes
  <2>3. backend[r] = x
    BY <1>0, <1>18, <2>2 DEF DecodeBreaks, OnlyDown
  <2>4. attempted[r] = {x}
    BY <1>0, <1>18, <2>3 DEF DecodeBreaks, Survives
  <2>5. pc'[r] = "fallback"
    BY <1>5, <1>18 DEF DecodeBreaks
  <2> QED
    BY <1>2, <1>7, <2>1, <2>3, <2>4, <2>5 DEF Survives
<1>19. CASE ListOthers(r)
  <2>1. /\ pc[r] = "fallback" /\ seen'[r] = {} /\ attempted'[r] = attempted[r]
        /\ backend[r] = x /\ attempted[r] = {x}
    BY <1>0, <1>19 DEF ListOthers, ListEnds, Survives
  <2>2. /\ Candidates(Listed(r), StaticDecodes) = Listed(r) /\ d \in DOMAIN Listed(r)
        /\ DOMAIN Listed(r) \subseteq Decodes
    BY <1>4, <2>1, FoundIsCandidate
  <2>3. DOMAIN Others(Listed(r), x) = DOMAIN Listed(r) \ {x}
    BY DEF Others, DropKey, Restrict
  <2>4. pc'[r] = "repin" /\ backend'[r] \in Decodes \ {x}
    BY <1>0, <1>3, <1>5, <1>19, <2>1, <2>2, <2>3 DEF ListOthers, LeastLoaded
  <2> QED
    BY <1>2, <1>6, <2>1, <2>4 DEF Survives
<1>20. CASE Repin(r)
  <2>1. /\ pc[r] = "repin" /\ seen'[r] = {}
        /\ backend[r] \in Decodes /\ backend[r] # x /\ attempted[r] = {x}
    BY <1>0, <1>9, <1>20 DEF Repin, Survives, ListStages
  <2>2. pc'[r] = "decode" /\ backend'[r] = backend[r]
    BY <1>0, <1>20, <2>1 DEF Repin, StartDecode
  <2> QED
    BY <1>2, <1>6, <2>1, <2>2 DEF Survives
<1>21. CASE WorkerBreaks(r)
  <2>1. pc'[r] \in {"worker_failed", "ok", "oom"} /\ UNCHANGED <<seen, cands>>
    BY <1>5, <1>21 DEF WorkerBreaks, EndSeen, localVars
  <2> QED
    BY <1>2, <1>7, <2>1 DEF Survives
<1> QED
  BY <1>0, <1>8, <1>10, <1>11, <1>12, <1>13, <1>14, <1>15, <1>16, <1>17, <1>18, <1>19,
     <1>20, <1>21 DEF OwnStep, Handler, RedisRaises, StreamTimesOut, PrefillErrs, HangUp

(***************************************************************************)
(* Nodes and Redis: only a crash of another node than x is a second one.   *)
(***************************************************************************)
LEMMA CrashNodeStep ==
    ASSUME OneCrash, Inv, NEW x \in Nodes, OnlyDown(x), Environment, UNCHANGED reqVars,
           \A n \in Nodes \ {x} : ~Crash(n)
    PROVE  OnlyDown(x)'
<1>1. UNCHANGED <<pc, backend, cands, seen, attempted>>
  BY DEF reqVars, localVars
<1>2. \A kind : kind # "crash" => ~Fault(kind)
  BY DEF Fault, OneCrash
<1>3. ASSUME redisUp', stale' \subseteq {x}, \A n \in Nodes \ {x} : n \in DOMAIN registry' /\ alive'[n],
             \A r \in lost' : r \in lost \/ Node(r) = x
      PROVE  OnlyDown(x)'
  <2>1. \A r \in Reqs : Survives(r, x)'
    BY <1>1, <1>3 DEF OnlyDown, Survives, Finds
  <2>2. \A r : Node(r)' = Node(r)
    BY <1>1 DEF Node
  <2> QED
    BY <1>3, <2>1, <2>2 DEF OnlyDown
<1>4. redisUp /\ stale \subseteq {x} /\ \A n \in Nodes \ {x} : n \in DOMAIN registry /\ alive[n]
  BY DEF OnlyDown
<1>5. ASSUME NEW n \in Nodes, Heartbeat(n)
      PROVE  OnlyDown(x)'
  BY <1>3, <1>4, <1>5 DEF Heartbeat, SetKey
<1>6. ASSUME NEW n \in Nodes, EntryExpires(n)
      PROVE  OnlyDown(x)'
  <2>1. n = x
    BY <1>4, <1>6 DEF EntryExpires
  <2> QED
    BY <1>3, <1>4, <1>6, <2>1 DEF EntryExpires, DropKey, Restrict
<1>7. CASE Crash(x)
  BY <1>3, <1>4, <1>7 DEF Crash, redisVars, Inv, EnvInv
<1>8. ASSUME NEW n \in Nodes, Restart(n)
      PROVE  OnlyDown(x)'
  BY <1>3, <1>4, <1>8 DEF Restart, redisVars, Inv, EnvInv
<1>9. ASSUME NEW r \in Reqs, StreamTimesOut(r) \/ PrefillErrs(r) \/ HangUp(r)
      PROVE  FALSE
  BY <1>2, <1>9 DEF StreamTimesOut, PrefillErrs, HangUp
<1>10. /\ \A s \in Sessions : ~PinExpires(s)
       /\ ~RedisFails /\ ~RedisReturns
  BY <1>2, <1>4 DEF PinExpires, RedisFails, RedisReturns
<1> QED
  BY <1>5, <1>6, <1>7, <1>8, <1>9, <1>10 DEF Environment

-------------------------------------------------------------------------------
(***************************************************************************)
(* The step of one request or of the environment, as Next has it.          *)
(***************************************************************************)
LEMMA NextSplits ==
    ASSUME Next
    PROVE  (\E r \in Reqs : OwnStep(r)) \/ (Environment /\ UNCHANGED reqVars)
BY DEF Next, Environment, OwnStep, Heartbeat, EntryExpires, Crash, Restart, PinExpires,
       RedisFails, RedisReturns

(***************************************************************************)
(* One crash of a node, at any moment, does not fail a request in its      *)
(* decode stage (main.py:131-187, routing.py:75-122).                      *)
(***************************************************************************)
THEOREM CrashIsSurvived == OneCrash /\ Spec => []CrashSurvived
<1> SUFFICES ASSUME OneCrash PROVE Spec => []CrashSurvived
  OBVIOUS
<1>1. Init => CrashInv
  <2> SUFFICES ASSUME Init PROVE CrashInv
    OBVIOUS
  <2>1. PICK d \in Decodes : TRUE
    BY DEF OneCrash
  <2>2. DOMAIN registry = Nodes
    BY DEF Init
  <2>3. \A x \in Nodes : OnlyDown(x)
    BY <2>2 DEF Init, OnlyDown, Survives, Finds
  <2> QED
    BY <2>1, <2>3 DEF CrashInv, Nodes
<1>2. Inv /\ CrashInv /\ [Next]_vars => CrashInv'
  <2> SUFFICES ASSUME Inv, CrashInv, [Next]_vars PROVE CrashInv'
    OBVIOUS
  <2>1. faults \in Nat /\ faults <= 1
    BY RouterAssumption DEF Inv, EnvInv, OneCrash
  <2>2. ASSUME NEW x \in Nodes, OnlyDown(x), \A n \in Nodes \ {x} : ~Crash(n)
        PROVE  OnlyDown(x)'
    <3>1. CASE UNCHANGED vars
      <4>1. \A r \in Reqs : Survives(r, x)'
        BY <2>2, <3>1 DEF vars, envVars, redisVars, reqVars, localVars, OnlyDown, Survives, Finds
      <4>2. \A r : Node(r)' = Node(r)
        BY <3>1 DEF vars, reqVars, localVars, Node
      <4> QED
        BY <2>2, <3>1, <4>1, <4>2 DEF vars, envVars, redisVars, OnlyDown
    <3>2. CASE Next
      BY <2>2, <3>2, NextSplits, CrashRequestStep, CrashNodeStep
    <3> QED
      BY <3>1, <3>2
  <2>3. CASE \E n \in Nodes : Crash(n)
    <3>1. PICK n \in Nodes : Crash(n)
      BY <2>3
    <3>2. faults = 0 /\ faults' = 1
      BY <2>1, <3>1, RouterAssumption DEF Crash, Fault, OneCrash
    <3>3. \A m \in Nodes \ {n} : ~Crash(m)
      <4>1. ASSUME NEW m \in Nodes \ {n}, Crash(m) PROVE FALSE
        <5>1. alive[n] /\ alive' = [alive EXCEPT ![m] = FALSE] /\ alive' = [alive EXCEPT ![n] = FALSE]
          BY <3>1, <4>1 DEF Crash
        <5> QED
          BY <5>1 DEF Inv, EnvInv
      <4> QED
        BY <4>1
    <3>4. OnlyDown(n)'
      BY <2>2, <3>2, <3>3 DEF CrashInv
    <3> QED
      BY <3>2, <3>4 DEF CrashInv
  <2>4. CASE \A n \in Nodes : ~Crash(n)
    <3>1. faults' = 0 => faults = 0
      <4>1. \A kind : Fault(kind) => faults' # 0
        BY <2>1 DEF Fault
      <4> QED
        BY <2>4, <4>1 DEF vars, envVars, Next, Environment, Heartbeat, EntryExpires, Restart,
           StreamTimesOut, PrefillErrs, HangUp, PinExpires, RedisFails, RedisReturns,
           Arrive, Handler, Visit, ChoosePrefill, PrefillOk, PrefillFail, ListDecode,
           ReadPin, SetPin, TokenFrame, FinalFrame, DecodeBreaks, ListOthers, Repin,
           RedisRaises, WorkerFinal, WorkerDone, WorkerBreaks
    <3> QED
      BY <2>2, <2>4, <3>1 DEF CrashInv
  <2> QED
    BY <2>3, <2>4
<1>3. CrashInv => CrashSurvived
  BY DEF CrashInv, OnlyDown, Survives, CrashSurvived
<1> QED
  BY Invariance, <1>1, <1>2, <1>3, PTL DEF Spec

-------------------------------------------------------------------------------
(***************************************************************************)
(* The history is kept: a request that has not arrived has none, and none  *)
(* is rewritten after the arrival.                                         *)
(***************************************************************************)
PastInv ==
    /\ DOMAIN past = Reqs
    /\ \A r \in Reqs :
        /\ past[r].faults \in Nat /\ past[r].faults <= faults
        /\ pc[r] = "new" => ~past[r].well /\ past[r].by = {}

(***************************************************************************)
(* Faults only add up, and a step that adds none is no fault.              *)
(***************************************************************************)
LEMMA FaultsAddUp ==
    ASSUME Inv, [Next]_vars
    PROVE  /\ faults \in Nat /\ (faults' = faults \/ faults' = faults + 1)
           /\ faults' = faults =>
                /\ \A r \in Reqs : OwnStep(r) => Arrive(r) \/ Handler(r)
                /\ Environment /\ UNCHANGED reqVars =>
                    \/ \E n \in Nodes : Heartbeat(n) \/ EntryExpires(n) \/ Restart(n)
                    \/ RedisReturns
<1>1. faults \in Nat
  BY RouterAssumption DEF Inv, EnvInv
<1>2. \A kind : Fault(kind) => faults' = faults + 1
  BY DEF Fault
<1>3. faults' = faults \/ faults' = faults + 1
  BY <1>2 DEF vars, envVars, Next, Environment, Heartbeat, EntryExpires, Crash, Restart,
     StreamTimesOut, PrefillErrs, HangUp, PinExpires, RedisFails, RedisReturns,
     Arrive, Handler, Visit, ChoosePrefill, PrefillOk, PrefillFail, ListDecode,
     ReadPin, SetPin, TokenFrame, FinalFrame, DecodeBreaks, ListOthers, Repin,
     RedisRaises, WorkerFinal, WorkerDone, WorkerBreaks
<1>4. \A kind : Fault(kind) => faults' # faults
  BY <1>1, <1>2
<1>5. \A r \in Reqs : OwnStep(r) /\ faults' = faults => Arrive(r) \/ Handler(r)
  BY <1>4 DEF OwnStep, StreamTimesOut, PrefillErrs, HangUp
<1>6. Environment /\ UNCHANGED reqVars /\ faults' = faults =>
                    \/ \E n \in Nodes : Heartbeat(n) \/ EntryExpires(n) \/ Restart(n)
                    \/ RedisReturns
  <2>1. ASSUME NEW r \in Reqs, UNCHANGED reqVars, faults' = faults
        PROVE  ~(StreamTimesOut(r) \/ PrefillErrs(r) \/ HangUp(r))
    BY <1>4, <2>1 DEF StreamTimesOut, PrefillErrs, HangUp
  <2> QED
    BY <1>4, <2>1 DEF Environment, Crash, PinExpires, RedisFails
<1> QED
  BY <1>1, <1>3, <1>5, <1>6

LEMMA PastStep ==
    ASSUME Inv, PastInv, [Next]_vars
    PROVE  PastInv'
<1>1. faults \in Nat /\ (faults' = faults \/ faults' = faults + 1)
  BY FaultsAddUp
<1>2. CASE UNCHANGED <<past, pc>>
  BY <1>1, <1>2 DEF PastInv
<1>3. ASSUME NEW r \in Reqs, OwnStep(r), Next
      PROVE  PastInv'
  <2>1. CASE Arrive(r)
    <3>1. /\ past'[r].faults = faults /\ DOMAIN past' = Reqs
          /\ \A s \in Reqs \ {r} : past'[s] = past[s]
      BY <2>1 DEF Arrive, PastInv
    <3>2. pc'[r] = "choose" /\ faults' = faults /\ \A s \in Reqs \ {r} : pc'[s] = pc[s]
      BY <2>1 DEF Arrive, GoTo, envVars, Inv, TypeInv
    <3> QED
      BY <1>1, <3>1, <3>2 DEF PastInv
  <2>2. CASE UNCHANGED past
    <3>1. \A s \in Reqs \ {r} : pc'[s] = pc[s]
      BY <1>3, OthersStay
    <3>2. pc'[r] # "new" \/ UNCHANGED pc
      <4>1. \A stage : GoTo(r, stage) => pc'[r] = stage
        BY DEF GoTo, Inv, TypeInv
      <4> QED
        BY <1>3, <4>1 DEF OwnStep, Handler, Arrive, StreamTimesOut, PrefillErrs, HangUp,
           Visit, ChoosePrefill, PrefillOk, PrefillFail, ListDecode, ReadPin, SetPin,
           TokenFrame, FinalFrame, DecodeBreaks, ListOthers, Repin, RedisRaises,
           WorkerFinal, WorkerDone, WorkerBreaks, EndSeen, StartDecode, Inv, TypeInv
    <3> QED
      BY <1>1, <2>2, <3>1, <3>2 DEF PastInv
  <2> QED
    BY <1>3, <2>1, <2>2, OthersStay
<1> QED
  BY <1>2, <1>3, NextSplits DEF vars, reqVars

LEMMA PastHolds == Spec => [](Inv /\ PastInv)
<1>1. Init => PastInv
  BY DEF Init, PastInv
<1>2. Inv /\ PastInv /\ [Next]_vars => PastInv'
  BY PastStep
<1> QED
  BY Invariance, <1>1, <1>2, PTL DEF Spec

-------------------------------------------------------------------------------
(***************************************************************************)
(* The system stays fit while no fault happens, and every request healthy  *)
(* but the one that takes the step.                                        *)
(***************************************************************************)
LEMMA FitOthersStep ==
    ASSUME Inv, PastInv, [Next]_vars, NEW r \in Reqs, OwnStep(r),
           NEW s \in Reqs \ {r}, FitInv(s)
    PROVE  FitInv(s)'
<1>1. /\ UNCHANGED <<redisUp, registry, stale, alive>> /\ lost' = lost \ {r}
      /\ pc'[s] = pc[s] /\ backend'[s] = backend[s] /\ cands'[s] = cands[s]
      /\ seen'[s] = seen[s] /\ attempted'[s] = attempted[s]
  BY OthersStay
<1>2. past'[s] = past[s]
  <2>1. Arrive(r) => past'[s] = past[s]
    BY DEF Arrive, PastInv
  <2> QED
    BY <2>1, OthersStay
<1>3. faults \in Nat /\ (faults' = faults \/ faults' = faults + 1)
  BY FaultsAddUp
<1>4. FitToServe' <=> FitToServe
  BY <1>1 DEF FitToServe, Fresh
<1>5. Healthy(s) => Healthy(s)'
  BY <1>1, <1>4 DEF Healthy, Keeps, Fresh, Finds, Node
<1> QED
  BY <1>2, <1>3, <1>5 DEF FitInv

LEMMA FitNodeStep ==
    ASSUME Inv, PastInv, [Next]_vars, Environment \/ UNCHANGED vars, UNCHANGED reqVars,
           NEW s \in Reqs, FitInv(s)
    PROVE  FitInv(s)'
<1>1. UNCHANGED <<pc, backend, cands, seen, attempted, past>>
  BY DEF reqVars, localVars
<1>2. faults \in Nat /\ (faults' = faults \/ faults' = faults + 1)
  BY FaultsAddUp
<1>3. ASSUME faults' = faults, Healthy(s)
      PROVE  Healthy(s)'
  <2>1. redisUp /\ FitToServe
    BY <1>3 DEF Healthy, FitToServe
  <2>2. ASSUME redisUp', lost' = lost,
               \A n \in Nodes : alive[n] => alive'[n],
               \A n \in Fresh : n \in Fresh',
               \A n \in DOMAIN registry' : n \in DOMAIN registry \/ alive'[n]
        PROVE  Healthy(s)'
    <3>1. FitToServe'
      BY <2>1, <2>2 DEF FitToServe, Nodes
    <3>2. \A n \in Nodes : Keeps(s, n) => Keeps(s, n)'
      BY <1>1, <2>2 DEF Keeps, Fresh, Finds
    <3>3. Prefills \subseteq Nodes /\ Decodes \subseteq Nodes
      BY DEF Nodes
    <3>4. pc[s] = "choose" =>
            /\ \E n \in Prefills : Keeps(s, n)'
            /\ seen[s] # {} => \A n \in DOMAIN cands[s] : alive'[n]
      <4>1. pc[s] = "choose" /\ seen[s] # {} => DOMAIN cands[s] \subseteq Nodes
        BY DEF Inv, ReqInv, PlaceInv, RoleAt, Nodes
      <4> QED
        BY <1>3, <2>2, <3>2, <3>3, <4>1 DEF Healthy
    <3>5. Node(s)' = Node(s)
      BY <1>1 DEF Node
    <3>6. pc[s] \in {"prefill", "colocated", "closing"} => Node(s) \in Nodes
      BY RoutingAssumption DEF Inv, ReqInv, PlaceInv, Node
    <3> QED
      BY <1>1, <1>3, <2>2, <3>1, <3>2, <3>3, <3>4, <3>5, <3>6 DEF Healthy
  <2>3. CASE UNCHANGED vars
    BY <2>1, <2>2, <2>3 DEF vars, envVars, redisVars, Fresh
  <2>4. ASSUME NEW n \in Nodes, Heartbeat(n)
        PROVE  Healthy(s)'
    BY <2>1, <2>2, <2>4 DEF Heartbeat, SetKey, Fresh
  <2>5. ASSUME NEW n \in Nodes, EntryExpires(n)
        PROVE  Healthy(s)'
    BY <2>1, <2>2, <2>5 DEF EntryExpires, DropKey, Restrict, Fresh
  <2>6. ASSUME NEW n \in Nodes, Restart(n)
        PROVE  Healthy(s)'
    BY <2>1, <2>2, <2>6 DEF Restart, redisVars, Inv, EnvInv, Fresh
  <2>7. ~RedisReturns
    BY <2>1 DEF RedisReturns
  <2> QED
    BY <1>3, <2>3, <2>4, <2>5, <2>6, <2>7, FaultsAddUp
<1> QED
  BY <1>1, <1>2, <1>3 DEF FitInv

-------------------------------------------------------------------------------
(***************************************************************************)
(* A request that meets no fault is led from one healthy place to another. *)
(***************************************************************************)
LEMMA HealthyStep ==
    ASSUME AtMostTwo, Inv, NEW r \in Reqs, Healthy(r), Handler(r)
    PROVE  Healthy(r)'
<1>0. /\ redisUp /\ FitToServe /\ r \notin lost /\ PlaceInv(r) /\ EarlyInv(r)
      /\ pc \in [Reqs -> {"new"} \cup Stages \cup Outcomes]
      /\ backend \in [Reqs -> Names] /\ DOMAIN cands = Reqs /\ DOMAIN seen = Reqs
      /\ attempted \in [Reqs -> SUBSET DecodeNames]
  BY DEF Inv, TypeInv, ReqInv, Healthy, FitToServe
<1>1. /\ UNCHANGED <<redisUp, registry, stale, alive>> /\ r \notin lost'
      /\ FitToServe'
  <2>1. UNCHANGED <<redisUp, registry, stale, alive>> /\ lost' = lost \ {r}
    BY OthersStay DEF OwnStep
  <2> QED
    BY <1>0, <2>1 DEF FitToServe, Fresh
<1>2. \A stage : GoTo(r, stage) => pc'[r] = stage
  BY <1>0 DEF GoTo
<1>3. PICK d \in Decodes : d \in Fresh /\ alive[d]
  BY <1>0 DEF FitToServe
<1>4. seen'[r] = {} => Keeps(r, d)'
  BY <1>1, <1>3 DEF Keeps, Fresh, Finds
<1>5. pc[r] \notin ListStages => seen[r] = {}
  BY <1>0 DEF PlaceInv
<1>6. CASE Visit(r)
  <2>1. /\ pc'[r] = pc[r] /\ pc[r] \in ListStages /\ UNCHANGED <<backend, attempted>>
        /\ seen'[r] # {}
    BY <1>0, <1>6 DEF Visit
  <2>2. \A n : Keeps(r, n) => Keeps(r, n)'
    BY <1>1, <1>6, VisitFinds DEF Keeps, Fresh
  <2>3. CASE pc[r] = "choose"
    <3>1. DOMAIN cands'[r] \subseteq DOMAIN FoundSoFar(r) \cup (DOMAIN registry \cap Prefills)
      BY <1>0, <1>6, <2>3 DEF Visit, ReadKeys, Unseen, RoleAt
    <3>2. \A n \in DOMAIN FoundSoFar(r) : alive[n]
      BY <2>3 DEF FoundSoFar, NoKeys, Healthy
    <3>3. \A n \in DOMAIN cands'[r] : alive[n]
      BY <1>0, <3>1, <3>2 DEF FitToServe
    <3> QED
      BY <1>1, <2>1, <2>2, <2>3, <3>3 DEF Healthy, Stages
  <2>4. CASE pc[r] \in {"list", "fallback"}
    BY <1>1, <2>1, <2>2, <2>4 DEF Healthy, Stages
  <2> QED
    BY <2>1, <2>3, <2>4 DEF ListStages
<1>7. CASE ChoosePrefill(r)
  <2>1. pc[r] = "choose" /\ seen'[r] = {} /\ RoleAt(pc[r]) = Prefills
    BY <1>0, <1>7 DEF ChoosePrefill, ListEnds, RoleAt
  <2>2. PICK n \in Prefills : n \in DOMAIN Listed(r)
    BY <2>1, ListingFinds DEF Healthy, Keeps
  <2>3. \A m \in DOMAIN Listed(r) : alive[m]
    <3>1. DOMAIN Listed(r) \subseteq DOMAIN FoundSoFar(r) \cup (DOMAIN registry \cap Prefills)
      BY <2>1 DEF Listed, ReadKeys, Unseen
    <3>2. \A m \in DOMAIN FoundSoFar(r) : alive[m]
      BY <2>1 DEF FoundSoFar, NoKeys, Healthy
    <3> QED
      BY <1>0, <3>1, <3>2 DEF FitToServe
  <2>4. Candidates(Listed(r), StaticPrefills) = Listed(r)
    BY <2>2 DEF Candidates
  <2>5. pc'[r] \in {"colocated", "prefill"} /\ backend'[r] \in DOMAIN Listed(r)
    BY <1>0, <1>2, <1>7, <2>2, <2>4 DEF ChoosePrefill, LeastLoaded
  <2>6. backend'[r] \in Nodes
    BY <2>1, <2>5, ListedRole DEF ListStages, Nodes
  <2>7. Node(r)' = backend'[r]
    BY <2>6, RoutingAssumption DEF Node
  <2> QED
    BY <1>1, <2>3, <2>5, <2>7 DEF Healthy, Stages
<1>8. CASE PrefillOk(r)
  <2>1. pc[r] = "prefill" /\ pc'[r] = "list" /\ seen'[r] = {}
    BY <1>2, <1>5, <1>8 DEF PrefillOk, localVars, ListStages
  <2> QED
    BY <1>1, <1>3, <1>4, <2>1 DEF Healthy, Stages
<1>9. ~PrefillFail(r) /\ ~RedisRaises(r)
  BY <1>0 DEF PrefillFail, RedisRaises, Healthy
<1>10. CASE ListDecode(r)
  <2>1. pc[r] = "list" /\ cands'[r] = Candidates(Listed(r), StaticDecodes)
    BY <1>0, <1>10 DEF ListDecode, ListEnds
  <2>2. PICK e \in Decodes : Finds(r, e)
    BY <2>1 DEF Healthy, Keeps
  <2>3. DOMAIN Candidates(Listed(r), StaticDecodes) \subseteq Decodes
        /\ DOMAIN Candidates(Listed(r), StaticDecodes) # {}
    BY <2>1, <2>2, FoundIsCandidate
  <2>4. pc'[r] = "readpin"
    BY <1>2, <1>10, <2>3 DEF ListDecode
  <2> QED
    BY <1>1, <2>1, <2>3, <2>4 DEF Healthy, Stages
<1>11. CASE ReadPin(r)
  <2>1. pc[r] = "readpin" /\ DOMAIN cands[r] \subseteq Decodes /\ attempted[r] = {}
    BY <1>0, <1>11 DEF ReadPin, Healthy, EarlyInv, Early
  <2>2. \/ /\ pc'[r] = "decode" /\ backend'[r] \in DOMAIN cands[r]
           /\ attempted'[r] = {backend'[r]}
        \/ pc'[r] = "setpin" /\ backend'[r] \in DOMAIN cands[r]
    BY <1>0, <1>2, <1>11, <2>1 DEF ReadPin, StartDecode, LeastLoaded
  <2> QED
    BY <1>1, <2>1, <2>2 DEF Healthy, Stages
<1>12. CASE SetPin(r)
  <2>1. /\ pc[r] = "setpin" /\ pc'[r] = "decode"
        /\ backend'[r] = backend[r] /\ attempted'[r] = attempted[r] \cup {backend[r]}
    BY <1>0, <1>12 DEF SetPin, StartDecode
  <2>2. backend[r] \in Decodes /\ attempted[r] = {}
    BY <1>0, <2>1 DEF Healthy, EarlyInv, Early
  <2> QED
    BY <1>1, <2>1, <2>2 DEF Healthy, Stages
<1>13. CASE TokenFrame(r)
  <2>1. pc'[r] = pc[r] /\ pc[r] \in {"decode", "colocated"} /\ UNCHANGED <<backend, attempted>>
    BY <1>13 DEF TokenFrame
  <2>2. Node(r)' = Node(r)
    BY <2>1 DEF Node
  <2> QED
    BY <1>1, <2>1, <2>2 DEF Healthy, Stages
<1>14. CASE FinalFrame(r) \/ WorkerFinal(r) \/ WorkerDone(r)
  <2>1. pc'[r] \in {"ok", "oom"} \/ (pc[r] = "colocated" /\ pc'[r] = "closing")
    BY <1>2, <1>14 DEF FinalFrame, WorkerFinal, WorkerDone, EndSeen
  <2>2. Node(r)' = Node(r)
    BY <1>14 DEF FinalFrame, WorkerFinal, WorkerDone, localVars, Node
  <2> QED
    BY <1>1, <2>1, <2>2 DEF Healthy, Stages
<1>15. CASE DecodeBreaks(r)
  <2>1. backend[r] \in Decodes /\ Node(r) = backend[r] /\ ~alive[Node(r)]
    BY <1>0, <1>15, RoutingAssumption DEF DecodeBreaks, Healthy, Node, Nodes
  <2>2. attempted[r] = {backend[r]} /\ d # backend[r]
    BY <1>3, <1>15, <2>1 DEF DecodeBreaks, Healthy
  <2>3. /\ pc'[r] = "fallback" /\ seen'[r] = {} /\ UNCHANGED <<backend, attempted>>
    BY <1>2, <1>5, <1>15 DEF DecodeBreaks, localVars, ListStages
  <2> QED
    BY <1>1, <1>3, <1>4, <2>1, <2>2, <2>3 DEF Healthy, Stages
<1>16. CASE ListOthers(r)
  <2>1. pc[r] = "fallback" /\ attempted'[r] = attempted[r] /\ attempted[r] = {backend[r]}
    BY <1>16 DEF ListOthers, ListEnds, Healthy
  <2>2. PICK e \in Decodes \ {backend[r]} : Finds(r, e) /\ alive[e]
    BY <2>1 DEF Healthy, Keeps
  <2>3. /\ Candidates(Listed(r), StaticDecodes) = Listed(r) /\ e \in DOMAIN Listed(r)
        /\ DOMAIN Listed(r) \subseteq Decodes
    BY <2>1, <2>2, FoundIsCandidate
  <2>4. DOMAIN Others(Listed(r), backend[r]) = DOMAIN Listed(r) \ {backend[r]}
    BY DEF Others, DropKey, Restrict
  <2>5. DOMAIN Others(Listed(r), backend[r]) # {}
    BY <2>2, <2>3, <2>4
  <2>6. pc'[r] = "repin" /\ backend'[r] \in Decodes \ {backend[r]}
    BY <1>0, <1>2, <1>16, <2>3, <2>4, <2>5 DEF ListOthers, LeastLoaded
  <2>7. backend'[r] = e
    BY <2>1, <2>2, <2>6 DEF AtMostTwo, Healthy
  <2> QED
    BY <1>1, <2>1, <2>2, <2>6, <2>7 DEF Healthy, Stages
<1>17. CASE Repin(r)
  <2>1. /\ pc[r] = "repin" /\ backend[r] \in Decodes
        /\ backend[r] \notin attempted[r] /\ alive[backend[r]]
    BY <1>17 DEF Repin, Healthy
  <2>2. pc'[r] = "decode" /\ backend'[r] = backend[r]
    BY <1>0, <1>17, <2>1 DEF Repin, StartDecode
  <2> QED
    BY <1>1, <2>1, <2>2 DEF Healthy, Stages
<1>18. ~WorkerBreaks(r)
  <2>1. pc[r] \in {"colocated", "closing"} => alive[Node(r)]
    BY DEF Healthy
  <2> QED
    BY <1>0, <2>1 DEF WorkerBreaks, Connected, Connections
<1> QED
  BY <1>6, <1>7, <1>8, <1>9, <1>10, <1>11, <1>12, <1>13, <1>14, <1>15, <1>16, <1>17, <1>18
     DEF Handler

(***************************************************************************)
(* A request that arrives at a fit system is healthy.                      *)
(***************************************************************************)
LEMMA FitRequestStep ==
    ASSUME AtMostTwo, Inv, PastInv, [Next]_vars, NEW r \in Reqs, OwnStep(r), FitInv(r)
    PROVE  FitInv(r)'
<1>1. faults \in Nat /\ (faults' = faults \/ faults' = faults + 1)
  BY FaultsAddUp
<1>2. CASE Arrive(r)
  <2>1. /\ past'[r].well = FitToServe /\ past'[r].faults = faults /\ faults' = faults
        /\ UNCHANGED <<redisUp, registry, stale, alive, lost, seen>>
        /\ pc[r] = "new" /\ pc'[r] = "choose"
    BY <1>2 DEF Arrive, PastInv, GoTo, envVars, redisVars, localVars, Inv, TypeInv
  <2>2. seen[r] = {} /\ r \notin lost
    BY <2>1 DEF Inv, ReqInv, PlaceInv, ListStages, Connections
  <2>3. FitToServe' <=> FitToServe
    BY <2>1 DEF FitToServe, Fresh
  <2>4. FitToServe => Healthy(r)'
    BY <2>1, <2>2, <2>3 DEF Healthy, Keeps, Fresh, Finds, FitToServe, Stages
  <2> QED
    BY <1>1, <2>1, <2>4 DEF FitInv
<1>3. CASE ~Arrive(r)
  <2>1. past' = past
    BY <1>3, OthersStay
  <2>2. faults' = faults => Handler(r)
    BY <1>3, FaultsAddUp
  <2>3. Healthy(r) /\ faults' = faults => Healthy(r)'
    BY <2>2, HealthyStep
  <2> QED
    BY <1>1, <2>1, <2>3 DEF FitInv
<1> QED
  BY <1>2, <1>3

(***************************************************************************)
(* The system heals: what a fit system is asked for it serves, whatever    *)
(* entries left from before a crash or an outage expire under way, and     *)
(* whatever pins and earlier requests have left behind (main.py:93-187).   *)
(* For two decode nodes: with a third, fallback may go from one that is    *)
(* down to another and give up.                                            *)
(***************************************************************************)
THEOREM FitSystemServes == AtMostTwo /\ Spec => []ServedWhenFit
<1> SUFFICES ASSUME AtMostTwo PROVE Spec => []ServedWhenFit
  OBVIOUS
<1> DEFINE AllFit == \A r \in Reqs : FitInv(r)
<1>1. Init => AllFit
  BY DEF Init, FitInv
<1>2. Inv /\ PastInv /\ AllFit /\ [Next]_vars => AllFit'
  <2> SUFFICES ASSUME Inv, PastInv, AllFit, [Next]_vars, NEW s \in Reqs
               PROVE  FitInv(s)'
    OBVIOUS
  <2>1. CASE UNCHANGED vars
    BY <2>1, FitNodeStep DEF vars
  <2>2. CASE Environment /\ UNCHANGED reqVars
    BY <2>2, FitNodeStep
  <2>3. ASSUME NEW r \in Reqs, OwnStep(r)
        PROVE  FitInv(s)'
    BY <2>3, FitRequestStep, FitOthersStep
  <2> QED
    BY <2>1, <2>2, <2>3, NextSplits
<1>3. PastInv /\ AllFit => ServedWhenFit
  BY DEF FitInv, Healthy, ServedWhenFit
<1> QED
  BY PastHolds, <1>1, <1>2, <1>3, PTL DEF Spec

-------------------------------------------------------------------------------
(***************************************************************************)
(* A step that neither moves a pin nor takes a backend keeps it all.       *)
(***************************************************************************)
LEMMA QuietStep ==
    ASSUME Inv, Steady, NEW r \in Reqs, OwnStep(r), UNCHANGED <<pins, past>>,
           pc'[r] # "setpin", Served(r)' <=> Served(r),
           Served(r) => backend'[r] = backend[r],
           Sound(r)'
    PROVE  Steady'
<1>1. /\ UNCHANGED <<redisUp, registry, stale, alive>> /\ lost' = lost \ {r}
      /\ \A s \in Reqs \ {r} :
            /\ pc'[s] = pc[s] /\ backend'[s] = backend[s] /\ cands'[s] = cands[s]
            /\ seen'[s] = seen[s]
  BY OthersStay
<1>2. ASSUME NEW s \in Reqs
      PROVE  /\ Sound(s)' /\ (Served(s)' <=> Served(s))
             /\ Served(s) => backend'[s] = backend[s]
             /\ pc'[s] = "setpin" => pc[s] = "setpin"
  BY <1>1 DEF Steady, Sound, Served, Finds
<1>3. ASSUME NEW s \in Reqs
      PROVE  CalmTurn(s)'
  BY <1>2 DEF Steady, CalmTurn
<1>4. ASSUME NEW s \in Sessions
      PROVE  PinOfServed(s)'
  BY <1>2 DEF Steady, PinOfServed
<1> QED
  BY <1>1, <1>2, <1>3, <1>4 DEF Steady

(***************************************************************************)
(* The arrival of a turn: if the others of its session are over, the pin   *)
(* names a backend that served one of them.                                *)
(***************************************************************************)
LEMMA CalmArrival ==
    ASSUME Inv, PastInv, Steady, NEW r \in Reqs, Arrive(r)
    PROVE  Steady'
<1> DEFINE turns == {x \in Reqs \ {r} : SessionOf[x] = SessionOf[r]}
           by == {backend[x] : x \in {y \in turns : pc[y] \in {"ok", "oom"}}}
<1>0. pc \in [Reqs -> {"new"} \cup Stages \cup Outcomes] /\ SessionOf[r] \in Sessions
  BY RouterAssumption DEF Inv, TypeInv
<1>1. /\ UNCHANGED <<redisUp, registry, stale, alive, lost, pins, backend, cands, seen>>
      /\ pc[r] = "new" /\ pc'[r] = "choose" /\ \A s \in Reqs \ {r} : pc'[s] = pc[s]
  BY <1>0 DEF Arrive, GoTo, envVars, redisVars, localVars
<1>2. /\ past'[r].by = by /\ past'[r].calm = \A x \in turns : ~InFlight(x)
      /\ \A s \in Reqs \ {r} : past'[s] = past[s]
  BY DEF Arrive, PastInv
<1>3. \A s \in Reqs : Sound(s)' /\ (Served(s)' <=> Served(s))
  BY <1>1 DEF Steady, Sound, Served, Finds
<1>4. \A s \in Sessions : PinOfServed(s)'
  BY <1>1, <1>3 DEF Steady, PinOfServed
<1>5. ASSUME NEW s \in Reqs \ {r}
      PROVE  CalmTurn(s)'
  <2>1. CalmTurn(s)
    BY DEF Steady
  <2>2. \A y \in Reqs : pc'[y] = "setpin" => pc[y] = "setpin"
    BY <1>1
  <2>3. Served(s)' => Served(s)
    BY <1>3
  <2> QED
    BY <1>1, <1>2, <2>1, <2>2, <2>3 DEF CalmTurn
<1>6. CalmTurn(r)'
  <2> SUFFICES ASSUME \A x \in turns : ~InFlight(x), by # {}
               PROVE  /\ SessionOf[r] \in DOMAIN pins
                      /\ pins[SessionOf[r]] \in by /\ by \subseteq Decodes
                      /\ \A y \in Reqs : SessionOf[y] = SessionOf[r] => pc'[y] # "setpin"
    BY <1>1, <1>2 DEF CalmTurn, Served
  <2>1. PICK x \in turns : pc[x] \in {"ok", "oom"}
    OBVIOUS
  <2>2. PICK y \in Reqs : SessionOf[y] = SessionOf[r] /\ Served(y)
                          /\ backend[y] = pins[SessionOf[r]] /\ SessionOf[r] \in DOMAIN pins
    BY <1>0, <2>1 DEF Steady, PinOfServed, Served
  <2>3. y \in turns /\ pc[y] \in {"ok", "oom"}
    BY <1>1, <2>2 DEF Served, InFlight, Stages
  <2>4. by \subseteq Decodes
    BY DEF Steady, Sound, Served
  <2>5. \A z \in Reqs : SessionOf[z] = SessionOf[r] => pc'[z] # "setpin"
    BY <1>1 DEF InFlight, Stages
  <2> QED
    BY <2>2, <2>3, <2>4, <2>5
<1> QED
  BY <1>1, <1>3, <1>4, <1>5, <1>6 DEF Steady

(***************************************************************************)
(* A turn that reads the pin while its session is calm finds it names a    *)
(* candidate, so it goes there.                                            *)
(***************************************************************************)
LEMMA PinRead ==
    ASSUME Inv, Steady, NEW r \in Reqs, ReadPin(r)
    PROVE  Steady'
<1> DEFINE s == SessionOf[r]
<1>0. /\ pc \in [Reqs -> {"new"} \cup Stages \cup Outcomes] /\ DOMAIN backend = Reqs
      /\ s \in Sessions /\ Sound(r) /\ pc[r] = "readpin" /\ DOMAIN cands[r] = Decodes
      /\ DOMAIN cands = Reqs
  BY RouterAssumption DEF Inv, TypeInv, Steady, Sound, ReadPin
<1>1. /\ UNCHANGED <<redisUp, registry, stale, alive, lost, pins, past, seen>>
      /\ \A y \in Reqs \ {r} :
            pc'[y] = pc[y] /\ backend'[y] = backend[y] /\ cands'[y] = cands[y]
  BY <1>0, OthersStay DEF OwnStep, Handler, ReadPin, envVars, redisVars
<1>2. seen[r] = {}
  BY <1>0 DEF Inv, ReqInv, PlaceInv, ListStages
<1>3. ~Served(r) /\ \A y \in Reqs \ {r} : Sound(y)' /\ (Served(y)' <=> Served(y))
  BY <1>0, <1>1 DEF Steady, Sound, Served, Finds
<1>4. \A n \in Nodes : Finds(r, n)'
  BY <1>1, <1>2 DEF Steady, Finds
<1>5. CASE s \in DOMAIN pins /\ pins[s] \in DOMAIN cands[r]
  <2>1. pc'[r] = "decode" /\ backend'[r] = pins[s] /\ pins[s] \in Decodes
    BY <1>0, <1>5 DEF ReadPin, StartDecode
  <2>2. Sound(r)' /\ Served(r)'
    BY <1>4, <2>1 DEF Sound, Served
  <2>3. ASSUME NEW y \in Reqs
        PROVE  CalmTurn(y)'
    <3>1. CalmTurn(y) /\ \A z \in Reqs : pc'[z] = "setpin" => pc[z] = "setpin"
      BY <1>1, <2>1 DEF Steady
    <3> QED
      BY <1>1, <1>3, <2>1, <3>1 DEF CalmTurn
  <2>4. ASSUME NEW t \in Sessions
        PROVE  PinOfServed(t)'
    BY <1>1, <1>3, <1>5, <2>1, <2>2 DEF Steady, PinOfServed
  <2> QED
    BY <1>1, <1>3, <2>2, <2>3, <2>4 DEF Steady
<1>6. CASE ~(s \in DOMAIN pins /\ pins[s] \in DOMAIN cands[r])
  <2>1. pc'[r] = "setpin" /\ backend'[r] \in Decodes
    BY <1>0, <1>6 DEF ReadPin, GoTo, LeastLoaded
  <2>2. Sound(r)' /\ ~Served(r)'
    BY <1>4, <2>1 DEF Sound, Served
  <2>3. ASSUME NEW y \in Reqs
        PROVE  CalmTurn(y)'
    <3>1. CalmTurn(y)
      BY DEF Steady
    <3>2. SessionOf[y] = s => ~(past[y].calm /\ past[y].by # {})
      BY <1>0, <1>6, <3>1 DEF CalmTurn
    <3> QED
      BY <1>1, <1>3, <2>1, <2>2, <3>1, <3>2 DEF CalmTurn
  <2>4. ASSUME NEW t \in Sessions
        PROVE  PinOfServed(t)'
    BY <1>1, <1>3, <2>2 DEF Steady, PinOfServed
  <2> QED
    BY <1>1, <1>3, <2>2, <2>3, <2>4 DEF Steady
<1> QED
  BY <1>5, <1>6

(***************************************************************************)
(* A pin is only set where no turn of the session arrived to a calm one.   *)
(***************************************************************************)
LEMMA PinSet ==
    ASSUME Inv, Steady, NEW r \in Reqs, SetPin(r)
    PROVE  Steady'
<1> DEFINE s == SessionOf[r]
<1>0. /\ pc \in [Reqs -> {"new"} \cup Stages \cup Outcomes] /\ DOMAIN backend = Reqs
      /\ s \in Sessions /\ pc[r] = "setpin" /\ backend[r] \in Decodes
  BY RouterAssumption DEF Inv, TypeInv, Steady, Sound, SetPin
<1>1. /\ UNCHANGED <<redisUp, registry, stale, alive, lost, past, seen>>
      /\ \A y \in Reqs \ {r} :
            pc'[y] = pc[y] /\ backend'[y] = backend[y] /\ cands'[y] = cands[y]
      /\ pc'[r] = "decode" /\ backend'[r] = backend[r]
  BY <1>0, OthersStay DEF OwnStep, Handler, SetPin, StartDecode
<1>2. /\ DOMAIN pins' = DOMAIN pins \cup {s} /\ pins'[s] = backend[r]
      /\ \A t \in DOMAIN pins \ {s} : pins'[t] = pins[t]
  BY DEF SetPin, SetKey
<1>3. seen[r] = {}
  BY <1>0 DEF Inv, ReqInv, PlaceInv, ListStages
<1>4. \A n \in Nodes : Finds(r, n)'
  BY <1>1, <1>3 DEF Steady, Finds
<1>5. Sound(r)' /\ Served(r)' /\ ~Served(r)
  BY <1>0, <1>1, <1>4 DEF Sound, Served
<1>6. \A y \in Reqs \ {r} : Sound(y)' /\ (Served(y)' <=> Served(y))
  BY <1>1 DEF Steady, Sound, Served, Finds
<1>7. ASSUME NEW y \in Reqs
      PROVE  CalmTurn(y)'
  <2>1. CalmTurn(y)
    BY DEF Steady
  <2>2. CASE SessionOf[y] = s
    BY <1>0, <1>1, <2>1, <2>2 DEF CalmTurn
  <2>3. CASE SessionOf[y] # s
    <3>1. y # r /\ \A z \in Reqs : pc'[z] = "setpin" => pc[z] = "setpin"
      BY <1>1, <2>3
    <3> QED
      BY <1>1, <1>2, <1>6, <2>1, <2>3, <3>1 DEF CalmTurn
  <2> QED
    BY <2>2, <2>3
<1>8. ASSUME NEW t \in Sessions
      PROVE  PinOfServed(t)'
  <2>1. CASE t = s
    BY <1>1, <1>2, <1>5, <2>1 DEF PinOfServed
  <2>2. CASE t # s
    BY <1>1, <1>2, <1>6, <2>2 DEF Steady, PinOfServed
  <2> QED
    BY <2>1, <2>2
<1> QED
  BY <1>1, <1>5, <1>6, <1>7, <1>8 DEF Steady

-------------------------------------------------------------------------------
(***************************************************************************)
(* While nothing fails, every other step is quiet.                         *)
(***************************************************************************)
LEMMA SteadyStep ==
    ASSUME Modes = {"disaggregated"}, Inv, PastInv, Steady,
           NEW r \in Reqs, Arrive(r) \/ Handler(r)
    PROVE  Steady'
<1>0. /\ redisUp /\ r \notin lost /\ Sound(r) /\ PlaceInv(r) /\ mode = "disaggregated"
      /\ \A n \in Nodes : n \in DOMAIN registry /\ alive[n]
      /\ pc \in [Reqs -> {"new"} \cup Stages \cup Outcomes]
      /\ DOMAIN backend = Reqs /\ DOMAIN cands = Reqs /\ DOMAIN seen = Reqs
  BY DEF Inv, EnvInv, TypeInv, ReqInv, Steady
<1>1. UNCHANGED registry
  BY OthersStay DEF OwnStep
<1>2. \A stage : GoTo(r, stage) => pc'[r] = stage
  BY <1>0 DEF GoTo
<1>3. seen'[r] = {} => \A n \in Nodes : Finds(r, n)'
  BY <1>0, <1>1 DEF Finds
<1>4. seen'[r] = seen[r] /\ cands'[r] = cands[r] => \A n \in Nodes : Finds(r, n)'
  BY <1>0, <1>1 DEF Finds, Sound
<1>5. CASE Visit(r)
  <2>1. /\ UNCHANGED <<pins, past, pc, backend>> /\ pc[r] \in ListStages
    BY <1>5 DEF Visit, envVars, redisVars
  <2>2. \A n \in Nodes : Finds(r, n)'
    BY <1>0, <1>5, VisitFinds DEF Sound
  <2>3. Sound(r)'
    BY <1>0, <2>1, <2>2 DEF Sound, Served, ListStages
  <2> QED
    BY <1>5, <2>1, <2>3, QuietStep DEF OwnStep, Handler, Served, ListStages
<1>6. CASE ChoosePrefill(r)
  <2>1. /\ UNCHANGED <<pins, past>> /\ pc[r] = "choose" /\ seen'[r] = {}
        /\ pc'[r] \in {"no_prefill", "prefill"}
    BY <1>0, <1>2, <1>6 DEF ChoosePrefill, ListEnds, envVars, redisVars
  <2>2. Sound(r)'
    BY <1>3, <2>1 DEF Sound, Served
  <2> QED
    BY <1>6, <2>1, <2>2, QuietStep DEF OwnStep, Handler, Served
<1>7. CASE PrefillOk(r)
  <2>1. /\ UNCHANGED <<pins, past, seen, cands>> /\ pc[r] = "prefill" /\ pc'[r] = "list"
    BY <1>2, <1>7 DEF PrefillOk, envVars, redisVars, localVars
  <2>2. Sound(r)'
    BY <1>4, <2>1 DEF Sound, Served
  <2> QED
    BY <1>7, <2>1, <2>2, QuietStep DEF OwnStep, Handler, Served
<1>8. CASE ListDecode(r)
  <2>1. /\ UNCHANGED <<pins, past>> /\ pc[r] = "list" /\ seen'[r] = {}
        /\ pc'[r] \in {"no_decode", "readpin"} /\ cands'[r] = Candidates(Listed(r), StaticDecodes)
        /\ pc'[r] = "readpin" => DOMAIN cands'[r] # {}
    BY <1>0, <1>2, <1>8 DEF ListDecode, ListEnds, envVars, redisVars
  <2>2. DOMAIN Candidates(Listed(r), StaticDecodes) = Decodes
    <3>1. RoleAt(pc[r]) = Decodes /\ Decodes \subseteq Nodes
      BY <2>1 DEF RoleAt, Nodes
    <3>2. DOMAIN Listed(r) = Decodes
      BY <1>0, <2>1, <3>1, ListedRole, ListingFinds DEF ListStages, Sound
    <3>3. Decodes = {} => StaticDecodes = {}
      BY RoutingAssumption DEF DecodeNames
    <3> QED
      BY <3>2, <3>3 DEF Candidates
  <2>3. Sound(r)'
    BY <1>3, <2>1, <2>2 DEF Sound, Served
  <2> QED
    BY <1>8, <2>1, <2>3, QuietStep DEF OwnStep, Handler, Served
<1>9. CASE TokenFrame(r) \/ FinalFrame(r)
  <2>1. /\ UNCHANGED <<pins, past, backend, seen, cands>>
        /\ pc[r] = "decode" /\ pc'[r] \in {"decode", "ok", "oom"}
    BY <1>0, <1>2, <1>9 DEF TokenFrame, FinalFrame, envVars, redisVars, localVars, Sound
  <2>2. Sound(r)'
    BY <1>0, <1>4, <2>1 DEF Sound, Served
  <2> QED
    BY <1>9, <2>1, <2>2, QuietStep DEF OwnStep, Handler, Served
<1>10. ~(PrefillFail(r) \/ DecodeBreaks(r) \/ RedisRaises(r))
  <2>1. pc[r] = "prefill" => alive[Node(r)]
    BY <1>0, RoutingAssumption DEF PlaceInv, Node
  <2>2. pc[r] = "decode" => Node(r) = backend[r] /\ alive[backend[r]]
    BY <1>0, RoutingAssumption DEF Sound, Served, Node, Nodes, DecodeNames
  <2> QED
    BY <1>0, <2>1, <2>2 DEF PrefillFail, DecodeBreaks, RedisRaises
<1>11. ~(ListOthers(r) \/ Repin(r) \/ WorkerFinal(r) \/ WorkerDone(r) \/ WorkerBreaks(r))
  BY <1>0 DEF Sound, ListOthers, ListEnds, Repin, WorkerFinal, WorkerDone, WorkerBreaks
<1> QED
  BY <1>5, <1>6, <1>7, <1>8, <1>9, <1>10, <1>11, CalmArrival, PinRead, PinSet DEF Handler

(***************************************************************************)
(* Heartbeats go on; nothing expires and nothing returns.                  *)
(***************************************************************************)
LEMMA SteadyNodeStep ==
    ASSUME Inv, Steady, UNCHANGED reqVars,
           \/ \E n \in Nodes : Heartbeat(n) \/ EntryExpires(n) \/ Restart(n)
           \/ RedisReturns
    PROVE  Steady'
<1>1. PICK n \in Nodes : Heartbeat(n)
  BY DEF Steady, EntryExpires, Restart, RedisReturns
<1>2. /\ UNCHANGED <<redisUp, pins, alive, lost>> /\ DOMAIN registry' = DOMAIN registry \cup {n}
      /\ stale' = {}
  BY <1>1 DEF Heartbeat, SetKey, Steady
<1>3. UNCHANGED <<pc, backend, cands, seen, past>>
  BY DEF reqVars, localVars
<1>4. \A r \in Reqs : Sound(r)' /\ CalmTurn(r)'
  BY <1>2, <1>3 DEF Steady, Sound, Served, Finds, CalmTurn
<1>5. \A s \in Sessions : PinOfServed(s)'
  BY <1>2, <1>3 DEF Steady, PinOfServed, Served
<1> QED
  BY <1>2, <1>4, <1>5 DEF Steady

(***************************************************************************)
(* A turn that arrives when the others of its session are over goes to a   *)
(* backend that served one of them, as long as nothing fails, whatever the *)
(* races of earlier turns left as the pin (routing.py:82-101).  Colocated  *)
(* requests have no pins.                                                  *)
(***************************************************************************)
THEOREM CalmTurnsStick == Modes = {"disaggregated"} /\ Spec => []TurnsStick
<1> SUFFICES ASSUME Modes = {"disaggregated"} PROVE Spec => []TurnsStick
  OBVIOUS
<1>1. Init => StickInv
  <2> SUFFICES ASSUME Init PROVE Steady
    BY DEF StickInv
  <2>1. \A r \in Reqs : Sound(r) /\ CalmTurn(r)
    BY DEF Init, Sound, Finds, Served, CalmTurn
  <2>2. \A s \in Sessions : PinOfServed(s)
    BY DEF Init, PinOfServed, Served
  <2> QED
    BY <2>1, <2>2 DEF Init, Steady
<1>2. Inv /\ PastInv /\ StickInv /\ [Next]_vars => StickInv'
  <2> SUFFICES ASSUME Inv, PastInv, StickInv, [Next]_vars, faults' = 0 PROVE Steady'
    BY DEF StickInv
  <2>1. Steady /\ faults' = faults
    BY FaultsAddUp DEF StickInv
  <2>2. CASE UNCHANGED vars
    <3>1. UNCHANGED <<redisUp, registry, stale, pins, alive, lost, pc, backend, cands, seen, past>>
      BY <2>2 DEF vars, envVars, redisVars, reqVars, localVars
    <3>2. \A r \in Reqs : Sound(r)' /\ CalmTurn(r)'
      BY <2>1, <3>1 DEF Steady, Sound, Served, Finds, CalmTurn
    <3>3. \A s \in Sessions : PinOfServed(s)'
      BY <2>1, <3>1 DEF Steady, PinOfServed, Served
    <3> QED
      BY <2>1, <3>1, <3>2, <3>3 DEF Steady
  <2>3. CASE Environment /\ UNCHANGED reqVars
    BY <2>1, <2>3, FaultsAddUp, SteadyNodeStep
  <2>4. ASSUME NEW r \in Reqs, OwnStep(r)
        PROVE  Steady'
    BY <2>1, <2>4, FaultsAddUp, SteadyStep
  <2> QED
    BY <2>2, <2>3, <2>4, NextSplits
<1>3. StickInv => TurnsStick
  BY DEF StickInv, Steady, CalmTurn, Served, TurnsStick
<1> QED
  BY PastHolds, <1>1, <1>2, <1>3, PTL DEF Spec

-------------------------------------------------------------------------------
(***************************************************************************)
(* A fallback has tried one backend and is about to name another.          *)
(***************************************************************************)
LEMMA TriedStep ==
    ASSUME Inv, NEW r \in Reqs, OwnStep(r), TriedInv(r)
    PROVE  TriedInv(r)'
<1>0. /\ pc \in [Reqs -> {"new"} \cup Stages \cup Outcomes] /\ DOMAIN cands = Reqs
      /\ backend \in [Reqs -> Names] /\ attempted \in [Reqs -> SUBSET DecodeNames]
  BY DEF Inv, TypeInv
<1>1. \A stage : GoTo(r, stage) => pc'[r] = stage
  BY <1>0 DEF GoTo
<1>2. \A name, decision : StartDecode(r, name, decision) =>
        pc'[r] = "decode" /\ backend'[r] = name /\ attempted'[r] = attempted[r] \cup {name}
  BY <1>0 DEF StartDecode
<1>3. CASE ListOthers(r)
  <2>1. /\ pc[r] = "fallback" /\ attempted' = attempted
        /\ cands'[r] = Candidates(Listed(r), StaticDecodes)
    BY <1>0, <1>3 DEF ListOthers, ListEnds
  <2>2. DOMAIN Listed(r) \subseteq Decodes
    BY <2>1, ListedRole DEF ListStages, RoleAt
  <2>3. \/ DOMAIN Candidates(Listed(r), StaticDecodes) \subseteq Decodes
        \/ DOMAIN Candidates(Listed(r), StaticDecodes) \subseteq StaticDecodes
    BY <2>2 DEF Candidates
  <2>4. \/ pc'[r] = "decode_failed"
        \/ /\ pc'[r] = "repin"
           /\ backend'[r] \in DOMAIN Others(Candidates(Listed(r), StaticDecodes), backend[r])
    BY <1>0, <1>1, <1>3 DEF ListOthers, LeastLoaded
  <2>5. DOMAIN Others(Candidates(Listed(r), StaticDecodes), backend[r])
            = DOMAIN Candidates(Listed(r), StaticDecodes) \ {backend[r]}
    BY DEF Others, DropKey, Restrict
  <2> QED
    BY <2>1, <2>3, <2>4, <2>5 DEF TriedInv
<1>4. CASE ReadPin(r) \/ SetPin(r) \/ Repin(r)
  <2>1. \/ pc'[r] \in {"setpin", "decode_failed"}
        \/ pc'[r] = "decode" /\ backend'[r] \in attempted'[r]
    BY <1>1, <1>2, <1>4 DEF ReadPin, SetPin, Repin
  <2> QED
    BY <2>1 DEF TriedInv
<1>5. CASE Visit(r)
  BY <1>5 DEF Visit, ListStages, TriedInv
<1>6. CASE TokenFrame(r) \/ DecodeBreaks(r) \/ StreamTimesOut(r)
  <2>1. /\ UNCHANGED <<backend, attempted>>
        /\ pc[r] = "decode" \/ pc'[r] \in {"colocated", "worker_failed"}
        /\ pc'[r] # "repin"
    BY <1>0, <1>1, <1>6 DEF TokenFrame, DecodeBreaks, StreamTimesOut, localVars, Connections
  <2> QED
    BY <2>1 DEF TriedInv
<1>7. CASE \/ Arrive(r) \/ ChoosePrefill(r) \/ PrefillOk(r) \/ PrefillFail(r) \/ PrefillErrs(r)
           \/ ListDecode(r) \/ FinalFrame(r) \/ RedisRaises(r) \/ HangUp(r)
           \/ WorkerFinal(r) \/ WorkerDone(r) \/ WorkerBreaks(r)
  <2>1. pc'[r] \notin {"decode", "fallback", "repin"}
    BY <1>1, <1>7 DEF Arrive, ChoosePrefill, PrefillOk, PrefillFail, PrefillErrs, ListDecode,
       FinalFrame, RedisRaises, HangUp, WorkerFinal, WorkerDone, WorkerBreaks, EndSeen
  <2> QED
    BY <2>1 DEF TriedInv
<1> QED
  BY <1>3, <1>4, <1>5, <1>6, <1>7 DEF OwnStep, Handler

(***************************************************************************)
(* With two decode nodes a request is given up only when the last listing  *)
(* holds no backend it has not tried (main.py:157-187, routing.py:104-122).*)
(* With three it may be given up earlier.                                  *)
(***************************************************************************)
THEOREM AllTried == AtMostTwo /\ Spec => GivesUpOnlyWhenAllTried
<1> SUFFICES ASSUME AtMostTwo PROVE Spec => GivesUpOnlyWhenAllTried
  OBVIOUS
<1> DEFINE Tried == \A r \in Reqs : TriedInv(r)
           GivesUp(r) == /\ pc[r] # "decode_failed" /\ pc'[r] = "decode_failed"
                         /\ attempted[r] \cap StaticDecodes = {}
<1>1. Init => Tried
  BY DEF Init, TriedInv
<1>2. Inv /\ Tried /\ [Next]_vars => Tried'
  <2> SUFFICES ASSUME Inv, Tried, [Next]_vars, NEW s \in Reqs PROVE TriedInv(s)'
    OBVIOUS
  <2>1. CASE UNCHANGED reqVars
    BY <2>1 DEF reqVars, localVars, TriedInv
  <2>2. ASSUME NEW r \in Reqs, OwnStep(r)
        PROVE  TriedInv(s)'
    <3>1. CASE s # r
      BY <2>2, <3>1, OthersStay DEF TriedInv
    <3> QED
      BY <2>2, <3>1, TriedStep
  <2> QED
    BY <2>1, <2>2, NextSplits DEF vars
<1>3. Inv /\ Tried /\ [Next]_vars =>
        [\A r \in Reqs : GivesUp(r) => DOMAIN cands'[r] \subseteq attempted[r]]_vars
  <2> SUFFICES ASSUME Inv, Tried, Next, NEW r \in Reqs, GivesUp(r)
               PROVE  DOMAIN cands'[r] \subseteq attempted[r]
    OBVIOUS
  <2>0. /\ pc \in [Reqs -> {"new"} \cup Stages \cup Outcomes] /\ DOMAIN cands = Reqs
        /\ attempted[r] \subseteq Decodes
    BY DEF Inv, TypeInv, DecodeNames
  <2>1. OwnStep(r)
    <3>1. ~UNCHANGED reqVars
      BY DEF reqVars
    <3>2. PICK s \in Reqs : OwnStep(s)
      BY <3>1, NextSplits
    <3> QED
      BY <3>2, OthersStay
  <2>2. \A stage : GoTo(r, stage) => pc'[r] = stage
    BY <2>0 DEF GoTo
  <2>3. \A name, decision : StartDecode(r, name, decision) => pc'[r] = "decode"
    BY <2>0 DEF StartDecode
  <2>4. ListOthers(r) \/ Repin(r)
    BY <2>1, <2>2, <2>3 DEF OwnStep, Handler, Arrive, Visit, ChoosePrefill, PrefillOk,
       PrefillFail, PrefillErrs, ListDecode, ReadPin, SetPin, TokenFrame, FinalFrame,
       DecodeBreaks, RedisRaises, WorkerFinal, WorkerDone, WorkerBreaks, EndSeen,
       StreamTimesOut, HangUp
  <2>5. CASE ListOthers(r)
    <3>1. /\ cands'[r] = Candidates(Listed(r), StaticDecodes) /\ pc[r] = "fallback"
          /\ DOMAIN Others(Candidates(Listed(r), StaticDecodes), backend[r]) = {}
      BY <2>0, <2>2, <2>5 DEF ListOthers, ListEnds
    <3>2. DOMAIN Others(Candidates(Listed(r), StaticDecodes), backend[r])
            = DOMAIN Candidates(Listed(r), StaticDecodes) \ {backend[r]}
      BY DEF Others, DropKey, Restrict
    <3>3. backend[r] \in attempted[r]
      BY <3>1 DEF TriedInv
    <3> QED
      BY <3>1, <3>2, <3>3
  <2>6. CASE Repin(r)
    <3>1. /\ pc[r] = "repin" /\ backend[r] \in attempted[r] /\ cands' = cands
      BY <2>2, <2>3, <2>6 DEF Repin
    <3>2. PICK f \in attempted[r] : f # backend[r]
      BY <3>1 DEF TriedInv
    <3>3. DOMAIN cands[r] \subseteq Decodes
      BY <3>1 DEF TriedInv
    <3>4. Decodes \subseteq {f, backend[r]}
      BY <2>0, <3>1, <3>2 DEF AtMostTwo
    <3> QED
      BY <3>1, <3>2, <3>3, <3>4
  <2> QED
    BY <2>4, <2>5, <2>6
<1> QED
  BY Invariance, <1>1, <1>2, <1>3, PTL DEF Spec, GivesUpOnlyWhenAllTried
===============================================================================
