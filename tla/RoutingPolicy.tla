----------------------------- MODULE RoutingPolicy -----------------------------
(***************************************************************************)
(* The data of services/router/routing.py and common/redis_client.py: what *)
(* Redis holds and how the router chooses from it.  Router.tla keeps the   *)
(* stores in variables and gives each await a step of its own.             *)
(*                                                                         *)
(* A store is a function on the keys present.  The registry maps the name  *)
(* of a node to the load score its last heartbeat carried; the session map *)
(* sends a session to the name of a decode backend.                        *)
(***************************************************************************)
EXTENDS Integers, FiniteSets, Functions

CONSTANTS
    Prefills,       \* names of the prefill nodes
    Decodes,        \* names of the decode nodes
    StaticPrefills, \* names "prefill-i" made up for Settings.prefill_urls
    StaticDecodes,  \* names "decode-i" made up for Settings.decode_urls
    NodeOf,         \* NodeOf[n]: the node that answers at n's url
    Sessions,       \* session ids
    Loads           \* values of _load_score

Nodes == Prefills \cup Decodes
PrefillNames == Prefills \cup StaticPrefills
DecodeNames == Decodes \cup StaticDecodes

ASSUME RoutingAssumption ==
    /\ PrefillNames \cap DecodeNames = {}
    /\ NodeOf \in [PrefillNames \cup DecodeNames -> Nodes]
    /\ \A n \in StaticPrefills : NodeOf[n] \in Prefills
    /\ \A n \in StaticDecodes : NodeOf[n] \in Decodes
    /\ \A n \in Nodes : NodeOf[n] = n
    /\ Loads \subseteq Nat /\ 0 \in Loads

NoKeys == [k \in {} |-> 0]

SetKey(store, key, value) ==
    [k \in DOMAIN store \cup {key} |-> IF k = key THEN value ELSE store[k]]

DropKey(store, key) == Restrict(store, DOMAIN store \ {key})

-------------------------------------------------------------------------------
\* A slip used by mutants: a fallback that considers the backend that just
\* failed.
KeepFailed(cands, failed) == cands

-------------------------------------------------------------------------------
(***************************************************************************)
(* What list_backends has found after it read these keys too; one that     *)
(* has expired since SCAN yielded it is left out.                          *)
(***************************************************************************)
ReadKeys(found, registry, keys) ==
    [n \in DOMAIN found \cup (DOMAIN registry \cap keys) |->
        IF n \in keys THEN registry[n] ELSE found[n]]

\* _candidates makes up idle backends, from the urls configured for the role,
\* when the list is empty.
Candidates(found, made) ==
    IF DOMAIN found # {} THEN found ELSE [n \in made |-> 0]

\* candidates.sort(key=_load_score); SCAN decides among equals.
LeastLoaded(cands) ==
    {n \in DOMAIN cands : \A m \in DOMAIN cands : cands[n] <= cands[m]}

\* The candidates fallback_decode considers.
Others(cands, failed) == DropKey(cands, failed)

===============================================================================
