-------------------------------- MODULE MCRouter --------------------------------
(***************************************************************************)
(* Values for checking Router: the deployment of docker-compose.yml, one   *)
(* prefill node and two decode nodes, and a third decode node.             *)
(***************************************************************************)
EXTENDS Router, TLC

CONSTANTS p, d1, d2, d3, s1, q1, q2, q3

OnePrefill == {p}
TwoDecodes == {d1, d2}
ThreeDecodes == {d1, d2, d3}
\* PREFILL_URLS and DECODE_URLS are empty, or hold one url each: that of the
\* prefill node, and that of the first decode node.
NoStatic == {}
MadePrefill == {"prefill-0"}
MadeDecode == {"decode-0"}
ByName == [n \in PrefillNames \cup DecodeNames |->
            CASE n = "prefill-0" -> p
              [] n = "decode-0" -> d1
              [] OTHER -> n]

OneSession == {s1}
OneReq == {q1}
TwoReqs == {q1, q2}
ThreeReqs == {q1, q2, q3}
SameSession == [r \in Reqs |-> s1]

\* Requests of one session are alike, and so are the decode nodes: sound for
\* the runs that check no liveness.
Alike == Permutations(Reqs) \cup Permutations(Decodes)

OneLoad == {0}
TwoLoads == {0, 1}

NoFaults == {}
Crashes == {"crash"}
AllFaults == {"crash", "timeout", "prefill", "redis", "expiry", "hangup"}
===============================================================================
