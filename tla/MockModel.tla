------------------------------- MODULE MockModel -------------------------------
(***************************************************************************)
(* common/mock_model.py: what a prompt costs.  Memory is in the units of   *)
(* KVPool.  The tokens themselves and the latencies are left out: of a     *)
(* stream the models tell the indices apart, and they count no time here.  *)
(***************************************************************************)
EXTENDS Integers

CONSTANT UnitsPerToken  \* Settings.kv_mb_per_token, in units

ASSUME ModelAssumption == UnitsPerToken \in Nat

\* count_tokens of a prompt of so many words: an empty one has one token.
CountTokens(words) == IF words < 1 THEN 1 ELSE words

\* kv_size_mb of the cache of a prompt.
KvSize(words) == CountTokens(words) * UnitsPerToken
===============================================================================
