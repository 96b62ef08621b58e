------------------------------- MODULE KVTransfer -------------------------------
(***************************************************************************)
(* common/kv_transfer.py: the time it takes to move a KV cache from the    *)
(* prefill node to the decode node, as an exact fraction of milliseconds   *)
(* (the code computes in floating point).  Sizes are whole megabytes and   *)
(* bandwidths whole gigabits per second, an eighth of a megabyte per       *)
(* millisecond.                                                            *)
(***************************************************************************)
EXTENDS Integers

\* The fraction num/den, den > 0.
Fraction(num, den) == [num |-> num, den |-> den]

Shorter(s, t) == s.num * t.den < t.num * s.den

\* transfer_ms.  A bandwidth that is not positive costs the fixed part only.
Transfer(size, bandwidth, fixed, colocated) ==
    IF colocated \/ size <= 0 THEN Fraction(0, 1)
    ELSE IF bandwidth <= 0 THEN Fraction(fixed, 1)
    ELSE Fraction(fixed * bandwidth + 8 * size, bandwidth)
================================================================================
