------------------------------ MODULE TokenStream ------------------------------
(***************************************************************************)
(* What a decode node promises to the holder of a request, apart from how  *)
(* it batches: DecodeScheduler.submit returns "a queue that yields         *)
(* TokenChunks" whose last one "carries a non-null finish_reason".  A      *)
(* request gets its tokens one by one, numbered from 0, then one final     *)
(* chunk; or it is refused before its first token.                         *)
(*                                                                         *)
(* DecodeScheduler implements this module.                                 *)
(***************************************************************************)
EXTENDS Integers, Sequences

CONSTANTS
    Reqs,       \* decode requests
    Limit       \* Limit[r]: the tokens request r is to get, at least one

VARIABLES
    phase,      \* phase[r]: "new", "open" or "closed"
    stream,     \* stream[r]: the chunks put on the request's queue
    up          \* the node is serving

vars == <<phase, stream, up>>

\* TokenChunk: the text of a token is left out.
TokenChunk(index) == [index |-> index, finish |-> "none"]
FinalChunk(index, reason) == [index |-> index, finish |-> reason]

Init ==
    /\ phase = [r \in Reqs |-> "new"]
    /\ stream = [r \in Reqs |-> <<>>]
    /\ up = TRUE

Open(r) ==
    /\ phase[r] = "new"
    /\ phase' = [phase EXCEPT ![r] = "open"]
    /\ UNCHANGED <<stream, up>>

\* One more token; the last one is followed by the final chunk.
Deliver(r) ==
    /\ up
    /\ phase[r] = "open"
    /\ LET n == Len(stream[r])
           token == Append(stream[r], TokenChunk(n))
       IN  IF n + 1 < Limit[r]
           THEN /\ stream' = [stream EXCEPT ![r] = token]
                /\ UNCHANGED phase
           ELSE /\ stream' = [stream EXCEPT
                                ![r] = Append(token, FinalChunk(n + 1, "length"))]
                /\ phase' = [phase EXCEPT ![r] = "closed"]
    /\ UNCHANGED up

\* The node has no memory for the request.
Refuse(r) ==
    /\ up
    /\ phase[r] = "open"
    /\ stream[r] = <<>>
    /\ stream' = [stream EXCEPT ![r] = <<FinalChunk(0, "oom")>>]
    /\ phase' = [phase EXCEPT ![r] = "closed"]
    /\ UNCHANGED up

Shutdown ==
    /\ up' = FALSE
    /\ UNCHANGED <<phase, stream>>

Next ==
    \/ \E r \in Reqs : Open(r) \/ Deliver(r) \/ Refuse(r)
    \/ Shutdown

\* A serving node gets round to every request.
Fairness == \A r \in Reqs : WF_vars(Deliver(r) \/ Refuse(r))

Safety == Init /\ [][Next]_vars

Spec == Safety /\ Fairness

-------------------------------------------------------------------------------
(***************************************************************************)
(* The shape of a request's stream at every moment: tokens 0, 1, 2... with *)
(* none missing, repeated or out of order, never more than the limit, and  *)
(* a final chunk exactly when the request is closed, after which nothing   *)
(* follows; a stream closed for length is complete and one closed for want *)
(* of memory is empty.  (batching.py:94-98 and 128-141.)                   *)
(***************************************************************************)
Tokens(n) == [i \in 1..n |-> TokenChunk(i - 1)]

WellFormed ==
    \A r \in Reqs :
        \/ /\ phase[r] = "new"
           /\ stream[r] = <<>>
        \/ /\ phase[r] = "open"
           /\ \E n \in 0..(Limit[r] - 1) : stream[r] = Tokens(n)
        \/ /\ phase[r] = "closed"
           /\ \/ stream[r] = Append(Tokens(Limit[r]), FinalChunk(Limit[r], "length"))
              \/ stream[r] = <<FinalChunk(0, "oom")>>
===============================================================================
