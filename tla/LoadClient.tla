------------------------------- MODULE LoadClient -------------------------------
(***************************************************************************)
(* scripts/load_client.py: run_load sends its requests at a bounded        *)
(* concurrency, reads each stream, and reports on the results.  The        *)
(* benchmark compares the two modes of the system by these reports.        *)
(*                                                                         *)
(* What a stream may carry is what Router lets happen to a request: tokens *)
(* and a final frame, a refusal, an error frame, or a break.               *)
(***************************************************************************)
EXTENDS Integers, Sequences, FiniteSets

CONSTANTS
    Requests,       \* --requests
    Concurrency,    \* --concurrency
    MaxTokens,      \* --max-tokens
    MaxTime         \* bound: readings of time.perf_counter()

ASSUME LoadAssumption ==
    /\ Requests \in Nat \ {0}
    /\ Concurrency \in Nat \ {0}
    /\ MaxTokens \in Nat \ {0}
    /\ MaxTime \in Nat

Workers == 1..Requests

VARIABLES
    clock,      \* time.perf_counter()
    queue,      \* workers waiting for the semaphore, which is fair
    free,       \* its counter
    running,    \* workers inside one_request
    began,      \* began[i]: t0 of worker i
    ttft, total, tokens, ok,    \* the fields of Result i
    finish,     \* finish[i]: the finish_reason that came, or "none"
    results     \* Summary.results: workers in the order they were added

frameVars == <<ttft, tokens, finish>>
vars == <<clock, queue, free, running, began, frameVars, total, ok, results>>

Init ==
    /\ clock = 0
    /\ queue = [i \in Workers |-> i]
    /\ free = Concurrency
    /\ running = {}
    /\ began = [i \in Workers |-> 0]
    /\ ttft = [i \in Workers |-> 0]
    /\ total = [i \in Workers |-> 0]
    /\ tokens = [i \in Workers |-> 0]
    /\ ok = [i \in Workers |-> TRUE]
    /\ finish = [i \in Workers |-> "none"]
    /\ results = <<>>

-------------------------------------------------------------------------------
(***************************************************************************)
(* Slips used by mutants: a failure keeps its slot; the values are listed  *)
(* by worker and not sorted.                                               *)
(***************************************************************************)
ReportLeaking(i, success) ==
    /\ ok' = [ok EXCEPT ![i] = success]
    /\ total' = [total EXCEPT ![i] = clock - began[i]]
    /\ running' = running \ {i}
    /\ results' = Append(results, i)
    /\ free' = IF success THEN free + 1 ELSE free
    /\ UNCHANGED <<clock, queue, began, frameVars>>

ByWorker(f, S) ==
    [k \in 1..Cardinality(S) |-> CHOOSE i \in S : Cardinality({j \in S : j < i}) = k - 1]

-------------------------------------------------------------------------------
\* A worker gets through the semaphore and sends its request.
Begin(i) ==
    /\ queue # <<>> /\ Head(queue) = i
    /\ free > 0
    /\ queue' = Tail(queue)
    /\ free' = free - 1
    /\ running' = running \cup {i}
    /\ began' = [began EXCEPT ![i] = clock]
    /\ UNCHANGED <<clock, frameVars, total, ok, results>>

\* A frame with a token.  After a fallback to the other decode node they start
\* again from the first, so that up to twice as many come.
TokenFrame(i) ==
    /\ i \in running /\ finish[i] = "none"
    /\ tokens[i] < 2 * MaxTokens
    /\ ttft' = [ttft EXCEPT ![i] = IF tokens[i] = 0 THEN clock - began[i] ELSE @]
    /\ tokens' = [tokens EXCEPT ![i] = @ + 1]
    /\ UNCHANGED <<clock, queue, free, running, began, finish, total, ok, results>>

\* A frame with a finish_reason carries no token; the client reads on.
FinalFrame(i) ==
    /\ i \in running /\ finish[i] = "none"
    /\ \/ tokens[i] >= MaxTokens /\ finish' = [finish EXCEPT ![i] = "length"]
       \/ tokens[i] <= MaxTokens /\ finish' = [finish EXCEPT ![i] = "oom"]
    /\ UNCHANGED <<clock, queue, free, running, began, ttft, tokens, total, ok, results>>

\* one_request returns and the worker leaves the semaphore.
Report(i, success) ==
    /\ ok' = [ok EXCEPT ![i] = success]
    /\ total' = [total EXCEPT ![i] = clock - began[i]]
    /\ running' = running \ {i}
    /\ results' = Append(results, i)
    /\ free' = free + 1
    /\ UNCHANGED <<clock, queue, began, frameVars>>

\* "[DONE]": the request went well, whatever the finish_reason was.
Done(i) ==
    /\ i \in running /\ finish[i] # "none"
    /\ Report(i, TRUE)

\* An error frame, an error status, or a stream that breaks.
Fail(i) ==
    /\ i \in running
    /\ Report(i, FALSE)

\* Time passes while requests run; no worker that may begin waits for it.
Tick ==
    /\ running # {} /\ (free = 0 \/ queue = <<>>)
    /\ clock < MaxTime
    /\ clock' = clock + 1
    /\ UNCHANGED <<queue, free, running, began, frameVars, total, ok, results>>

Next ==
    \/ \E i \in Workers : Begin(i) \/ TokenFrame(i) \/ FinalFrame(i) \/ Done(i) \/ Fail(i)
    \/ Tick

\* The router ends every request (Router's EveryRequestEnds).
Spec ==
    /\ Init /\ [][Next]_vars
    /\ \A i \in Workers : WF_vars(Begin(i)) /\ WF_vars(Done(i) \/ Fail(i))

-------------------------------------------------------------------------------
(***************************************************************************)
(* Summary.report and _pct, in exact arithmetic: a percentile comes in     *)
(* hundredths of the unit of the values.                                   *)
(***************************************************************************)
Succeeded == {results[n] : n \in {m \in DOMAIN results : ok[results[m]]}}

\* Those of S before worker i, and all of S, in ascending order of f.  Workers
\* with equal values, which sorted() leaves in their order, may come in any.
Before(f, S, i) == {j \in S : f[j] < f[i] \/ (f[j] = f[i] /\ j < i)}

InOrder(f, S) ==
    [k \in 1..Cardinality(S) |-> CHOOSE i \in S : Cardinality(Before(f, S, i)) = k - 1]

ValuesOf(f) == [k \in 1..Cardinality(Succeeded) |-> f[InOrder(f, Succeeded)[k]]]

Pct(sorted, pct) ==
    LET last == Len(sorted) - 1
        lo == (last * pct) \div 100
        hi == IF lo + 1 < last THEN lo + 1 ELSE last
    IN  100 * sorted[lo + 1]
            + (sorted[hi + 1] - sorted[lo + 1]) * ((last * pct) % 100)

\* The longest successful request; also what "wall_seconds" says.
Wall == IF Succeeded = {} THEN 0 ELSE ValuesOf(total)[Cardinality(Succeeded)]

Over == Len(results) = Requests

-------------------------------------------------------------------------------
(***************************************************************************)
(* Types, and the semaphore's books.                                       *)
(***************************************************************************)
TypeOK ==
    /\ clock \in 0..MaxTime
    /\ running \subseteq Workers
    /\ free \in 0..Concurrency /\ free + Cardinality(running) = Concurrency
    /\ {queue[n] : n \in DOMAIN queue} \cup {results[n] : n \in DOMAIN results} \cup running
            = Workers
    /\ Len(queue) + Len(results) + Cardinality(running) = Requests
    /\ \A i \in Workers : ttft[i] \in 0..clock /\ total[i] \in 0..clock
    /\ tokens \in [Workers -> 0..2 * MaxTokens]
    /\ ok \in [Workers -> BOOLEAN]

(***************************************************************************)
(* The reported percentiles are percentiles by rank, whatever order the    *)
(* results came in: about pct percent of the successful requests lie below *)
(* and the rest above; and p50 does not exceed p95.                        *)
(* (load_client.py:38-66.)                                                 *)
(***************************************************************************)
IsPercentile(x, f, pct) ==
    LET last == Cardinality(Succeeded) - 1
        below == {i \in Succeeded : 100 * f[i] < x}
        above == {i \in Succeeded : 100 * f[i] > x}
    IN  /\ 100 * Cardinality(below) <= last * pct + 100
        /\ 100 * Cardinality(above) < last * (100 - pct) + 100

PercentilesAreRanks ==
    Succeeded # {} =>
        \A f \in {total, ttft} :
            /\ \A pct \in {50, 95} : IsPercentile(Pct(ValuesOf(f), pct), f, pct)
            /\ Pct(ValuesOf(f), 50) <= Pct(ValuesOf(f), 95)

(***************************************************************************)
(* Failures do not starve the load: every worker gets its turn and every   *)
(* request its result.                                                     *)
(***************************************************************************)
EveryRequestReported == <>Over

(***************************************************************************)
(* "tokens/sec" (load_client.py:5) is all the tokens over the time it took *)
(* to get them, which "wall_seconds" names.  The code divides by the       *)
(* longest request instead.                                                *)
(***************************************************************************)
WallCoversRun == Over /\ (\A i \in Workers : ok[i]) => Wall >= clock
===============================================================================
