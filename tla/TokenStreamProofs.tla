--------------------------- MODULE TokenStreamProofs ---------------------------
(***************************************************************************)
(* What the contract of a decode node amounts to, for any set of requests  *)
(* and any limits.                                                         *)
(***************************************************************************)
EXTENDS TokenStream, TLAPS

(***************************************************************************)
(* A run of tokens and the next one are a run of tokens.                   *)
(***************************************************************************)
LEMMA TokensExtend ==
    ASSUME NEW n \in Nat
    PROVE  /\ Len(Tokens(n)) = n
           /\ Append(Tokens(n), TokenChunk(n)) = Tokens(n + 1)
BY DEF Tokens, TokenChunk

(***************************************************************************)
(* Every stream is a run of tokens 0, 1, 2... of which none is missing,    *)
(* repeated or out of order, closed by exactly one final chunk, as the     *)
(* docstring of DecodeScheduler.submit promises (batching.py:94-98).       *)
(***************************************************************************)
THEOREM StreamsAreWellFormed ==
    ASSUME Limit \in [Reqs -> Nat \ {0}]
    PROVE  Safety => []WellFormed
<1> DEFINE Typed == phase \in [Reqs -> {"new", "open", "closed"}] /\ DOMAIN stream = Reqs
           Shape(r) ==
             \/ phase[r] = "new" /\ stream[r] = <<>>
             \/ phase[r] = "open" /\ \E n \in 0..(Limit[r] - 1) : stream[r] = Tokens(n)
             \/ /\ phase[r] = "closed"
                /\ \/ stream[r] = Append(Tokens(Limit[r]), FinalChunk(Limit[r], "length"))
                   \/ stream[r] = <<FinalChunk(0, "oom")>>
           Inv == Typed /\ \A r \in Reqs : Shape(r)
<1>1. Init => Inv
  BY DEF Init
<1>2. ASSUME Inv, [Next]_vars
      PROVE  Inv'
  <2>1. CASE UNCHANGED vars
    BY <1>2, <2>1 DEF vars
  <2>2. CASE Shutdown
    BY <1>2, <2>2 DEF Shutdown
  <2>3. ASSUME NEW r \in Reqs, Open(r)
        PROVE  Inv'
    <3>1. Typed'
      BY <1>2, <2>3 DEF Open
    <3>2. Tokens(0) = <<>>
      BY DEF Tokens
    <3>3. stream'[r] = Tokens(0) /\ phase'[r] = "open" /\ 0 \in 0..(Limit[r] - 1)
      BY <1>2, <2>3, <3>2 DEF Open
    <3>4. Shape(r)'
      BY <3>3
    <3>5. \A s \in Reqs \ {r} : Shape(s)'
      BY <1>2, <2>3 DEF Open
    <3> QED
      BY <3>1, <3>4, <3>5
  <2>4. ASSUME NEW r \in Reqs, Deliver(r)
        PROVE  Inv'
    <3>1. PICK n \in 0..(Limit[r] - 1) : stream[r] = Tokens(n)
      BY <1>2, <2>4 DEF Deliver
    <3>2. Len(stream[r]) = n /\ Append(stream[r], TokenChunk(n)) = Tokens(n + 1)
      BY <3>1, TokensExtend
    <3>3. Typed'
      BY <1>2, <2>4 DEF Deliver
    <3>4. Shape(r)'
      <4>1. CASE n + 1 < Limit[r]
        <5>1. phase'[r] = "open" /\ stream'[r] = Tokens(n + 1)
          BY <1>2, <2>4, <3>2, <4>1 DEF Deliver
        <5>2. n + 1 \in 0..(Limit[r] - 1)
          BY <3>1, <4>1
        <5> QED
          BY <5>1, <5>2
      <4>2. CASE ~(n + 1 < Limit[r])
        <5>1. n + 1 = Limit[r]
          BY <3>1, <4>2
        <5>2. /\ phase'[r] = "closed"
              /\ stream'[r] = Append(Tokens(n + 1), FinalChunk(n + 1, "length"))
          BY <1>2, <2>4, <3>2, <4>2 DEF Deliver
        <5> QED
          BY <5>1, <5>2
      <4> QED
        BY <4>1, <4>2
    <3>5. \A s \in Reqs \ {r} : Shape(s)'
      BY <1>2, <2>4 DEF Deliver
    <3> QED
      BY <3>3, <3>4, <3>5
  <2>5. ASSUME NEW r \in Reqs, Refuse(r)
        PROVE  Inv'
    <3>1. Typed'
      BY <1>2, <2>5 DEF Refuse
    <3>2. phase'[r] = "closed" /\ stream'[r] = <<FinalChunk(0, "oom")>>
      BY <1>2, <2>5 DEF Refuse
    <3>3. \A s \in Reqs \ {r} : Shape(s)'
      BY <1>2, <2>5 DEF Refuse
    <3> QED
      BY <3>1, <3>2, <3>3
  <2> QED
    BY <1>2, <2>1, <2>2, <2>3, <2>4, <2>5 DEF Next
<1>3. Inv => WellFormed
  BY DEF WellFormed
<1> QED
  BY <1>1, <1>2, <1>3, PTL DEF Safety
===============================================================================
