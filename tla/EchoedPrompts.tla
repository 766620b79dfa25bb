---------------------------- MODULE EchoedPrompts ----------------------------
(***************************************************************************)
(* What the worker promises a request that asks for prompt logprobs: the   *)
(* step that returns its first token also returns, for every position of   *)
(* the prompt after the first, the distribution computed from exactly the  *)
(* tokens before it, and no later step returns anything else.              *)
(***************************************************************************)
EXTENDS Integers

CONSTANTS
  Req,
  PromptLen,    \* each request's number of prompt tokens
  Wants,        \* the requests that ask for prompt logprobs
  None

VARIABLES
  out,      \* the number of tokens returned to each request
  given     \* its prompt logprobs once returned

vars == <<out, given>>

Init == out = [r \in Req |-> 0] /\ given = [r \in Req |-> None]

Token(r, i) == <<r, i>>

FirstTokens(r, n) == [i \in 1 .. n |-> Token(r, i)]

\* Position i, counted from 0, is predicted from the i tokens before it.  A prompt
\* of one token has nothing to echo.
Echo(r) ==
  IF PromptLen[r] = 1 THEN None ELSE [i \in 1 .. PromptLen[r] - 1 |-> FirstTokens(r, i)]

Return(R) ==
  /\ out' = [r \in Req |-> IF r \in R THEN out[r] + 1 ELSE out[r]]
  /\ given' = [r \in Req |-> IF r \in R \cap Wants THEN Echo(r) ELSE given[r]]

Next == \E R \in SUBSET Req : Return(R)

Spec == Init /\ [][Next]_vars
=============================================================================
