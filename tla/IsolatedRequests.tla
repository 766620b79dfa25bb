-------------------------- MODULE IsolatedRequests --------------------------
(***************************************************************************)
(* What MbltWorker promises: each request is answered as if it were alone. *)
(* The model is only ever run on a request's own tokens, in order and from *)
(* the first, and a token is only generated when it was run on all of      *)
(* them, the prompt and what was generated so far.  There are no caches.   *)
(***************************************************************************)
EXTENDS Sequences, Naturals

CONSTANTS Req, Prompt, Tok, MaxOut

VARIABLES
  out,      \* the tokens generated for each request
  ran       \* the tokens the model was run on for it in this step

vars == <<out, ran>>

Known(r) == Prompt[r] \o out[r]

Prefixes(r) == {SubSeq(Known(r), 1, n) : n \in 1 .. Len(Known(r))}

Nothing == [r \in Req |-> <<>>]

Init == out = Nothing /\ ran = Nothing

\* The model is run for some requests, each on a prefix of its tokens.
Run ==
  /\ ran' \in [Req -> {<<>>} \cup UNION {Prefixes(r) : r \in Req}]
  /\ \A r \in Req : ran'[r] \in {ran[r]} \cup Prefixes(r)
  /\ UNCHANGED out

\* The step ends; the requests of R, run on all their tokens, get one more.
Generate(R) ==
  /\ \A r \in R : ran[r] = Known(r) /\ Len(out[r]) < MaxOut
  /\ \E token \in [R -> Tok] :
       out' = [r \in Req |-> IF r \in R THEN Append(out[r], token[r]) ELSE out[r]]
  /\ ran' = Nothing

Next == Run \/ \E R \in SUBSET Req : Generate(R)

Spec == Init /\ [][Next]_vars
=============================================================================
