---------------------------- MODULE MCStepForward ----------------------------
(***************************************************************************)
(* Small instances of StepForward: a prompt of several chunks and one of a *)
(* single token that want their logprobs, and one that does not.           *)
(***************************************************************************)
EXTENDS StepForward, TLC

CONSTANTS r1, r2, r3

Lengths == r1 :> 4 @@ r2 :> 1 @@ r3 :> 1
=============================================================================
