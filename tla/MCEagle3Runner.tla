--------------------------- MODULE MCEagle3Runner ----------------------------
(***************************************************************************)
(* A small instance of Eagle3Runner: the tokens are 0 to 3, of which 3     *)
(* stops.  One request ends at the model length, one at max_tokens, and    *)
(* one prompt fills the model length.                                      *)
(***************************************************************************)
EXTENDS Eagle3Runner, TLC

CONSTANTS r1, r2, r3

Prompts == r1 :> <<0, 1, 0>> @@ r2 :> <<1>> @@ r3 :> <<0, 0, 1, 1, 0, 0>>
Limits == r1 :> 5 @@ r2 :> 4 @@ r3 :> 2

\* Two tokens at most, which depend on the text's ends and its length.
FollowsSome(s, t) == t \in {(s[Len(s)] + Len(s)) % 4, (s[1] + Len(s)) % 4}
=============================================================================
