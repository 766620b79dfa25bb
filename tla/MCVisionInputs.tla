---------------------------- MODULE MCVisionInputs ----------------------------
(***************************************************************************)
(* A small instance: an image sent twice as two objects, another under the *)
(* same identifier, a video under it too, one without a grid, an image     *)
(* larger than the budget, one past the encoder's limit, an audio, and one *)
(* without data.                                                           *)
(***************************************************************************)
EXTENDS VisionInputs

CONSTANTS again, first, changed, movie, plain, large, wide, broken, audio, second, empty

Image(ident, content) ==
  [kind |-> "image", data |-> TRUE, ident |-> ident, content |-> content, grid |-> TRUE]

Features ==
  [f \in {first, again, changed, second, movie, plain, large, wide, broken, empty, audio} |->
     CASE f \in {first, again} -> Image("a", "x")
       [] f = changed -> Image("a", "y")
       [] f = second  -> Image("b", "z")
       [] f = movie   -> [Image("a", "x") EXCEPT !.kind = "video"]
       [] f = plain   -> [Image("a", "y") EXCEPT !.kind = "video", !.grid = FALSE]
       [] f = large   -> Image("c", "w")
       [] f = wide    -> Image("d", "v")
       [] f = broken  -> Image(None, "y")
       [] f = empty   -> [Image("b", "z") EXCEPT !.data = FALSE]
       [] f = audio   -> [Image("e", "y") EXCEPT !.kind = None]]

Pixels == [x |-> 2, y |-> 1, z |-> 1, w |-> 4, v |-> 2]
Sizes  == [x |-> 2, y |-> 1, z |-> 1, w |-> 5, v |-> 2]
Grids  == [x |-> 2, y |-> 2, z |-> 1, w |-> 3, v |-> 5]

\* The steps that bring up to three features.
UpToThree == UNION {[1 .. n -> Feature] : n \in 1 .. 3}
=============================================================================
