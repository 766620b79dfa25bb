---------------------------- MODULE MCMbltWorker ----------------------------
(***************************************************************************)
(* Small instances of MbltWorker.  The context of the compiled model is    *)
(* three blocks, of two or three tokens.                                   *)
(***************************************************************************)
EXTENDS MbltWorker

CONSTANTS r1, r2, r3, r4

\* Two turns of one conversation, a request that leaves it after a block, and
\* one that shares nothing.
TextPrompts ==
  r1 :> <<"a", "b", "c">> @@ r2 :> <<"a", "b", "c", "a">> @@ r3 :> <<"a", "b", "d">>
  @@ r4 :> <<"d", "a", "b">>

\* A question about one image, the same about another twice, and one without an
\* image; the few blocks are recycled between them.
ImagePrompts ==
  r1 :> <<"a", "x", "b", "a">> @@ r2 :> <<"a", "y", "b", "a">>
  @@ r3 :> <<"a", "y", "b", "b">> @@ r4 :> <<"b", "b", "a", "b">>

\* Short prompts with long answers.
LongAnswers ==
  r1 :> <<"a", "b">> @@ r2 :> <<"b", "b">> @@ r3 :> <<"b", "c">> @@ r4 :> <<"d">>

\* r1's answer completes the first block of r2's prompt.
SharedByAnswer ==
  r1 :> <<"a", "a">> @@ r2 :> <<"a", "a", "a", "a", "b", "b", "d">>
  @@ r3 :> <<"c", "d", "d", "c">> @@ r4 :> <<"c", "d", "c", "d", "c">>

OneSession == [r \in Req |-> 1]

\* Every load and every keep is worth it, or none is.
AllTokens == 1 .. 100
FreeCosts == {[load |-> l, keep |-> k] : l, k \in {{}, AllTokens}}

\* determine_available_memory: n blocks per request and one request more than
\* the batch, less vLLM's null block.
TwoBlocks == 1 .. (MaxSlots + 1) * 2 - 1
ThreeBlocks == 1 .. (MaxSlots + 1) * 3 - 1
FourBlocks == 1 .. (MaxSlots + 1) * 4 - 1
=============================================================================
