---------------------------- MODULE GeneratedText ----------------------------
(***************************************************************************)
(* What a request is promised: its text grows only by tokens the model may *)
(* choose after all the tokens before, and not at all once a stop token or *)
(* a limit ended it.  However many tokens a step adds, they are what one   *)
(* token at a time would have given.                                       *)
(***************************************************************************)
EXTENDS Integers, Sequences

CONSTANTS
  Req,
  Prompt,         \* each request's prompt
  MaxTokens,      \* each request's max_tokens
  MaxModelLen,
  Stop,           \* the tokens that end a text
  Follows(_, _)   \* whether the model may choose a token after a text

VARIABLE text

Init == text = Prompt

\* vLLM's check_stop.
Ended(r, s) ==
  /\ Len(s) > Len(Prompt[r])
  /\ \/ s[Len(s)] \in Stop
     \/ Len(s) >= MaxModelLen
     \/ Len(s) - Len(Prompt[r]) >= MaxTokens[r]

MayBecome(r, s, t) ==
  /\ Len(s) <= Len(t) /\ SubSeq(t, 1, Len(s)) = s
  /\ \A i \in Len(s) + 1 .. Len(t) :
       LET before == SubSeq(t, 1, i - 1)
       IN  ~Ended(r, before) /\ Follows(before, t[i])

Next == \A r \in Req : MayBecome(r, text[r], text'[r])

Spec == Init /\ [][Next]_text
=============================================================================
