---------------------------- MODULE Eagle3Runner -----------------------------
(***************************************************************************)
(* Eagle3Runner of eagle3_runtime.py under vLLM's scheduler.  The runner   *)
(* keeps its own account of each request's tokens, feeds a prompt once all *)
(* of it is scheduled, and then settles several tokens a round; the cache  *)
(* holds the round's state between steps.  vLLM cuts what it gets at the   *)
(* first token that ends the request, and may preempt the request between  *)
(* any two rounds.                                                         *)
(***************************************************************************)
EXTENDS Integers, Sequences, FiniteSets

CONSTANTS
  Req, Tok, Prompt, MaxTokens, MaxModelLen, Stop, Follows(_, _),
  None,
  Accepts,          \* the most draft tokens a round accepts
  MaxSeqs,          \* max_num_seqs
  Chunk,            \* the most tokens of a request vLLM schedules at once
  MaxPreemptions    \* bound: preemptions in a behaviour

ASSUME TextAssumption ==
  /\ Prompt \in [Req -> Seq(Tok)] /\ \A r \in Req : Prompt[r] # <<>>
  /\ None \notin Tok
  /\ MaxModelLen \in Nat \ {0} /\ MaxTokens \in [Req -> Nat \ {0}]

ASSUME RunnerAssumption ==
  /\ Accepts \in Nat /\ MaxPreemptions \in Nat
  /\ MaxSeqs \in Nat \ {0} /\ Chunk \in Nat \ {0}

VARIABLES
  \* vLLM
  text,         \* all_token_ids of each request
  computed,     \* its num_computed_tokens
  status,       \* waiting, running, preempted or finished
  preemptions,
  \* SchedulerOutput
  finished,     \* finished_req_ids
  rows,         \* what is scheduled of each request of the step
  \* the runner
  requests,     \* Eagle3Runner.requests
  planning,     \* whether vLLM plans the next step, or the runner runs it
  sampled       \* sampled_token_ids of the rows that ran

vllm == <<text, computed, status, preemptions>>
output == <<finished, rows>>
runner == <<requests, planning, sampled>>
vars == <<vllm, output, runner>>

Promise == INSTANCE GeneratedText

Smaller(a, b) == IF a < b THEN a ELSE b

\* A dict without entries, and one with entry k set to v.
Empty == [k \in {} |-> 0]
With(f, k, v) == [i \in DOMAIN f \cup {k} |-> IF i = k THEN v ELSE f[i]]

Init ==
  /\ text = Prompt /\ computed = [r \in Req |-> 0]
  /\ status = [r \in Req |-> "waiting"] /\ preemptions = 0
  /\ finished = {} /\ rows = Empty
  /\ requests = Empty /\ planning = TRUE /\ sampled = Empty

-----------------------------------------------------------------------------
(* vLLM plans a step.                                                      *)

Running == {r \in Req : status[r] = "running"}

\* A row says whether the request is new or resumed, and where it stands.
Schedule(r, n) ==
  /\ planning /\ r \notin DOMAIN rows /\ status[r] # "finished"
  /\ r \in Running \/ Cardinality(Running) < MaxSeqs
  /\ n <= Len(text[r]) - computed[r]
  /\ rows' = With(rows, r, [was |-> status[r], computed |-> computed[r], n |-> n])
  /\ status' = [status EXCEPT ![r] = "running"]
  /\ computed' = [computed EXCEPT ![r] = @ + n]
  /\ UNCHANGED <<text, preemptions, finished, runner>>

\* The runner is not told before the request is resumed.
Preempt(r) ==
  /\ planning /\ r \in Running /\ r \notin DOMAIN rows
  /\ preemptions < MaxPreemptions
  /\ preemptions' = preemptions + 1
  /\ status' = [status EXCEPT ![r] = "preempted"]
  /\ computed' = [computed EXCEPT ![r] = 0]
  /\ UNCHANGED <<text, output, runner>>

\* A client goes away between two steps.
Abort(r) ==
  /\ planning /\ DOMAIN rows = {} /\ status[r] # "finished"
  /\ status' = [status EXCEPT ![r] = "finished"]
  /\ finished' = finished \cup {r}
  /\ UNCHANGED <<text, computed, preemptions, rows, runner>>

-----------------------------------------------------------------------------
(* Eagle3Runner.execute.  num_computed_tokens is left out: it is set from  *)
(* the row before each use.                                                *)

NewRequest(r) == [token_ids |-> Prompt[r], cache |-> None, exhausted |-> FALSE]

\* A preempted request starts over from the tokens vLLM kept.
ResumedRequest(r) == [token_ids |-> text[r], cache |-> None, exhausted |-> FALSE]

\* finished_req_ids, scheduled_new_reqs and scheduled_cached_reqs.
Begin ==
  /\ planning
  /\ DOMAIN rows # {} \/ finished # {}
  /\ requests' = [r \in (DOMAIN requests \ finished) \cup DOMAIN rows |->
       IF r \notin DOMAIN rows THEN requests[r]
       ELSE CASE rows[r].was = "waiting"   -> NewRequest(r)
              [] rows[r].was = "preempted" -> ResumedRequest(r)
              [] OTHER                     -> requests[r]]
  /\ planning' = FALSE
  /\ UNCHANGED <<vllm, output, sampled>>

\* _remaining_tokens
Remaining(r) ==
  LET tokens == requests[r].token_ids
  IN  Smaller(MaxTokens[r] - (Len(tokens) - Len(Prompt[r])), MaxModelLen - Len(tokens))

\* The tokens the model may choose after a text.
Choices(context) == {t \in Tok : Follows(context, t)}

\* eagle3_prefill: the cache is fed, and root, the token sampled after that, is not.
PrefillOutcomes(r) ==
  LET fed == requests[r].token_ids
  IN  {[tokens |-> <<root>>, cache |-> [fed |-> fed, root |-> root], exhausted |-> FALSE] :
         root \in Choices(fed)}

\* The draft tokens a round may accept after a text, at most n and none after a stop.
Accepted(context, n) ==
  {a \in UNION {[1 .. k -> Tok] : k \in 0 .. n} :
     \A i \in 1 .. Len(a) :
       /\ Follows(context \o SubSeq(a, 1, i - 1), a[i])
       /\ i < Len(a) => a[i] \notin Stop}

(***************************************************************************)
(* eagle3_decode_step: the root is fed and draft tokens are accepted; a    *)
(* round that reaches a stop token or its cap, which counts the root, has  *)
(* no next root.                                                           *)
(***************************************************************************)
DecodeSteps(r, cap) ==
  LET old     == requests[r].cache
      context == Append(old.fed, old.root)
      ends(a) == Len(a) + 1 >= cap \/ (a # <<>> /\ a[Len(a)] \in Stop)
      nexts(a) == IF ends(a) THEN {None} ELSE Choices(context \o a)
  IN  UNION {{[tokens |-> <<old.root>> \o a, next_token |-> next,
               cache |-> [fed |-> context \o a, root |-> next]] : next \in nexts(a)} :
               a \in Accepted(context, Smaller(Accepts, cap - 1))}

\* Mutant: the root, which the previous step returned, uses up a token of the cap.
CapWithoutRoot(r) == Remaining(r)

RoundCap(r) == Remaining(r) + 1

\* Mutant: the root is returned again.
SettledWithRoot(step) ==
  IF step.next_token = None THEN step.tokens ELSE Append(step.tokens, step.next_token)

\* Mutant: the next root is left for the next round to return.
SettledWithoutNext(step) == Tail(step.tokens)

Settled(step) ==
  IF step.next_token = None THEN Tail(step.tokens)
  ELSE Append(Tail(step.tokens), step.next_token)

RoundOutcomes(r) ==
  {[tokens |-> Settled(step), cache |-> step.cache, exhausted |-> step.next_token = None] :
     step \in DecodeSteps(r, RoundCap(r))}

\* _run; an exhausted request is an error.
Outcomes(r) ==
  IF requests[r].exhausted THEN {}
  ELSE IF requests[r].cache = None THEN PrefillOutcomes(r)
  ELSE RoundOutcomes(r)

\* Mutant: a row that ends at the last token has nothing to run.
ReadyPastLast(r) == rows[r].computed + rows[r].n > Len(requests[r].token_ids)

\* The row reaches the last token the runner knows of.
Ready(r) == rows[r].computed + rows[r].n >= Len(requests[r].token_ids)

RunRow(r) ==
  /\ ~planning /\ r \in DOMAIN rows \ DOMAIN sampled
  /\ IF ~Ready(r)
     THEN /\ sampled' = With(sampled, r, <<>>)
          /\ UNCHANGED requests
     ELSE \E o \in Outcomes(r) :
            /\ sampled' = With(sampled, r, o.tokens)
            /\ requests' = [requests EXCEPT ![r] =
                 [token_ids |-> @.token_ids \o o.tokens, cache |-> o.cache,
                  exhausted |-> o.exhausted]]
  /\ UNCHANGED <<vllm, output, planning>>

-----------------------------------------------------------------------------
(* update_from_output: vLLM appends what was sampled up to the first token *)
(* that ends the request.                                                  *)

Appended(r, tokens) ==
  LET texts == {text[r] \o SubSeq(tokens, 1, i) : i \in 0 .. Len(tokens)}
      ended == {t \in texts : Promise!Ended(r, t)}
      kept  == IF ended = {} THEN {text[r] \o tokens} ELSE ended
  IN  CHOOSE t \in kept : \A u \in kept : Len(t) <= Len(u)

UpdateFromOutput ==
  /\ ~planning /\ DOMAIN rows \subseteq DOMAIN sampled
  /\ text' = [r \in Req |-> IF r \in DOMAIN rows THEN Appended(r, sampled[r]) ELSE text[r]]
  /\ finished' = {r \in DOMAIN rows : Promise!Ended(r, text'[r])}
  /\ status' = [r \in Req |-> IF r \in finished' THEN "finished" ELSE status[r]]
  /\ planning' = TRUE /\ rows' = Empty /\ sampled' = Empty
  /\ UNCHANGED <<computed, preemptions, requests>>

-----------------------------------------------------------------------------
AllForgotten ==
  /\ planning /\ finished = {} /\ \A r \in Req : status[r] = "finished"
  /\ UNCHANGED vars

Engine ==
  \/ \E r \in Req, n \in 1 .. Chunk : Schedule(r, n)
  \/ Begin
  \/ \E r \in Req : RunRow(r)
  \/ UpdateFromOutput

Next ==
  \/ Engine
  \/ \E r \in Req : Preempt(r) \/ Abort(r)
  \/ AllForgotten

Spec == Init /\ [][Next]_vars
FairSpec == Spec /\ WF_vars(Engine)

-----------------------------------------------------------------------------
(***************************************************************************)
(* Between steps the runner and vLLM agree on every unfinished request:    *)
(* the runner has the request's text, and the cache has been fed all of it *)
(* but the root, whatever was cut, split over steps or preempted.          *)
(***************************************************************************)
RunnerFollowsText ==
  planning => \A r \in DOMAIN requests :
    status[r] # "finished" =>
      /\ requests[r].token_ids = text[r]
      /\ requests[r].cache # None =>
           text[r] = Append(requests[r].cache.fed, requests[r].cache.root)

\* A round ends for good only where vLLM ends the request too, so that no exhausted
\* request is scheduled again (eagle3_runtime.py raises if one is).
ExhaustedIsFinished ==
  planning => \A r \in DOMAIN requests :
    requests[r].exhausted => status[r] = "finished"

\* Rounds of many tokens give what one token at a time would; see GeneratedText.
TextAsGenerated == Promise!Spec

\* Every request ends and is forgotten by the runner.
EveryRequestEnds ==
  \A r \in Req : <>[](status[r] = "finished" /\ r \notin DOMAIN requests)
=============================================================================
