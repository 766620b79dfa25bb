----------------------------- MODULE StepForward -----------------------------
(***************************************************************************)
(* The forward half of MbltWorker._execute_scheduled_step, one infer at a  *)
(* time: the normal rows of a batch run in pieces of at most TokenCap      *)
(* tokens, the rows that need prompt logprobs from a last-token artifact   *)
(* one token at a time, and each row's logits become prompt logprobs and   *)
(* the distribution of its next token.  A row that should have returned    *)
(* its logits and did not has its prompt replayed.                         *)
(*                                                                         *)
(* MbltWorker takes a forward in one step; here the caches are simply each *)
(* request's own.  A token is <<r, i>>, and the logits after a token are   *)
(* the tokens in the cache they were computed from.                        *)
(***************************************************************************)
EXTENDS Integers, Sequences

CONSTANTS
  Req, PromptLen, Wants, None,
  Batches,      \* whether the compiled model serves a batch: the values to look at
  Modes,        \* what a call of _runtime_output_logits_mode may make of the artifact
  TokenCap,     \* long_prefill_token_threshold
  Chunk,        \* the most tokens the scheduler asks of a request at once
  MaxOut        \* a request stops after this many tokens

ASSUME RequestAssumption ==
  /\ PromptLen \in [Req -> Nat \ {0}] /\ Wants \subseteq Req

ASSUME ForwardAssumption ==
  /\ Batches \subseteq BOOLEAN /\ TokenCap \in Nat \ {0} /\ Chunk \in Nat \ {0} /\ MaxOut \in Nat
  /\ Modes \subseteq {"full_sequence", "last_token", "unknown"}

Texts == Seq(Req \X Nat)

Row == [micro : BOOLEAN, start : Nat, at : Nat, end : Nat, kept : Seq(Texts), last : Texts,
        bare : BOOLEAN]

ASSUME NoneAssumption == None \notin Row /\ None \notin Seq(Texts \cup {None})

VARIABLES
  batch,    \* the model serves a batch
  num,      \* num_computed_tokens
  pos,      \* next_prompt_logprob_pos
  table,    \* in_progress_prompt_logprobs: None, or what each position has
  cache,    \* the tokens whose KV the request's cache holds
  out,      \* the number of output tokens
  given,    \* the prompt logprobs returned
  queue,    \* the rows of the step, in order, that are not collected yet
  row,      \* for each row of the step, what is known of it
  ready     \* the prompt logprobs the step will return

vars == <<batch, num, pos, table, cache, out, given, queue, row, ready>>

\* A prompt of one token has nothing to echo.
Promise == INSTANCE EchoedPrompts
             WITH given <- [r \in Req |-> IF PromptLen[r] = 1 THEN None ELSE given[r]]

Token(r, i) == <<r, i>>

Known(r) == PromptLen[r] + out[r]

Smaller(a, b) == IF a < b THEN a ELSE b
Larger(a, b) == IF a < b THEN b ELSE a

InStep == {r \in Req : row[r] # None}

NoRows == [r \in Req |-> None]

Init ==
  /\ batch \in Batches
  /\ num = [r \in Req |-> 0] /\ pos = [r \in Req |-> 1]
  /\ table = NoRows /\ given = NoRows /\ row = NoRows /\ ready = NoRows
  /\ cache = [r \in Req |-> <<>>] /\ out = [r \in Req |-> 0]
  /\ queue = <<>>

-----------------------------------------------------------------------------
(* The scheduler and the start of the step.                                *)

\* Mutant: position 1 counts as given.
RecomputesUnlessGiven(r, n) ==
  r \in Wants /\ pos[r] < 1 /\ pos[r] < PromptLen[r] /\ n > 0

\* _should_recompute_prompt_logprobs_from_start, with n tokens computed.
RecomputesFromStart(r, n) ==
  r \in Wants /\ pos[r] <= 1 /\ pos[r] < PromptLen[r] /\ n > 0

(***************************************************************************)
(* A request is scheduled from n tokens: it goes on where it is, a new one *)
(* starts after a prefix hit, or a preempted one again from further back.  *)
(***************************************************************************)
MayStartFrom(r, n) ==
  \/ n = num[r]
  \/ num[r] = 0 /\ cache[r] = <<>> /\ n < PromptLen[r]
  \/ n < num[r]

\* The prefix the row's cache holds: n tokens, of its own or a snapshot's, or less
\* of a snapshot if the request has not run yet.
Loaded(r, n) ==
  IF RecomputesFromStart(r, n) THEN {0}
  ELSE IF cache[r] # <<>> THEN {n} ELSE 0 .. n

\* _needs_last_logit_prompt_logprob_microsteps.  A static artifact may be taken for
\* another mode at another row length.
NeedsMicrosteps(r) == {mode # "full_sequence" /\ r \in Wants : mode \in Modes}

(***************************************************************************)
(* cache_size (at) moves from start to end; kept holds the logits of each  *)
(* token if they are read afterwards, last those of the last token.  A     *)
(* bare row has lost its kept logits to an infer without them.             *)
(***************************************************************************)
NewRow(micro, start, end) ==
  [micro |-> micro, start |-> start, at |-> start, end |-> end, kept |-> <<>>, last |-> <<>>,
   bare |-> FALSE]

ScheduleRow(r, n, micro, start, end) ==
  /\ \A q \in InStep : row[q].at = row[q].start
  /\ r \notin InStep /\ out[r] < MaxOut
  /\ micro \in NeedsMicrosteps(r)
  /\ MayStartFrom(r, n) /\ start \in Loaded(r, n)
  /\ end \in n + 1 .. Smaller(n + Chunk, Known(r))
  /\ queue' = Append(queue, r)
  /\ row' = [row EXCEPT ![r] = NewRow(micro, start, end)]
  /\ num' = [num EXCEPT ![r] = n]
  /\ cache' = [cache EXCEPT ![r] = [i \in 1 .. start |-> Token(r, i)]]
  /\ UNCHANGED <<batch, pos, table, out, given, ready>>

-----------------------------------------------------------------------------
(* Infers.                                                                 *)

\* _forward_rows for one row: n tokens from at tokens of the cache.
Fed(r, n) ==
  LET at == row[r].at
  IN  SubSeq(cache[r], 1, at) \o [i \in 1 .. n |-> Token(r, at + i)]

LogitsAfter(tokens, from) ==
  [i \in 1 .. Len(tokens) - from |-> SubSeq(tokens, 1, from + i)]

\* _forward_rows keeps every position's logits only from a full-sequence artifact.
KeepsAll == {mode = "full_sequence" : mode \in Modes}

\* One piece without its logits makes the row bare.
AfterPiece(r, n, all) ==
  LET keeps == all /\ ~row[r].bare /\ r \in Wants
  IN  [row[r] EXCEPT !.at = @ + n,
                     !.kept = IF keeps THEN @ \o LogitsAfter(Fed(r, n), row[r].at) ELSE <<>>,
                     !.last = Fed(r, n),
                     !.bare = r \in Wants /\ ~keeps]

\* Mutant: the logits of the token before the last position are dropped.
MicrostepRowsShort(r) ==
  LET end == Smaller(row[r].end, PromptLen[r]) - 1
  IN  [row[r] EXCEPT !.at = @ + 1,
                     !.kept = IF row[r].at + 1 < end THEN Append(@, Fed(r, 1)) ELSE @,
                     !.last = Fed(r, 1)]

\* Only logits that predict a prompt token are kept.
AfterMicrostep(r) ==
  LET end == Smaller(row[r].end + 1, PromptLen[r])
  IN  [row[r] EXCEPT !.at = @ + 1,
                     !.kept = IF row[r].at + 1 < end THEN Append(@, Fed(r, 1)) ELSE @,
                     !.last = Fed(r, 1)]

\* The rows the code works on: all of a batch, or the next one.
Current == IF batch THEN {queue[i] : i \in 1 .. Len(queue)}
           ELSE IF queue = <<>> THEN {} ELSE {Head(queue)}

Unfinished(r) == row[r].at < row[r].end

PieceLength(r) ==
  LET left == row[r].end - row[r].at IN IF batch THEN Smaller(left, TokenCap) ELSE left

\* _infer_normal_logits_batch_chunked: one infer over the rows that are not done.
NormalPiece(all) ==
  LET R == {r \in Current : ~row[r].micro /\ Unfinished(r)}
  IN  /\ R # {}
      /\ row' = [r \in Req |-> IF r \in R THEN AfterPiece(r, PieceLength(r), all) ELSE row[r]]
      /\ cache' = [r \in Req |-> IF r \in R THEN Fed(r, PieceLength(r)) ELSE cache[r]]
      /\ UNCHANGED <<batch, num, pos, table, out, given, queue, ready>>

\* _run_prompt_logprob_microsteps_batch and _single, after the normal rows.
Microstep ==
  LET R == {r \in Current : row[r].micro /\ Unfinished(r)}
  IN  /\ R # {}
      /\ \A r \in Current : Unfinished(r) => r \in R
      /\ row' = [r \in Req |-> IF r \in R THEN AfterMicrostep(r) ELSE row[r]]
      /\ cache' = [r \in Req |-> IF r \in R THEN Fed(r, 1) ELSE cache[r]]
      /\ UNCHANGED <<batch, num, pos, table, out, given, queue, ready>>

-----------------------------------------------------------------------------
(* Prompt logprobs.                                                        *)

\* The positions this row is the first to have logits for: First .. End - 1.
FirstPos(r) == Larger(Larger(1, row[r].start + 1), pos[r])

EndPos(r) == Smaller(row[r].end + 1, PromptLen[r])

\* Position i > 0 is predicted by the logits of token i - 1, counted from 0.
CoversRows(r) == EndPos(r) - row[r].start - 1 <= Len(row[r].kept)

PositionLogits(r, i) == row[r].kept[i - row[r].start]

(***************************************************************************)
(* _compute_prompt_logprobs_sequence_logits_fallback: a bare row feeds the *)
(* prompt again, from an empty cache and one token at a time, and takes    *)
(* the logits its infers should have returned.  The slot still holds what  *)
(* the row had computed behind the prompt.  A non-batch row then runs once *)
(* more, from its first token to its scheduled end.                        *)
(***************************************************************************)
NeedsReplay(r) ==
  /\ row[r].bare /\ pos[r] < PromptLen[r] /\ FirstPos(r) < EndPos(r)

Tokens(r, n) == [i \in 1 .. n |-> Token(r, i)]

ReplayedLogits(r) == LogitsAfter(Tokens(r, EndPos(r) - 1), row[r].start)

\* Mutant: the cache is left as long as the replay made it.
LeftAsReplayed(r) == Tokens(r, EndPos(r) - 1)

\* _restore_own_prefix_length
OwnPrefixRestored(r) ==
  Tokens(r, EndPos(r) - 1) \o SubSeq(cache[r], EndPos(r), Len(cache[r]))

Replay ==
  LET R == {r \in Current : NeedsReplay(r)}
      rerun(r) == Tokens(r, row[r].end)
  IN  /\ R # {} /\ \A r \in Current : ~Unfinished(r)
      /\ row' = [r \in Req |->
                   IF r \notin R THEN row[r]
                   ELSE [row[r] EXCEPT !.kept = ReplayedLogits(r), !.bare = FALSE,
                                       !.last = IF batch THEN @ ELSE rerun(r)]]
      /\ cache' = [r \in Req |-> IF r \notin R THEN cache[r]
                                 ELSE IF batch THEN OwnPrefixRestored(r) ELSE rerun(r)]
      /\ UNCHANGED <<batch, num, pos, table, out, given, queue, ready>>

(***************************************************************************)
(* _get_prompt_logprobs_tensors and _accumulate_prompt_logprobs_tensors:   *)
(* the new pos and table.  If the logits do not cover the positions, pos   *)
(* gives the rest up.                                                      *)
(***************************************************************************)
EmptyTable(r) == [i \in 1 .. PromptLen[r] - 1 |-> None]

Accumulated(r) ==
  LET new == FirstPos(r) .. EndPos(r) - 1
      old == IF table[r] = None THEN EmptyTable(r) ELSE table[r]
  IN  IF r \notin Wants \/ row[r].bare THEN [pos |-> pos[r], table |-> table[r]]
      ELSE IF PromptLen[r] <= 1 THEN [pos |-> PromptLen[r], table |-> old]
      ELSE IF new = {} THEN [pos |-> pos[r], table |-> table[r]]
      ELSE IF ~CoversRows(r) THEN [pos |-> PromptLen[r], table |-> table[r]]
      ELSE [pos |-> EndPos(r),
            table |-> [i \in DOMAIN old |->
                         IF i \in new THEN PositionLogits(r, i) ELSE old[i]]]

\* _should_sample_after_step
Samples(r) == row[r].end >= PromptLen[r]

\* _pop_completed_prompt_logprobs_tensors_for_scheduler
Completed(r, p) == Samples(r) /\ r \in Wants /\ p >= PromptLen[r]

\* The rows ran: their prompt logprobs are collected, and the next row of a
\* non-batch model starts.
Collect ==
  /\ Current # {} /\ \A r \in Current : ~Unfinished(r) /\ ~NeedsReplay(r)
  /\ LET after(r) == Accumulated(r)
         popped   == {r \in Current : Completed(r, after(r).pos)}
     IN  /\ pos' = [r \in Req |-> IF r \in Current THEN after(r).pos ELSE pos[r]]
         /\ table' = [r \in Req |-> IF r \in popped THEN None
                                    ELSE IF r \in Current THEN after(r).table ELSE table[r]]
         /\ ready' = [r \in Req |-> IF r \in popped THEN after(r).table ELSE ready[r]]
         /\ num' = [r \in Req |-> IF r \in Current THEN row[r].end ELSE num[r]]
  /\ queue' = IF batch THEN <<>> ELSE Tail(queue)
  /\ UNCHANGED <<batch, cache, out, given, row>>

\* The sampled tokens and prompt_logprobs_dict go back to vLLM.
Return ==
  /\ InStep # {} /\ queue = <<>>
  /\ out' = [r \in Req |-> IF r \in InStep /\ Samples(r) THEN out[r] + 1 ELSE out[r]]
  /\ given' = [r \in Req |-> IF ready[r] # None THEN ready[r] ELSE given[r]]
  /\ ready' = NoRows /\ row' = NoRows
  /\ UNCHANGED <<batch, num, pos, table, cache, queue>>

-----------------------------------------------------------------------------
AllAnswered == (\A r \in Req : out[r] = MaxOut) /\ InStep = {} /\ UNCHANGED vars

Next ==
  \/ \E r \in Req : \E n \in 0 .. Known(r) - 1 : \E start \in 0 .. n :
        \E end \in n + 1 .. Known(r), micro \in BOOLEAN : ScheduleRow(r, n, micro, start, end)
  \/ \E all \in KeepsAll : NormalPiece(all)
  \/ Microstep \/ Replay \/ Collect \/ Return
  \/ AllAnswered

Spec == Init /\ [][Next]_vars

-----------------------------------------------------------------------------
(***************************************************************************)
(* However a row is cut into infers, its cache advances over its own       *)
(* tokens, and once it ran, the logits its next token is sampled from are  *)
(* those of all tokens up to its scheduled end.                            *)
(***************************************************************************)
RowsRunWhole ==
  /\ \A r \in Req : cache[r] = Tokens(r, Len(cache[r]))
  /\ \A r \in InStep :
        /\ Len(cache[r]) = row[r].at
        /\ row[r].at = row[r].end => row[r].last = Tokens(r, row[r].end)

(***************************************************************************)
(* The positions below next_prompt_logprob_pos, and only they, have their  *)
(* logprobs, each from exactly the tokens before it, over chunks, prefix   *)
(* hits, rewinds, microsteps and replays.                                   *)
(***************************************************************************)
TableFollowsPosition ==
  \A r \in Wants :
    IF table[r] = None THEN pos[r] \in {1, PromptLen[r]}
    ELSE \A i \in DOMAIN table[r] :
           table[r][i] = IF i < pos[r] THEN Tokens(r, i) ELSE None

\* The prompt's logprobs come with the first token and never change; see
\* EchoedPrompts.
EchoesPrompts == Promise!Spec
=============================================================================
