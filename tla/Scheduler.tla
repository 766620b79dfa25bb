------------------------------ MODULE Scheduler ------------------------------
(***************************************************************************)
(* vLLM's scheduler, as far as the worker sees it (external): which        *)
(* requests a step runs, from which token, for how many, on which blocks.  *)
(*                                                                         *)
(* d is a record                                                           *)
(*   status   waiting (not yet scheduled), running, preempted, finished    *)
(*            (the worker is not told yet) or done                         *)
(*   running, preempted   its queues, in order                             *)
(*   out      the tokens the worker returned for each request              *)
(*   num      num_computed_tokens                                          *)
(*   table    the blocks of each request                                   *)
(*   free     the free block queue: a block keeps its hash until reused    *)
(*   key      each block's hash, which is the prefix it ends               *)
(* p is the step it plans: order, the requests in the order they were      *)
(* scheduled; plan, for each its num_computed_tokens, number of tokens,    *)
(* new block ids and kind (new, running, resumed); next, the running       *)
(* request to look at; budget, the tokens left; stalled, true once a       *)
(* request was preempted.                                                  *)
(***************************************************************************)
EXTENDS RuntimeCache, SequencesExt

CONSTANTS
  Prompt,       \* each request's prompt, a sequence of embeddings
  MaxOut,       \* a request stops after this many tokens
  MaxSeqs,      \* max_num_seqs
  Chunk,        \* the most tokens a request computes in one step
  TokenBudget   \* max_num_batched_tokens

ASSUME BlockAssumption == Block \subseteq Nat /\ IsFiniteSet(Block) /\ IsFiniteSet(Req)

Embeddings == UNION {Entries(Prompt[r]) : r \in Req}

ASSUME PromptAssumption ==
  \A r \in Req : Prompt[r] \in Seq(Embeddings) /\ Prompt[r] # <<>>

ASSUME BoundsAssumption ==
  {MaxOut, MaxSeqs, Chunk, TokenBudget} \subseteq Nat \ {0}

AllBlocks ==
  [i \in 1 .. Cardinality(Block) |->
     CHOOSE b \in Block : Cardinality({c \in Block : c < b}) = i - 1]

Idle ==
  [status |-> [r \in Req |-> "waiting"], running |-> <<>>, preempted |-> <<>>,
   out |-> [r \in Req |-> <<>>], num |-> [r \in Req |-> 0],
   table |-> [r \in Req |-> <<>>],
   free |-> AllBlocks, key |-> [b \in Block |-> None]]

NoPlan ==
  [order |-> <<>>, plan |-> [r \in Req |-> None], next |-> 1, budget |-> TokenBudget,
   stalled |-> FALSE]

Known(d, r) == Prompt[r] \o d.out[r]

(***************************************************************************)
(* What is left of s without the entries in S, and with nothing else.  The *)
(* entries to drop are a set, and not an operator as in SelectSeq, so that *)
(* lemmas can be stated about them.                                        *)
(***************************************************************************)
Without(s, S) ==
  LET kept[n \in 0 .. Len(s)] ==
        IF n = 0 THEN <<>>
        ELSE IF s[n] \in S THEN kept[n - 1] ELSE Append(kept[n - 1], s[n])
  IN  kept[Len(s)]

Within(s, S) == Without(s, Entries(s) \ S)

Planned(num, n, blocks, kind) == [num |-> num, n |-> n, blocks |-> blocks, kind |-> kind]

Plans ==
  [num : Nat, n : Nat \ {0}, blocks : Seq(Block), kind : {"new", "running", "resumed"}]

-----------------------------------------------------------------------------
(* Blocks.                                                                 *)

\* The longest cached prefix that leaves a token to compute.
HitBlocks(d, r) ==
  LET cached(i) == \E b \in Block : d.key[b] = SubSeq(Known(d, r), 1, i * BlockSize)
      hits == MaxOf({n \in 0 .. (Len(Known(d, r)) - 1) \div BlockSize :
                       \A i \in 1 .. n : cached(i)})
  IN  IF ~EnablePrefixCaching THEN <<>>
      ELSE [i \in 1 .. hits |->
              CHOOSE b \in Block : d.key[b] = SubSeq(Known(d, r), 1, i * BlockSize)]

NewBlocks(d, r, tokens, held) ==
  SubSeq(Without(d.free, Entries(held)), 1, RequiredBlocks(tokens) - Len(held))

CanAllocate(d, r, tokens, held) ==
  RequiredBlocks(tokens) - Len(held) <= Len(Without(d.free, Entries(held)))

\* Blocks that fill up are hashed at once, before the worker computed them.
Allocate(d, r, tokens, held) ==
  LET fresh == NewBlocks(d, r, tokens, held)
      table == held \o fresh
      full  == {i \in 1 .. tokens \div BlockSize : EnablePrefixCaching}
  IN  [d EXCEPT !.table[r] = table,
                !.free = Without(@, Entries(table)),
                !.key = [b \in Block |->
                           IF \E i \in full : table[i] = b
                           THEN SubSeq(Known(d, r), 1, BlockSize *
                                         CHOOSE i \in full : table[i] = b)
                           ELSE IF b \in Entries(fresh) THEN None ELSE @[b]]]

FreeBlocks(d, r) ==
  LET shared == UNION {Entries(d.table[o]) : o \in Req \ {r}}
  IN  [d EXCEPT !.free = @ \o Reverse(Without(d.table[r], shared)),
                !.table[r] = <<>>]

-----------------------------------------------------------------------------
(* Planning a step: running requests first, then preempted and waiting.    *)

Share(d, p, r, num) == Least(Least(Len(Known(d, r)) - num, Chunk), p.budget)

ScheduledAs(p, r, num, n, blocks, kind) ==
  [p EXCEPT !.order = Append(@, r), !.plan[r] = Planned(num, n, blocks, kind),
            !.budget = @ - n]

AllRunningPlanned(d, p) == p.next > Len(d.running) \/ p.budget = 0

RunningFits(d, p) ==
  LET r == d.running[p.next] IN CanAllocate(d, r, d.num[r] + Share(d, p, r, d.num[r]), d.table[r])

CanResume(d, p) ==
  /\ AllRunningPlanned(d, p) /\ ~p.stalled /\ p.budget > 0 /\ Len(d.running) < MaxSeqs

WaitingFits(d, p, r) ==
  LET hit == HitBlocks(d, r)
      num == Len(hit) * BlockSize
  IN  CanAllocate(d, r, num + Share(d, p, r, num), hit)

\* Both results: the scheduler and its plan.
PlanRunning(d, p) ==
  LET r      == d.running[p.next]
      n      == Share(d, p, r, d.num[r])
      blocks == NewBlocks(d, r, d.num[r] + n, d.table[r])
  IN  [d |-> [Allocate(d, r, d.num[r] + n, d.table[r]) EXCEPT !.num[r] = @ + n],
       p |-> [ScheduledAs(p, r, d.num[r], n, blocks, "running") EXCEPT !.next = @ + 1]]

PlanPreemption(d, p) ==
  LET r == Last(d.running)
  IN  [d |-> [FreeBlocks(d, r) EXCEPT !.status[r] = "preempted", !.num[r] = 0,
                                      !.running = Front(@), !.preempted = <<r>> \o @],
       p |-> [p EXCEPT !.stalled = TRUE]]

PlanWaiting(d, p, r) ==
  LET hit  == HitBlocks(d, r)
      num  == Len(hit) * BlockSize
      n    == Share(d, p, r, num)
      with == Allocate(d, r, num + n, hit)
      kind == IF d.status[r] = "preempted" THEN "resumed" ELSE "new"
  IN  [d |-> [with EXCEPT !.status[r] = "running", !.num[r] = num + n,
                          !.running = Append(@, r),
                          !.preempted = Without(@, {r})],
       p |-> [ScheduledAs(p, r, num, n, with.table[r], kind) EXCEPT !.next = @ + 1]]

\* A request that stops or is aborted.
FinishRequest(d, r) ==
  [FreeBlocks(d, r) EXCEPT !.status[r] = "finished",
                           !.running = Without(@, {r}),
                           !.preempted = Without(@, {r})]

Reported(d) == {r \in Req : d.status[r] = "finished"}

\* update_from_output for one request.
ReturnTokens(d, r, token) ==
  LET got == [d EXCEPT !.out[r] = Append(@, token)]
  IN  IF Len(got.out[r]) >= MaxOut THEN FinishRequest(got, r) ELSE got

\* update_from_output, for the requests of the step that got a token.
ReturnAll(d, order, token) ==
  LET after[n \in 0 .. Len(order)] ==
        IF n = 0 THEN d
        ELSE IF order[n] \in DOMAIN token
        THEN ReturnTokens(after[n - 1], order[n], token[order[n]])
        ELSE after[n - 1]
  IN  after[Len(order)]
=============================================================================
