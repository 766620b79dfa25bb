----------------------------- MODULE MbltWorker -----------------------------
(***************************************************************************)
(* MbltWorker.execute_model, driven by vLLM's scheduler: requests arrive,  *)
(* are scheduled, run on their caches, sample tokens, are preempted,       *)
(* resumed, aborted and finished, and leave their KV to later requests.    *)
(*                                                                         *)
(* The engine is one thread: it plans a step (Scheduler), runs it in the   *)
(* worker, and returns the tokens sampled.  The step is one call of        *)
(* _execute_scheduled_step, split where it loops over requests:            *)
(*   FinalizeFinished  scheduler_output.finished_req_ids, in any order     *)
(*   AdmitNew          scheduled_new_reqs                                  *)
(*   ContinueCached    scheduled_cached_reqs                               *)
(*   StartRow          one request of num_scheduled_tokens                 *)
(*   Forward           the forward of all rows of a batch model; a         *)
(*                     non-batch model runs each row as it starts it       *)
(*   Sample            the sampler, and the tokens' return to the          *)
(*                     scheduler                                           *)
(***************************************************************************)
EXTENDS WorkerCaches

CONSTANTS
  Cap,          \* max_finished_snapshots
  Costs,        \* what the cost model may estimate during a call
  Abortable     \* the requests a client may abort

ASSUME StepAssumption ==
  /\ Cap \in Nat /\ Abortable \subseteq Req
  /\ (Batch => MaxSeqs <= MaxSlots)

VARIABLES
  sched,        \* the scheduler
  p,            \* the step it plans, or the worker runs
  step,         \* what the worker has left of the step
  w             \* the worker

vars == <<sched, p, step, w>>

(***************************************************************************)
(* step: the finished, new, cached requests and rows still to handle; for  *)
(* each row started the cache size it starts from and, once it ran, the    *)
(* tokens its last logits were computed from; and the requests the worker  *)
(* warned about because their cache falls short.                           *)
(***************************************************************************)
NoStep ==
  [running |-> FALSE, finished |-> {}, new |-> <<>>, cached |-> <<>>, rows |-> <<>>,
   start |-> [r \in Req |-> None], logits |-> [r \in Req |-> <<>>], warned |-> {}]

Init ==
  /\ sched = Idle
  /\ p = NoPlan
  /\ step = NoStep
  /\ \E offload \in HostOffloads : w = NewWorker(Cap, offload)

-----------------------------------------------------------------------------
(* The scheduler's half.                                                   *)

Planning == ~step.running

ScheduleRunning ==
  /\ Planning /\ ~AllRunningPlanned(sched, p) /\ RunningFits(sched, p)
  /\ LET next == PlanRunning(sched, p) IN sched' = next.d /\ p' = next.p
  /\ UNCHANGED <<step, w>>

PreemptLast ==
  /\ Planning /\ ~AllRunningPlanned(sched, p) /\ ~RunningFits(sched, p)
  /\ LET next == PlanPreemption(sched, p) IN sched' = next.d /\ p' = next.p
  /\ UNCHANGED <<step, w>>

ScheduleFromQueue(r) ==
  /\ Planning /\ CanResume(sched, p) /\ WaitingFits(sched, p, r)
  /\ LET next == PlanWaiting(sched, p, r) IN sched' = next.d /\ p' = next.p
  /\ UNCHANGED <<step, w>>

MayResume ==
  /\ CanResume(sched, p) /\ sched.preempted # <<>>
  /\ WaitingFits(sched, p, Head(sched.preempted))

ResumePreempted == sched.preempted # <<>> /\ ScheduleFromQueue(Head(sched.preempted))

\* A request that arrives is one the scheduler finds in its waiting queue.
ScheduleNew(r) ==
  sched.status[r] = "waiting" /\ sched.preempted = <<>> /\ ScheduleFromQueue(r)

Abort(r) ==
  /\ Planning /\ p = NoPlan
  /\ r \in Abortable /\ sched.status[r] \in {"running", "preempted"}
  /\ sched' = FinishRequest(sched, r)
  /\ UNCHANGED <<p, step, w>>

OfKind(kinds) == Within(p.order, {r \in Entries(p.order) : p.plan[r].kind \in kinds})

\* An empty step tells the worker which requests finished.
Dispatch ==
  /\ Planning /\ AllRunningPlanned(sched, p) /\ ~MayResume
  /\ p.order # <<>> \/ Reported(sched) # {}
  /\ step' = [NoStep EXCEPT
                !.running = TRUE,
                !.finished = Reported(sched),
                !.new = OfKind({"new"}),
                !.cached = OfKind({"running"}) \o OfKind({"resumed"}),
                !.rows = p.order]
  /\ sched' = [sched EXCEPT !.status = [r \in Req |->
                 IF @[r] = "finished" THEN "done" ELSE @[r]]]
  /\ UNCHANGED <<p, w>>

-----------------------------------------------------------------------------
(* The worker's half.                                                      *)

FinalizeFinished(r) ==
  /\ step.running /\ r \in step.finished
  /\ w' = Collected(FinalizeFinishedRequest(w, r))
  /\ step' = [step EXCEPT !.finished = @ \ {r}]
  /\ UNCHANGED <<sched, p>>

AdmitNew(cost) ==
  /\ step.running /\ step.finished = {} /\ step.new # <<>>
  /\ LET r == Head(step.new)
     IN  /\ Batch => CanAssignSlot(w.rc, r)
         /\ \E admitted \in AdmitRequest(w, r, p.plan[r].num, p.plan[r].blocks, cost) :
              w' = Collected(admitted)
  /\ step' = [step EXCEPT !.new = Tail(@)]
  /\ UNCHANGED <<sched, p>>

ContinueCached ==
  /\ step.running /\ step.finished = {} /\ step.new = <<>> /\ step.cached # <<>>
  /\ LET r == Head(step.cached)
         q == p.plan[r]
     IN  w' = ContinueRequest(w, r, q.num, q.blocks, q.kind = "resumed")
  /\ step' = [step EXCEPT !.cached = Tail(@)]
  /\ UNCHANGED <<sched, p>>

Admitted ==
  step.running /\ step.finished = {} /\ step.new = <<>> /\ step.cached = <<>>

ScheduledEnd(r) == w.req[r].num + p.plan[r].n

\* The tokens a row computes, from a cache holding start tokens of its prefix.
RowTokens(v, r, start) == SubSeq(Tokens(v, r), start + 1, v.req[r].num + p.plan[r].n)

\* Run the rows of R: their caches grow by the tokens computed.
Infer(v, start, R) ==
  [v EXCEPT !.kv.obj = [c \in Cache |->
     IF \E r \in R : v.active[SlotKey(v, r)].cache = c
     THEN LET r == CHOOSE r \in R : v.active[SlotKey(v, r)].cache = c
          IN  Advance(v.kv, c, RowTokens(v, r, start[r])).obj[c]
     ELSE @[c]]]

LogitsOf(v, R) ==
  [r \in Req |-> IF r \in R THEN v.kv.obj[v.active[SlotKey(v, r)].cache].tokens
                 ELSE step.logits[r]]

(***************************************************************************)
(* A non-batch row runs at once, and num_computed_tokens moves with it.    *)
(***************************************************************************)
StartRow(cost) ==
  /\ Admitted /\ step.rows # <<>>
  /\ LET r == Head(step.rows)
     IN  \E load \in LoadSnapshotIfNeeded(w, r, cost) :
           LET started == StartRequestStep(load.w, r, load.start, cost)
               start   == [step.start EXCEPT ![r] = load.start]
               ran     == Infer(started, start, {r})
           IN  /\ w' = Collected(IF Batch THEN started
                                 ELSE [ran EXCEPT !.req[r].num = ScheduledEnd(r)])
               /\ step' = [step EXCEPT
                     !.rows = Tail(@), !.start = start,
                     !.logits = IF Batch THEN @ ELSE LogitsOf(ran, {r}),
                     !.warned = IF /\ LivePrefixIncomplete(w, r)
                                   /\ ~RecomputesPromptLogprobs(w, r)
                                THEN @ \cup {r} ELSE @]
  /\ UNCHANGED <<sched, p>>

RowsStarted == Admitted /\ step.rows = <<>>

Waiting(r) == step.logits[r] = <<>>

Forward ==
  /\ Batch /\ RowsStarted
  /\ \E r \in Entries(p.order) : Waiting(r)
  /\ LET R   == Entries(p.order)
         ran == Infer(w, step.start, R)
     IN  /\ w' = [ran EXCEPT !.req = [r \in Req |->
                    IF r \in R THEN [@[r] EXCEPT !.num = ScheduledEnd(r)] ELSE @[r]]]
         /\ step' = [step EXCEPT !.logits = LogitsOf(ran, R)]
  /\ UNCHANGED <<sched, p>>

\* Mutant: a chunk that leaves one prompt token is taken for the last.
SamplesBeforeLast(r) == w.req[r].num + 1 >= Len(Prompt[r])

\* num_computed_tokens is the scheduled end once the row ran.
Samples(r) == w.req[r].num >= Len(Prompt[r])

\* Prompt logprobs are complete up to the token the row ended at.
NextLogprobPos(r) ==
  IF r \in LogprobReqs
  THEN MaxOf({w.req[r].pos, Least(w.req[r].num + 1, Len(Prompt[r]))})
  ELSE w.req[r].pos

\* The request of a row, with the token it was given, if it was given one.
Answered(r, token) ==
  [w.req[r] EXCEPT !.out = IF r \in DOMAIN token THEN Append(@, token[r]) ELSE @,
                   !.pos = NextLogprobPos(r)]

Sample ==
  /\ RowsStarted
  /\ \A r \in Entries(p.order) : ~Waiting(r)
  /\ \E token \in [{r \in Entries(p.order) : Samples(r)} -> Tok] :
       /\ w' = [w EXCEPT !.req = [r \in Req |->
                            IF r \in Entries(p.order) THEN Answered(r, token) ELSE @[r]],
                         !.kv.dumps = {}]
       /\ sched' = ReturnAll(sched, p.order, token)
  /\ step' = NoStep
  /\ p' = NoPlan

-----------------------------------------------------------------------------
AllServed == /\ Planning /\ \A r \in Req : sched.status[r] = "done"
             /\ UNCHANGED vars

EngineStep ==
  \/ ScheduleRunning \/ PreemptLast \/ ResumePreempted
  \/ Dispatch
  \/ \E r \in Req : FinalizeFinished(r)
  \/ \E cost \in Costs : AdmitNew(cost) \/ StartRow(cost)
  \/ ContinueCached \/ Forward \/ Sample

Next ==
  \/ EngineStep
  \/ \E r \in Req : ScheduleNew(r) \/ Abort(r)
  \/ AllServed

Spec == Init /\ [][Next]_vars

(***************************************************************************)
(* The engine's loop steps as long as it has requests; clients promise     *)
(* nothing.  This is WF_vars(EngineStep): HasRequests is ENABLED           *)
(* EngineStep, written out because TLC takes long to find whether a step   *)
(* as large as this one is enabled.                                        *)
(***************************************************************************)
HasRequests ==
  step.running \/ \E r \in Req : sched.status[r] \in {"running", "preempted", "finished"}

FairSpec == Spec /\ ([]<>~HasRequests \/ []<><<EngineStep>>_vars)

-----------------------------------------------------------------------------
Statuses == {"waiting", "running", "preempted", "finished", "done"}

Objects == [row : Slot \cup {None}, tokens : Seq(Text)]

\* Types of the scheduler's, the plan's and the worker's state.
TypeOK ==
  /\ sched.status \in [Req -> Statuses]
  /\ sched.running \in Seq(Req) /\ sched.preempted \in Seq(Req)
  /\ sched.out \in [Req -> Seq(Tok)] /\ \A r \in Req : Len(sched.out[r]) <= MaxOut
  /\ sched.num \in [Req -> Nat] /\ sched.table \in [Req -> Seq(Block)]
  /\ sched.free \in Seq(Block)
  /\ p.order \in Seq(Req) /\ p.plan \in [Req -> Plans \cup {None}]
  /\ p.next \in Nat \ {0} /\ p.budget \in Nat /\ p.stalled \in BOOLEAN
  /\ w.req \in [Req -> RequestStates \cup {None}]
  /\ \A r \in Req : Live(w, r) => w.req[r].slot \in (IF Batch THEN Slot ELSE {None})
  /\ w.rc.snapshots \in [Req -> Snapshots \cup {None}]
  /\ w.active \in [Slot -> Actives \cup {None}]
  /\ w.kv.obj \in [Cache -> Objects] /\ w.kv.owner \in [Slot -> Cache \cup {None}]

(***************************************************************************)
(* A request's cache holds the KV of its own tokens and of nothing else,   *)
(* whichever requests it took its prefix from, and between steps it holds  *)
(* exactly the num_computed_tokens the worker counts.                      *)
(***************************************************************************)
CacheHoldsOwnTokens ==
  \A r \in Req : Live(w, r) /\ CacheOf(w, r) # None =>
    /\ IsPrefix(w.kv.obj[CacheOf(w, r)].tokens, Known(sched, r))
    /\ Planning => HeldTokens(w, r) = w.req[r].num

(***************************************************************************)
(* A snapshot advertises no more tokens than its cache holds, they are the *)
(* tokens of the request that left it, and the ids it is matched by are    *)
(* theirs.  Resuming on it past KV that is not there, or of an emptied     *)
(* cache, would go unnoticed until the answer is wrong.                    *)
(***************************************************************************)
SnapshotsAreHonest ==
  \A o \in Req : w.rc.snapshots[o] # None =>
    LET s    == w.rc.snapshots[o]
        held == SubSeq(w.kv.obj[s.cache].tokens, 1, s.num)
    IN  /\ s.num <= SeqLength(w.kv, s.cache)
        /\ IsPrefix(held, Known(sched, o))
        /\ \A i \in 1 .. s.num :
              s.ids[i] = IF held[i] \in Images THEN Placeholder ELSE held[i]

(***************************************************************************)
(* No two requests, no request and a snapshot, and no two snapshots share  *)
(* a cache object: settling, rewinding or forwarding one of them would     *)
(* change the other's KV.                                                  *)
(***************************************************************************)
NoCacheIsShared ==
  LET live   == {<<"live", r>> : r \in {q \in Req : Live(w, q) /\ CacheOf(w, q) # None}}
      stored == {<<"snapshot", r>> : r \in {q \in Req : w.rc.snapshots[q] # None}}
      cache(h) == IF h[1] = "live" THEN CacheOf(w, h[2]) ELSE w.rc.snapshots[h[2]].cache
  IN  \A h, g \in live \cup stored : cache(h) = cache(g) => h = g

(***************************************************************************)
(* When a batch runs, every row still has the slot its cache was bound to, *)
(* at the length it starts from, whatever the rows prepared after it       *)
(* loaded, settled or bound.                                               *)
(***************************************************************************)
RowsKeepTheirSlots ==
  Batch /\ RowsStarted =>
    \A r \in Entries(p.order) : Waiting(r) =>
      LET slot == w.req[r].slot
      IN  /\ w.active[slot] = [req |-> r, cache |-> CacheOf(w, r)]
          /\ HoldsSlot(w.kv, CacheOf(w, r), slot)
          /\ HeldTokens(w, r) = step.start[r]

(***************************************************************************)
(* Exactly the live requests of a batch model hold a slot, and a new one   *)
(* always finds a free one: assign_slot raises otherwise, which would stop *)
(* the engine.                                                             *)
(***************************************************************************)
SlotsFollowRequests ==
  Batch =>
    /\ \A r \in Req : w.rc.req_to_slot[r] = IF Live(w, r) THEN w.req[r].slot ELSE None
    /\ step.finished = {} /\ step.new # <<>> => CanAssignSlot(w.rc, Head(step.new))

(***************************************************************************)
(* Every snapshot belongs to a live request or is in the LRU of finished   *)
(* ones, never both, and the LRU keeps to its cap: a snapshot outside both *)
(* would hold its KV for ever.                                             *)
(***************************************************************************)
SnapshotsAreReclaimable ==
  /\ \A o \in Req : w.rc.snapshots[o] # None => (Live(w, o) <=> o \notin w.rc.finished)
  /\ Cardinality(w.rc.finished) <= w.rc.cap

(***************************************************************************)
(* A slot changes hands without saving a finished request's KV, unless     *)
(* host offload is on, and never by the bind itself: only the KV of a live *)
(* request is saved by a bind (issue #40).                                 *)
(***************************************************************************)
OnlyLiveKVIsSaved ==
  [][\A dump \in w'.kv.dumps \ w.kv.dumps :
       \/ dump.by = "copy"
       \/ dump.by = "offload" /\ w.offload
       \/ \E r \in Req : Live(w, r) /\ CacheOf(w, r) = dump.of]_vars

(***************************************************************************)
(* A request that was scheduled is answered and forgotten, if the engine   *)
(* keeps stepping.                                                         *)
(***************************************************************************)
EveryRequestEnds ==
  \A r \in Req : sched.status[r] = "running" ~> sched.status[r] = "done" /\ ~Live(w, r)

(***************************************************************************)
(* Between the scheduler and the worker: "A request's cache keeps every    *)
(* token the worker computed for it, so a shorter cache means the worker   *)
(* and the scheduler disagree", _warn_live_cache_prefix_incomplete says.   *)
(***************************************************************************)
LivePrefixIsNeverIncomplete == step.warned = {}

(***************************************************************************)
(* Each request is answered as if it were alone: the logits a token is     *)
(* sampled from are those of the request's whole prompt and all its output *)
(* so far, whatever its KV was copied, taken over or recomputed from.      *)
(***************************************************************************)
Isolated == INSTANCE IsolatedRequests WITH out <- sched.out, ran <- step.logits

AnswersAsIfAlone == Isolated!Spec

(***************************************************************************)
(* A token is only sampled once the model ran on every token known of the  *)
(* request: "Until vLLM has scheduled every token it knows of (a prompt in *)
(* chunks, or a round's tokens split across steps), there is nothing to    *)
(* run", as eagle3_runtime.py puts the rule.                               *)
(***************************************************************************)
SampledRowsRanOnAllTokens ==
  RowsStarted =>
    \A r \in Entries(p.order) :
      ~Waiting(r) /\ Samples(r) => step.logits[r] = Known(sched, r)
=============================================================================
