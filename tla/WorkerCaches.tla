---------------------------- MODULE WorkerCaches ----------------------------
(***************************************************************************)
(* The cache handlers of MbltWorker (mblt_worker.py): where a request's KV *)
(* prefix comes from, which cache runs on a slot, and what becomes of the  *)
(* cache of a request that finishes or loses its slot.                     *)
(*                                                                         *)
(* The worker is a record w, and every handler an operator on it:          *)
(*   rc       its MbltRuntimeCacheManager                                  *)
(*   kv       its RequestCacheSlots and the slots' owner table             *)
(*   req      req_states: for each request None, or its num_computed_tokens*)
(*            (num), output_token_ids (out), cache_slot_id (slot), kv_cache*)
(*            (cache), block_ids (blocks) and next_prompt_logprob_pos (pos)*)
(*   offload  prefix_cache_host_offload                                    *)
(*   active   _slot_caches: the request and cache running on each slot     *)
(* A non-batch worker has the one slot 0, which the code calls None.       *)
(*                                                                         *)
(* A prompt is a sequence of embeddings: a token, or one of Images, which  *)
(* all hide behind one placeholder token.  cost stands for the estimates   *)
(* of the prefix cost model (PrefixCacheCost) during one call: the numbers *)
(* of tokens worth a load (load) and worth keeping (keep).                 *)
(***************************************************************************)
EXTENDS Scheduler, RequestCaches

CONSTANTS
  Batch,            \* whether the compiled model serves a batch
  HostOffloads,     \* the values prefix_cache_host_offload may have
  MinHit,           \* prefix_cache_min_hit_tokens
  Images,           \* the embeddings that are images
  Session,          \* each request's VLM session
  LogprobReqs,      \* the requests that ask for prompt logprobs
  Tok               \* the tokens that may be sampled

ASSUME WorkerAssumption ==
  /\ Batch \in BOOLEAN /\ HostOffloads \subseteq BOOLEAN
  /\ MaxSlots > 0 /\ (Batch <=> MaxSlots > 1)
  /\ Tok \cap Images = {}

NewWorker(cap, offload) ==
  [rc |-> NewManager(MaxSlots, cap), kv |-> NoCaches, offload |-> offload,
   req |-> [r \in Req |-> None], active |-> [s \in Slot |-> None]]

Live(w, r) == w.req[r] # None

SlotKey(w, r) == IF Batch THEN w.req[r].slot ELSE 0

CacheOf(w, r) == w.req[r].cache

Tokens(w, r) == Prompt[r] \o w.req[r].out

HeldTokens(w, r) == IF CacheOf(w, r) = None THEN 0 ELSE SeqLength(w.kv, CacheOf(w, r))

\* The caches something in the worker refers to; all others are collected.
Referenced(w) ==
  {CacheOf(w, r) : r \in {q \in Req : Live(w, q)}}
  \cup {w.rc.snapshots[r].cache : r \in {q \in Req : w.rc.snapshots[q] # None}}
  \cup {w.active[s].cache : s \in {t \in Slot : w.active[t] # None}}

Collected(w) == [w EXCEPT !.kv = Collect(@, Referenced(w))]

-----------------------------------------------------------------------------
(* What the cost model answers.                                            *)

ShouldTakeOver(tokens) == tokens > 0 /\ tokens >= MinHit

ShouldLoad(cost, tokens) == ShouldTakeOver(tokens) /\ tokens \in cost.load

ShouldKeep(cost, tokens) == ShouldTakeOver(tokens) /\ tokens \in cost.keep

ShouldSave(w, cost, tokens) == w.offload /\ ShouldKeep(cost, tokens)

-----------------------------------------------------------------------------
(* A request as a prefix.                                                  *)

Placeholder == "image"

CacheTokenIds(w, r, n) ==
  [i \in 1 .. n |-> IF Tokens(w, r)[i] \in Images THEN Placeholder ELSE Tokens(w, r)[i]]

\* Every image of the prompt with its position.
ImageSpans(r) ==
  LET spans == [i \in 1 .. Len(Prompt[r]) |->
                  [start |-> i - 1, stop |-> i, image |-> Prompt[r][i]]]
  IN  Within(spans, {span \in Entries(spans) : span.image \in Images})

\* Mutant: images are told apart by where they are.
MultimodalIdentityByPosition(r, n) ==
  LET shown == ImageSpans(r)
  IN  IF n > 0 /\ shown # <<>>
      THEN [session |-> Session[r],
            spans |-> [i \in 1 .. Len(shown) |-> [shown[i] EXCEPT !.image = Placeholder]]]
      ELSE None

\* All images, whatever the length asked for.
MultimodalIdentity(r, n) ==
  IF n > 0 /\ ImageSpans(r) # <<>>
  THEN [session |-> Session[r], spans |-> ImageSpans(r)] ELSE None

PrefixOf(w, r, n, cache) ==
  [req |-> r, num |-> n, blocks |-> w.req[r].blocks, hashes |-> None,
   ids |-> CacheTokenIds(w, r, n), mm |-> MultimodalIdentity(r, n), embeds |-> None,
   cache |-> cache]

Text == Embeddings \cup Tok

RequestStates ==
  [num : Nat, out : Seq(Tok), slot : Slot \cup {None}, cache : Cache \cup {None},
   blocks : Seq(Block), pos : Nat]

Actives == [req : Req, cache : Cache]

Snapshots ==
  [req : Req, num : Nat, blocks : Seq(Block), hashes : {None},
   ids : Seq(Text \cup {Placeholder}),
   mm : {None} \cup {MultimodalIdentity(r, 1) : r \in Req}, embeds : {None}, cache : Cache]

\* None is none of the worker's records, and no list of token ids.
ASSUME RecordAssumption ==
  /\ None \notin Plans \cup RequestStates \cup Actives \cup Snapshots
  /\ None \notin Seq(Text \cup {Placeholder})
  /\ \A r \in Req : None # [session |-> Session[r], spans |-> ImageSpans(r)]

RuntimeCacheRequest(w, r) == PrefixOf(w, r, w.req[r].num, None)

RecomputesPromptLogprobs(w, r) ==
  /\ r \in LogprobReqs
  /\ w.req[r].pos <= 1 /\ w.req[r].pos < Len(Prompt[r])
  /\ w.req[r].num > 0

-----------------------------------------------------------------------------
(* Snapshots of finished requests that are still on a slot.                *)

ResidentSnapshots(w, slots) ==
  {o \in Req : /\ w.rc.snapshots[o] # None /\ ~Live(w, o) /\ w.rc.snapshots[o].num > 0
               /\ \E s \in slots : HoldsSlot(w.kv, w.rc.snapshots[o].cache, s)}

SlotHolding(w, o) == w.kv.obj[w.rc.snapshots[o].cache].row

MatchResident(w, r, resident) ==
  {VerifyPromptEmbedMatch(w.rc, RuntimeCacheRequest(w, r), match) :
     match \in PrefixMatches(w.rc, RuntimeCacheRequest(w, r), resident)}

DropStaleResident(w, r, resident) ==
  [w EXCEPT !.rc = DropStale(@, RuntimeCacheRequest(w, r), resident)]

\* Mutant: the snapshot is emptied but stays in the index.
SettleKeepsEntry(w, slot, cost) ==
  LET resident == ResidentSnapshots(w, {slot})
      o        == CHOOSE r \in resident : TRUE
      cache    == w.rc.snapshots[o].cache
  IN  IF resident = {} THEN w
      ELSE IF ShouldSave(w, cost, w.rc.snapshots[o].num) THEN [w EXCEPT !.kv = Offload(@, cache)]
      ELSE [w EXCEPT !.kv = Reset(@, cache)]

\* Mutant: the slot changes hands without a word.
SettleNothing(w, slot, cost) == w

(***************************************************************************)
(* _settle_snapshot_on_slot: a finished snapshot leaves the slot before    *)
(* another cache is bound to it, for host memory or for good.              *)
(***************************************************************************)
Settle(w, slot, cost) ==
  LET resident == ResidentSnapshots(w, {slot})
      o        == CHOOSE r \in resident : TRUE
      cache    == w.rc.snapshots[o].cache
  IN  IF resident = {} THEN w
      ELSE IF ShouldSave(w, cost, w.rc.snapshots[o].num) THEN [w EXCEPT !.kv = Offload(@, cache)]
      ELSE [w EXCEPT !.rc = RemoveSnapshot(@, o), !.kv = Reset(@, cache)]

-----------------------------------------------------------------------------
(* Storing snapshots.                                                      *)

StorePrefix(w, r, cache, n) ==
  [w EXCEPT !.rc = StoreSnapshot(@, r, PrefixOf(w, r, n, cache))]

\* The snapshot never advertises more tokens than the cache holds.
DumpedTokens(w, r) == Least(HeldTokens(w, r), w.req[r].num)

(***************************************************************************)
(* _snapshot_switched_out_request: the prefix of a request that loses the  *)
(* non-batch slot stays available to others, as a copy in host memory.     *)
(***************************************************************************)
SnapshotSwitchedOut(w, r) ==
  LET n    == DumpedTokens(w, r)
      copy == FreeCache(w.kv)
      kv   == CopyOf(Offload(w.kv, CacheOf(w, r)), CacheOf(w, r), copy)
  IN  IF /\ EnablePrefixCaching /\ Live(w, r) /\ HeldTokens(w, r) > 0
         /\ ShouldDumpSnapshotAfterStep(w.rc, r, w.req[r].num)
         /\ ShouldDumpSnapshotAfterStep(w.rc, r, n)
      THEN StorePrefix([w EXCEPT !.kv = SetSeqLength(kv, copy, n)], r, copy, n)
      ELSE IF /\ EnablePrefixCaching /\ Live(w, r) /\ HeldTokens(w, r) > 0
              /\ ShouldDumpSnapshotAfterStep(w.rc, r, w.req[r].num)
      THEN [w EXCEPT !.kv = Offload(@, CacheOf(w, r))]
      ELSE w

-----------------------------------------------------------------------------
(* _load_request_prefix and _restore_snapshot.                             *)

WithRequestCache(w, r) ==
  LET cache == FreeCache(w.kv)
  IN  IF CacheOf(w, r) # None THEN w
      ELSE [w EXCEPT !.kv = NewCache(@, cache, SlotKey(w, r)), !.req[r].cache = cache]

\* Mutant: the snapshot taken over stays in the index.
TakeOverKeepsEntry(w, r, match, cost) ==
  LET cache == w.rc.snapshots[match.req].cache
  IN  [w EXCEPT !.kv = SetSeqLength(@, cache, match.tokens), !.req[r].cache = cache]

\* The snapshot's own cache, KV in place; a copy in host memory if it is worth it.
TakeOver(w, r, match, cost) ==
  LET o      == match.req
      cache  == w.rc.snapshots[o].cache
      copy   == FreeCache(w.kv)
      saved  == [w EXCEPT !.kv = CopyOf(@, cache, copy), !.rc.snapshots[o].cache = copy]
      source == IF ShouldSave(w, cost, w.rc.snapshots[o].num) THEN saved
                ELSE [w EXCEPT !.rc = RemoveSnapshot(@, o)]
  IN  [source EXCEPT !.kv = SetSeqLength(@, cache, match.tokens), !.req[r].cache = cache]

\* A copy of the snapshot, bound to the request's slot.
LoadCopy(w, r, match, cost) ==
  LET slot    == SlotKey(w, r)
      source  == w.rc.snapshots[match.req].cache
      settled == Settle(w, slot, cost)
      copy    == FreeCache(settled.kv)
      kv      == Prepare(Relocate(settled.kv, source, copy, slot, match.tokens),
                         copy, match.tokens, Referenced(settled))
  IN  [settled EXCEPT !.kv = kv, !.req[r].cache = copy]

RestoreSnapshot(w, r, match, cost) ==
  LET fresh == [w EXCEPT !.rc = RefreshSnapshotRecency(@, match.req)]
  IN  IF HoldsSlot(w.kv, w.rc.snapshots[match.req].cache, SlotKey(w, r))
      THEN TakeOver(fresh, r, match, cost)
      ELSE LoadCopy(fresh, r, match, cost)

(***************************************************************************)
(* Where the prefix comes from once the own cache falls short: found is    *)
(* the best snapshot anywhere, onSlot the one still on the request's slot. *)
(* The result is the worker and the tokens the slot then holds.            *)
(***************************************************************************)
FromSnapshot(w, r, found, onSlot, cost) ==
  LET held   == HeldTokens(w, r)
      takes  == onSlot.tokens > held /\ ShouldTakeOver(onSlot.tokens)
      verify == VerifyPromptEmbedMatch(w.rc, RuntimeCacheRequest(w, r), found)
      loads(match) == /\ match.tokens > held
                      /\ ~(takes /\ onSlot.tokens >= match.tokens)
                      /\ ShouldLoad(cost, match.tokens)
  IN  IF loads(found) /\ loads(verify)
      THEN [w |-> RestoreSnapshot(w, r, verify, cost), start |-> verify.tokens]
      ELSE IF takes
      THEN [w |-> RestoreSnapshot(w, r, onSlot, cost), start |-> onSlot.tokens]
      ELSE [w |-> w, start |-> held]

\* Whether the worker warns: the cache holds less than the scheduler expects.
LivePrefixIncomplete(w, r) ==
  HeldTokens(w, r) > 0 /\ HeldTokens(w, r) < w.req[r].num

LoadRequestPrefix(w0, r, cost) ==
  LET w        == WithRequestCache(w0, r)
      q        == RuntimeCacheRequest(w, r)
      seen     == [w EXCEPT !.rc = ObserveRequestBlocks(@, r, q.blocks)]
      searched == [seen EXCEPT !.rc = AfterChoose(@, q)]
      resident == ResidentSnapshots(searched, {SlotKey(w, r)})
      left     == DropStaleResident(searched, r, resident)
  IN  IF q.num <= 0 THEN {[w |-> w, start |-> 0]}
      ELSE IF HeldTokens(w, r) >= q.num THEN {[w |-> seen, start |-> q.num]}
      ELSE UNION {{FromSnapshot(left, r, found, onSlot, cost) :
                     onSlot \in MatchResident(searched, r, resident)} :
                    found \in ChooseSnapshot(seen.rc, q)}

-----------------------------------------------------------------------------
(* Starting a request's part of a step.                                    *)

\* _load_snapshot_if_needed
LoadSnapshotIfNeeded(w, r, cost) ==
  LET previous == w.active[SlotKey(w, r)]
      switched == IF previous # None /\ previous.req # r
                  THEN SnapshotSwitchedOut(w, previous.req) ELSE w
  IN  IF RecomputesPromptLogprobs(w, r) THEN {[w |-> switched, start |-> 0]}
      ELSE LoadRequestPrefix(switched, r, cost)

\* _start_request_step
StartRequestStep(w, r, start, cost) ==
  LET slot    == SlotKey(w, r)
      changes == w.active[slot] = None \/ w.active[slot].cache # CacheOf(w, r)
      settled == WithRequestCache(IF changes THEN Settle(w, slot, cost) ELSE w, r)
      cache   == CacheOf(settled, r)
      running == [settled EXCEPT !.active[slot] = [req |-> r, cache |-> cache]]
  IN  [running EXCEPT !.kv = Prepare(@, cache, start, Referenced(running))]

-----------------------------------------------------------------------------
(* Admitting and finishing requests.                                       *)

\* slot_victim_rank, over the snapshots that matching left in the index.
VictimRank(w, cost) ==
  [s \in Slot |->
     LET resident == ResidentSnapshots(w, {s})
         o        == CHOOSE r \in resident : TRUE
     IN  IF resident = {} \/ s \notin w.rc.free_slots THEN <<0, 0>>
         ELSE <<IF ShouldKeep(cost, w.rc.snapshots[o].num) THEN 2 ELSE 1,
                FinishedSnapshotAge(w.rc, o)>>]

\* Mutant: the slot is not recorded with the request.
AssignUnrecordedSlot(w, r, cost) ==
  {[w EXCEPT !.rc = AssignSlot(@, r, None, VictimRank(w, cost))]}

(***************************************************************************)
(* _assign_cache_slot, for a request whose state is in w.req already; the  *)
(* code puts it there after, but the request has no snapshot to resume.    *)
(***************************************************************************)
AssignCacheSlot(w, r, cost) ==
  LET resident == ResidentSnapshots(w, w.rc.free_slots)
      matches  == resident # {} /\ EnablePrefixCaching /\ w.req[r].num > 0
                  /\ ~RecomputesPromptLogprobs(w, r)
      left     == IF matches THEN DropStaleResident(w, r, resident) ELSE w
      prefixes == IF matches THEN MatchResident(w, r, resident) ELSE {NoMatch}
      slotOf(match) == IF match.req # None /\ ShouldTakeOver(match.tokens)
                       THEN SlotHolding(w, match.req) ELSE None
  IN  {LET rc == AssignSlot(left.rc, r, slotOf(match), VictimRank(left, cost))
       IN  [left EXCEPT !.rc = rc, !.req[r].slot = rc.req_to_slot[r]] : match \in prefixes}

\* A request of scheduled_new_reqs.
AdmitRequest(w, r, num, blocks, cost) ==
  LET admitted == [w EXCEPT !.rc = ObserveRequestBlocks(@, r, blocks),
                            !.req[r] = [num |-> num, out |-> <<>>, slot |-> None,
                                        cache |-> None, blocks |-> blocks, pos |-> 1]]
  IN  IF Batch THEN AssignCacheSlot(admitted, r, cost) ELSE {admitted}

\* A request of scheduled_cached_reqs.
ContinueRequest(w, r, num, blocks, resumed) ==
  LET table == IF resumed THEN blocks ELSE w.req[r].blocks \o blocks
      moved == [w EXCEPT !.req[r].num = num]
  IN  IF blocks = <<>> THEN moved
      ELSE [moved EXCEPT !.req[r].blocks = table, !.rc = ObserveRequestBlocks(@, r, table)]

KeptTokens(w, r) == Least(w.req[r].num, HeldTokens(w, r))

\* Mutant: the snapshot is marked finished before it is stored.
FinalizeMarksFirst(w, r) ==
  LET cache  == CacheOf(w, r)
      n      == KeptTokens(w, r)
      idle   == [w EXCEPT !.active = [s \in Slot |->
                   IF @[s] # None /\ @[s].req = r THEN None ELSE @[s]]]
      marked == [idle EXCEPT !.rc = MarkSnapshotFinished(@, r)]
      kept   == IF cache # None /\ EnablePrefixCaching /\ n > 0
                THEN StorePrefix([marked EXCEPT !.kv = SetSeqLength(@, cache, n)], r, cache, n)
                ELSE marked
  IN  [kept EXCEPT !.req[r] = None, !.rc = IF Batch THEN ReleaseSlot(@, r) ELSE @]

\* Mutant: the request's state is not dropped.
FinalizeKeepsState(w, r) == [w EXCEPT !.rc = MarkSnapshotFinished(@, r)]

(***************************************************************************)
(* _finalize_finished_request: the cache becomes the snapshot, in place.   *)
(***************************************************************************)
FinalizeFinishedRequest(w, r) ==
  LET cache   == CacheOf(w, r)
      n       == KeptTokens(w, r)
      idle    == [w EXCEPT !.active = [s \in Slot |->
                    IF @[s] # None /\ s = SlotKey(w, r) /\ @[s].req = r THEN None ELSE @[s]]]
      kept    == IF cache # None /\ EnablePrefixCaching /\ n > 0
                 THEN StorePrefix([idle EXCEPT !.kv = SetSeqLength(@, cache, n)], r, cache, n)
                 ELSE idle
      marked  == MarkSnapshotFinished(kept.rc, r)
  IN  [kept EXCEPT !.req[r] = None,
                   !.rc = IF Batch THEN ReleaseSlot(marked, r) ELSE marked]
=============================================================================
