---------------------------- MODULE RuntimeCache ----------------------------
(***************************************************************************)
(* The manager of runtime_cache.py: prefix snapshots, the LRU of finished  *)
(* ones, the index the matching walks, and the assignment of batch         *)
(* requests to NPU cache slots.                                            *)
(*                                                                         *)
(* The manager is one record m, and every method an operator from a        *)
(* manager to a manager, so that the worker, whose handlers call several   *)
(* methods in a row, can compose them; RuntimeCacheManager calls them in   *)
(* any order.                                                              *)
(*   snapshots    a snapshot (a prefix of PrefixMatch and its cache), or   *)
(*                None, for each request                                   *)
(*   index        the keys each request's snapshot was indexed under when  *)
(*                the index was last rebuilt, or None                      *)
(*   finished     the requests in finished_snapshot_lru                    *)
(*   older        its order: <<r, s>> when r comes before s                *)
(*   owner        physical_block_owner                                     *)
(*   req_to_slot, slot_to_req, free_slots, max_batch_size, cap             *)
(***************************************************************************)
EXTENDS PrefixMatch

CONSTANTS
  Req,                  \* request ids
  Block,                \* physical KV block numbers
  MaxSlots,             \* the largest batch size
  NModels,              \* cards: slot s runs on card s % NModels
  EnablePrefixCaching

ASSUME SlotAssumption ==
  /\ MaxSlots \in Nat
  /\ NModels \in Nat \ {0}
  /\ EnablePrefixCaching \in BOOLEAN

\* None is neither a request, a slot nor a block, as None is no str and no int.
ASSUME NoneAssumption == None \notin Req /\ None \notin 0 .. MaxSlots - 1

Slot == 0 .. MaxSlots - 1

SlotCard(slot) == slot % NModels

Entries(seq) == {seq[i] : i \in 1 .. Len(seq)}

-----------------------------------------------------------------------------
(* Snapshots and the index.                                                *)

IndexOf(snapshots) ==
  [r \in Req |-> IF snapshots[r] = None THEN None ELSE IndexBlocks(snapshots[r])]

RebuildSnapshotIndex(m) == [m EXCEPT !.index = IndexOf(m.snapshots)]

\* finished_snapshot_lru.pop(r, None) for every r in R
Forget(m, R) ==
  [m EXCEPT !.finished = @ \ R,
            !.older = {p \in @ : p[1] \notin R /\ p[2] \notin R}]

MoveToEnd(m, r) ==
  LET others == Forget(m, {r})
  IN  [others EXCEPT !.finished = @ \cup {r},
                     !.older = @ \cup (others.finished \X {r})]

ObserveRequestBlocks(m, r, blocks) ==
  [m EXCEPT !.owner = [b \in Block |-> IF b \in Entries(blocks) THEN r ELSE @[b]]]

\* Mutant: the index is not rebuilt.
StoreSnapshotUnindexed(m, r, s) ==
  ObserveRequestBlocks([Forget(m, {r}) EXCEPT !.snapshots[r] = s], r, s.blocks)

StoreSnapshot(m, r, s) ==
  LET stored == [Forget(m, {r}) EXCEPT !.snapshots[r] = s]
  IN  RebuildSnapshotIndex(
        IF s.hashes = None THEN ObserveRequestBlocks(stored, r, s.blocks) ELSE stored)

\* remove_snapshot for every r in R
RemoveSnapshots(m, R) ==
  LET dropped == [Forget(m, R) EXCEPT
                    !.snapshots = [r \in Req |-> IF r \in R THEN None ELSE @[r]]]
  IN  IF \E r \in R : m.snapshots[r] # None THEN RebuildSnapshotIndex(dropped) ELSE dropped

RemoveSnapshot(m, r) == RemoveSnapshots(m, {r})

TouchFinishedSnapshot(m, r) == IF m.snapshots[r] = None THEN m ELSE MoveToEnd(m, r)

RefreshSnapshotRecency(m, r) == IF r \in m.finished THEN MoveToEnd(m, r) ELSE m

FinishedSnapshotAge(m, r) ==
  IF r \in m.finished THEN Cardinality({o \in m.finished : <<o, r>> \in m.older})
  ELSE Cardinality(m.finished)

\* Mutant: popitem(last=True).
NewestFinished(m, n) ==
  {r \in m.finished : FinishedSnapshotAge(m, r) >= Cardinality(m.finished) - n}

OldestFinished(m, n) == {r \in m.finished : FinishedSnapshotAge(m, r) < n}

\* Mutant: the loop stops one entry early.
EvictOneTooFew(m) == RemoveSnapshots(m, OldestFinished(m, Cardinality(m.finished) - m.cap - 1))

EvictOldFinishedSnapshots(m) ==
  RemoveSnapshots(m, OldestFinished(m, Cardinality(m.finished) - m.cap))

MarkSnapshotFinished(m, r) ==
  IF EnablePrefixCaching
  THEN EvictOldFinishedSnapshots(TouchFinishedSnapshot(m, r))
  ELSE RemoveSnapshot(m, r)

RequiresNewBlock(held, next) == RequiredBlocks(next) > RequiredBlocks(held)

ShouldDumpSnapshotAfterStep(m, r, next) ==
  \/ m.snapshots[r] = None
  \/ next > m.snapshots[r].num /\ RequiresNewBlock(m.snapshots[r].num, next)

-----------------------------------------------------------------------------
(***************************************************************************)
(* Choosing a snapshot for a request q (a prefix with its id in q.req).    *)
(* Equally long matches are told apart by the order snapshots were stored  *)
(* in; here any of them may be chosen.                                     *)
(***************************************************************************)
NoMatch == [req |-> None, tokens |-> 0]

BlocksOf(m, r) == {b \in Block : m.owner[b] = r}

Listed(m, candidates) ==
  {r \in candidates : m.index[r] # None /\ m.snapshots[r] # None}

StaleSnapshots(m, q, candidates) ==
  {r \in Listed(m, candidates) \ {q.req} :
      IsStaleFor(q, m.snapshots[r], BlocksOf(m, q.req))}

PrefixTokens(m, q, r) == WalkedTokens(q, m.snapshots[r], m.index[r])

\* The matches choose_prefix_snapshot may return ...
PrefixMatches(m, q, candidates) ==
  LET usable  == Listed(m, candidates) \ StaleSnapshots(m, q, candidates)
      longest == MaxOf({PrefixTokens(m, q, r) : r \in usable} \cup {0})
  IN  IF longest = 0 THEN {NoMatch}
      ELSE {[req |-> r, tokens |-> longest] :
              r \in {c \in usable : PrefixTokens(m, q, c) = longest}}

\* ... and the manager it leaves: the snapshots found stale are dropped.
DropStale(m, q, candidates) == RemoveSnapshots(m, StaleSnapshots(m, q, candidates))

OwnTokens(m, q) ==
  IF m.snapshots[q.req] = None THEN 0 ELSE CompatibleTokens(q, m.snapshots[q.req])

\* Without prefix caching only the request's own snapshot is looked at; with
\* it, the whole index, unless the own snapshot covers everything asked for.
LooksAtOwnOnly(m, q) ==
  q.num <= 0 \/ ~EnablePrefixCaching \/ OwnTokens(m, q) >= q.num

ChooseSnapshot(m, q) ==
  IF ~LooksAtOwnOnly(m, q) THEN PrefixMatches(m, q, Req)
  ELSE IF OwnTokens(m, q) <= 0 THEN {NoMatch}
  ELSE {[req |-> q.req, tokens |-> OwnTokens(m, q)]}

AfterChoose(m, q) == IF LooksAtOwnOnly(m, q) THEN m ELSE DropStale(m, q, Req)

VerifyPromptEmbedMatch(m, q, match) ==
  IF match.req = None THEN match
  ELSE LET tokens == VerifiedTokens(match.tokens, q, m.snapshots[match.req])
       IN  IF tokens <= 0 THEN NoMatch ELSE [match EXCEPT !.tokens = tokens]

-----------------------------------------------------------------------------
(* Batch cache slots.                                                      *)

CardLoad(m, card) ==
  Cardinality({s \in Slot : m.slot_to_req[s] # None /\ SlotCard(s) = card})

LeastBy(S, f) == {s \in S : \A t \in S : f[s] <= f[t]}

\* Mutant: slots in use are not left out.
ChooseAnySlot(m, rank) ==
  LET idle == LeastBy(Slot, [s \in Slot |-> CardLoad(m, SlotCard(s))])
  IN  CHOOSE s \in idle : \A t \in idle : s <= t

\* Python compares the triples (load, rank, slot) lexically, and
\* slot_victim_rank gives a pair.
ChooseFreeSlot(m, rank) ==
  LET idle     == LeastBy(m.free_slots, [s \in Slot |-> CardLoad(m, SlotCard(s))])
      cheapest == LeastBy(LeastBy(idle, [s \in Slot |-> rank[s][1]]),
                          [s \in Slot |-> rank[s][2]])
  IN  CHOOSE s \in cheapest : \A t \in cheapest : s <= t

\* False where assign_slot raises "No free accelerator cache slots remain".
CanAssignSlot(m, r) == m.req_to_slot[r] # None \/ m.free_slots # {}

AssignedSlot(m, r, prefixSlot, rank) ==
  IF m.req_to_slot[r] # None THEN m.req_to_slot[r]
  ELSE IF prefixSlot \in m.free_slots THEN prefixSlot
  ELSE ChooseFreeSlot(m, rank)

TakeSlot(m, r, slot) ==
  [m EXCEPT !.free_slots = @ \ {slot}, !.req_to_slot[r] = slot, !.slot_to_req[slot] = r]

\* Mutant: a request that holds a slot is given another.
AssignSlotAgain(m, r, prefixSlot, rank) ==
  TakeSlot(m, r, IF prefixSlot \in m.free_slots THEN prefixSlot
                 ELSE IF m.free_slots # {} THEN ChooseFreeSlot(m, rank)
                 ELSE m.req_to_slot[r])

AssignSlot(m, r, prefixSlot, rank) ==
  IF m.req_to_slot[r] # None THEN m
  ELSE TakeSlot(m, r, AssignedSlot(m, r, prefixSlot, rank))

\* Mutant: the slot is never free again.
ReleaseSlotLost(m, r) == [m EXCEPT !.req_to_slot[r] = None]

ReleaseSlot(m, r) ==
  LET slot == m.req_to_slot[r]
  IN  IF slot = None THEN m
      ELSE [m EXCEPT !.req_to_slot[r] = None,
                     !.slot_to_req[slot] = IF @ = r THEN None ELSE @,
                     !.free_slots = @ \cup {slot}]

ResetSlots(m, size) ==
  [m EXCEPT !.max_batch_size = size,
            !.req_to_slot = [r \in Req |-> None],
            !.slot_to_req = [s \in Slot |-> None],
            !.free_slots = 0 .. size - 1]

\* The constructor, then _reset_cache_slots.
NewManager(size, cap) ==
  [snapshots |-> [r \in Req |-> None], index |-> [r \in Req |-> None],
   finished |-> {}, older |-> {}, owner |-> [b \in Block |-> None],
   req_to_slot |-> [r \in Req |-> None], slot_to_req |-> [s \in Slot |-> None],
   free_slots |-> 0 .. size - 1, max_batch_size |-> size, cap |-> cap]

ResetManager(m) ==
  ResetSlots([m EXCEPT !.snapshots = [r \in Req |-> None],
                       !.index = [r \in Req |-> None],
                       !.finished = {}, !.older = {},
                       !.owner = [b \in Block |-> None]],
             m.max_batch_size)
-----------------------------------------------------------------------------
(* What holds of every manager: its fields' types, the two slot maps being *)
(* each other's inverse, the LRU ordering requests that have a snapshot,   *)
(* the index being that of a rebuild.                                      *)

Managers(prefixes, caps) ==
  [snapshots : [Req -> prefixes \cup {None}],
   index : [Req -> {IndexBlocks(p) : p \in prefixes} \cup {None}],
   finished : SUBSET Req,
   older : SUBSET (Req \X Req),
   owner : [Block -> Req \cup {None}],
   req_to_slot : [Req -> Slot \cup {None}],
   slot_to_req : [Slot -> Req \cup {None}],
   free_slots : SUBSET Slot,
   max_batch_size : 0 .. MaxSlots,
   cap : caps]

SlotsMatch(m) ==
  /\ \A r \in Req, s \in Slot : m.req_to_slot[r] = s <=> m.slot_to_req[s] = r
  /\ m.free_slots = {s \in 0 .. m.max_batch_size - 1 : m.slot_to_req[s] = None}
  /\ \A s \in Slot : m.slot_to_req[s] # None => s < m.max_batch_size

LruOrdersSnapshots(m) ==
  /\ \A r \in m.finished : m.snapshots[r] # None
  /\ m.older \subseteq m.finished \X m.finished
  /\ \A r, s \in m.finished : r # s => (<<r, s>> \in m.older <=> <<s, r>> \notin m.older)
  /\ \A r \in m.finished : <<r, r>> \notin m.older
  /\ \A r, s, t \in m.finished :
        <<r, s>> \in m.older /\ <<s, t>> \in m.older => <<r, t>> \in m.older

IndexMatches(m) == m.index = IndexOf(m.snapshots)
=============================================================================
