---------------------------- MODULE RequestCaches ----------------------------
(***************************************************************************)
(* Request caches on NPU slots: RequestCacheSlots of request_cache.py, and *)
(* what the worker relies on transformers-mblt for, its cache objects and  *)
(* its table of which cache's KV each slot holds.                          *)
(*                                                                         *)
(* kv is a record                                                          *)
(*   obj    each cache object: the slot it is placed on (row) and the      *)
(*          tokens whose KV it holds, on the slot or in host memory; an    *)
(*          object nothing refers to is Unused                             *)
(*   owner  the cache whose KV each slot holds, or None                    *)
(*   dumps  the dumps of the last action: [of, by], a cache saved to host  *)
(*          memory by a bind, a copy or an offload                         *)
(* Slot numbers stand for the (model_idx, cache_id) rows they address.     *)
(***************************************************************************)
EXTENDS RuntimeCache

CONSTANT Cache      \* cache objects: 1 .. the most that exist at once

\* A request has a cache and leaves one more with a snapshot; a handler makes up to
\* four before those it replaces are collected.
ASSUME CacheAssumption ==
  /\ Cache \subseteq Nat /\ None \notin Cache /\ IsFiniteSet(Cache)
  /\ Cardinality(Cache) >= 2 * Cardinality(Req) + 4

Unused == [row |-> None, tokens |-> <<>>]

NoCaches == [obj |-> [c \in Cache |-> Unused], owner |-> [s \in Slot |-> None], dumps |-> {}]

SeqLength(kv, c) == Len(kv.obj[c].tokens)

\* A cache is never moved: it can only hold the slot it was placed on.
IsResident(kv, c) == kv.obj[c].row # None /\ kv.owner[kv.obj[c].row] = c

Dump(kv, c, by) ==
  IF IsResident(kv, c) THEN [kv EXCEPT !.dumps = @ \cup {[of |-> c, by |-> by]}] ELSE kv

\* A new object has the least free id.
FreeCache(kv) ==
  CHOOSE c \in Cache : kv.obj[c] = Unused /\ \A d \in Cache : kv.obj[d] = Unused => c <= d

NewCache(kv, c, slot) == [kv EXCEPT !.obj[c] = [row |-> slot, tokens |-> <<>>]]

HoldsSlot(kv, c, slot) == kv.obj[c].row = slot /\ kv.owner[slot] = c

SetSeqLength(kv, c, n) == [kv EXCEPT !.obj[c].tokens = SubSeq(@, 1, Least(n, Len(@)))]

\* The KV leaves the slot for host memory.
Offload(kv, c) ==
  IF IsResident(kv, c)
  THEN [Dump(kv, c, "offload") EXCEPT !.owner[kv.obj[c].row] = None] ELSE kv

Reset(kv, c) == SetSeqLength(kv, c, 0)

\* An independent copy, in host memory: a resident cache is dumped for it.
CopyOf(kv, c, copy) == [Dump(kv, c, "copy") EXCEPT !.obj[copy] = kv.obj[c]]

(***************************************************************************)
(* The slot changes hands: the cache that held it is saved first, unless   *)
(* it is empty or nothing refers to it any more.                           *)
(***************************************************************************)
Bind(kv, c, referenced) ==
  LET slot  == kv.obj[c].row
      loser == kv.owner[slot]
      saved == IF loser # None /\ loser # c /\ loser \in referenced /\ SeqLength(kv, loser) > 0
               THEN Dump(kv, loser, "bind") ELSE kv
  IN  [saved EXCEPT !.owner[slot] = c]

\* Mutant: the cache keeps its old length.
PrepareUntrimmed(kv, c, size, referenced) == Bind(kv, c, referenced)

\* The code raises when size exceeds the length, which the callers must never let
\* happen (RowsKeepTheirSlots and CacheHoldsOwnTokens of MbltWorker).
Prepare(kv, c, size, referenced) == Bind(SetSeqLength(kv, c, size), c, referenced)

Relocate(kv, c, copy, slot, n) ==
  LET copied == CopyOf(kv, c, copy)
      placed == [copied EXCEPT !.obj[copy].row = slot]
  IN  SetSeqLength(placed, copy, n)

Advance(kv, c, tokens) == [kv EXCEPT !.obj[c].tokens = @ \o tokens]

\* What reference counting leaves: the owner table refers to caches weakly.
Collect(kv, referenced) ==
  [kv EXCEPT !.obj = [c \in Cache |-> IF c \in referenced THEN @[c] ELSE Unused],
             !.owner = [s \in Slot |-> IF @[s] \in referenced THEN @[s] ELSE None]]
=============================================================================
