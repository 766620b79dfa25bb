------------------------ MODULE RuntimeCacheManager ------------------------
(***************************************************************************)
(* MbltRuntimeCacheManager under any sequence of calls of its public       *)
(* methods.  The worker makes some of these sequences; a property that     *)
(* holds here does not depend on which.                                    *)
(***************************************************************************)
EXTENDS RuntimeCache

CONSTANTS
  Prefixes,     \* the prefixes a request may ask for or leave as a snapshot
  BlockTables,  \* the block tables the scheduler may report
  Caps,         \* the values of max_finished_snapshots
  Ranks         \* the slot_victim_rank functions a caller may pass

ASSUME CallsAssumption ==
  /\ Caps \subseteq Nat
  /\ BlockTables \subseteq Seq(Block)
  /\ Ranks \subseteq [Slot -> Nat \X Nat]

ASSUME PrefixesAssumption == \A p \in Prefixes : IsKvPrefix(p)

VARIABLE rc     \* the manager

Init == \E size \in 0 .. MaxSlots, cap \in Caps : rc = NewManager(size, cap)

Observe(r, blocks) == rc' = ObserveRequestBlocks(rc, r, blocks)

\* assign_slot raises, and changes nothing, when no slot is free.
Assign(r, prefixSlot, rank) ==
  CanAssignSlot(rc, r) /\ rc' = AssignSlot(rc, r, prefixSlot, rank)

Release(r) == rc' = ReleaseSlot(rc, r)

Resize(size) == rc' = ResetSlots(rc, size)

Store(r, s) == rc' = StoreSnapshot(rc, r, s)

Remove(r) == rc' = RemoveSnapshot(rc, r)

\* choose_snapshot, of which only the stale snapshots dropped are state.
Choose(r, p) == rc' = AfterChoose(rc, [p EXCEPT !.req = r])

Refresh(r) == rc' = RefreshSnapshotRecency(rc, r)

MarkFinished(r) == rc' = MarkSnapshotFinished(rc, r)

SetCap(cap) == rc' = [rc EXCEPT !.cap = cap]

Reset == rc' = ResetManager(rc)

Next ==
  \/ \E r \in Req, blocks \in BlockTables : Observe(r, blocks)
  \/ \E r \in Req, slot \in Slot \cup {None}, rank \in Ranks : Assign(r, slot, rank)
  \/ \E r \in Req : Release(r) \/ Remove(r) \/ Refresh(r) \/ MarkFinished(r)
  \/ \E r \in Req, p \in Prefixes : Store(r, p) \/ Choose(r, p)
  \/ \E size \in 0 .. MaxSlots : Resize(size)
  \/ \E cap \in Caps : SetCap(cap)
  \/ Reset

Spec == Init /\ [][Next]_rc

-----------------------------------------------------------------------------
\* Types of the manager's fields.
TypeOK == rc \in Managers(Prefixes, Caps)

(***************************************************************************)
(* Slots: the two maps are each other's inverse, and every slot is either  *)
(* held or free.  Two requests on one slot would bind their caches over    *)
(* each other; a slot lost to both maps would shrink the batch for good.   *)
(***************************************************************************)
SlotsConsistent == SlotsMatch(rc)

(***************************************************************************)
(* The LRU orders exactly its members, all of which have a snapshot: an    *)
(* entry without one would hold a place of the cap and evict a snapshot    *)
(* that still serves hits.                                                 *)
(***************************************************************************)
LruIsOfSnapshots == LruOrdersSnapshots(rc)

(***************************************************************************)
(* The index holds what a rebuild would put in it.  The walk matches       *)
(* through the index and reads the snapshot it finds there, so a stale     *)
(* index would miss prefixes, or find one under blocks it no longer has.   *)
(***************************************************************************)
IndexIsCurrent == IndexMatches(rc)

(***************************************************************************)
(* A snapshot dropped as stale is one the request asking could not have    *)
(* used, when the token ids of both are known.                             *)
(***************************************************************************)
NothingUsableIsStale ==
  \A r, o \in Req, p \in Prefixes :
    LET q == [p EXCEPT !.req = r]
        s == rc.snapshots[o]
    IN  o \in StaleSnapshots(rc, q, Req) /\ q.ids # None /\ s.ids # None
        => VerifiedTokens(WalkedTokens(q, s, rc.index[o]), q, s) = 0

(***************************************************************************)
(* Snapshots go the oldest first: when finishing a request drops the       *)
(* finished snapshot of another, all that were finished or hit earlier go  *)
(* with it, the request's own goes last, and no more go than the cap asks. *)
(***************************************************************************)
EvictsOldestFirst ==
  [][\A r, o \in Req :
       o \in rc.finished /\ MarkFinished(r) /\ EnablePrefixCaching /\ o \notin rc'.finished
       => /\ \A e \in rc.finished \ {r} : <<e, o>> \in rc.older \/ o = r => e \notin rc'.finished
          /\ rc'.snapshots[o] = None
          /\ Cardinality(rc'.finished) = rc.cap]_rc

(***************************************************************************)
(* Finishing a request leaves no more finished snapshots than the cap, even *)
(* one lowered since the last request finished, and without prefix caching *)
(* none of the request itself.                                             *)
(***************************************************************************)
FinishRespectsCap ==
  [][\A r \in Req : MarkFinished(r) =>
       IF EnablePrefixCaching THEN Cardinality(rc'.finished) <= rc.cap
       ELSE rc'.snapshots[r] = None]_rc
=============================================================================
