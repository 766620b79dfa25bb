-------------------------- MODULE RuntimeCacheProofs --------------------------
(***************************************************************************)
(* What the methods of the manager do to any manager: each keeps managers  *)
(* well typed, slots matched, the LRU ordered and the index current, and   *)
(* eviction drops the oldest.  Whoever calls them, in whatever order,      *)
(* composes these lemmas.                                                  *)
(***************************************************************************)
EXTENDS RuntimeCache, FiniteSetTheorems, WellFoundedInduction, TLAPS

-----------------------------------------------------------------------------
(* Types.                                                                  *)

LEMMA IndexOfType ==
  ASSUME NEW P, NEW f \in [Req -> P \cup {None}]
  PROVE  IndexOf(f) \in [Req -> {IndexBlocks(p) : p \in P} \cup {None}]
BY DEF IndexOf

LEMMA RebuildType ==
  ASSUME NEW P, NEW C, NEW m \in Managers(P, C)
  PROVE  RebuildSnapshotIndex(m) \in Managers(P, C)
BY IndexOfType DEF RebuildSnapshotIndex, Managers

LEMMA ForgetType ==
  ASSUME NEW P, NEW C, NEW m \in Managers(P, C), NEW R
  PROVE  Forget(m, R) \in Managers(P, C)
BY DEF Forget, Managers

LEMMA MoveToEndType ==
  ASSUME NEW P, NEW C, NEW m \in Managers(P, C), NEW r \in Req
  PROVE  MoveToEnd(m, r) \in Managers(P, C)
<1> DEFINE others == Forget(m, {r})
<1>1. others \in Managers(P, C)
  BY ForgetType
<1>2. [others EXCEPT !.finished = @ \cup {r},
                     !.older = @ \cup (others.finished \X {r})] \in Managers(P, C)
  BY <1>1 DEF Managers
<1> QED
  BY <1>2 DEF MoveToEnd

LEMMA ObserveType ==
  ASSUME NEW P, NEW C, NEW m \in Managers(P, C), NEW r \in Req, NEW blocks
  PROVE  ObserveRequestBlocks(m, r, blocks) \in Managers(P, C)
BY DEF ObserveRequestBlocks, Managers

LEMMA StoreType ==
  ASSUME NEW P, NEW C, NEW m \in Managers(P, C), NEW r \in Req, NEW s \in P
  PROVE  StoreSnapshot(m, r, s) \in Managers(P, C)
<1> DEFINE stored == [Forget(m, {r}) EXCEPT !.snapshots[r] = s]
<1>0. Forget(m, {r}) \in Managers(P, C)
  BY ForgetType
<1>1. stored \in Managers(P, C)
  BY <1>0 DEF Managers
<1> HIDE DEF stored
<1>2. (IF s.hashes = None THEN ObserveRequestBlocks(stored, r, s.blocks) ELSE stored)
        \in Managers(P, C)
  BY <1>1, ObserveType
<1>3. StoreSnapshot(m, r, s) =
        RebuildSnapshotIndex(
          IF s.hashes = None THEN ObserveRequestBlocks(stored, r, s.blocks) ELSE stored)
  BY DEF StoreSnapshot, stored
<1> QED
  BY <1>2, <1>3, RebuildType

LEMMA RemoveType ==
  ASSUME NEW P, NEW C, NEW m \in Managers(P, C), NEW R
  PROVE  RemoveSnapshots(m, R) \in Managers(P, C)
<1> DEFINE dropped == [Forget(m, R) EXCEPT
                         !.snapshots = [r \in Req |-> IF r \in R THEN None ELSE @[r]]]
<1>0. Forget(m, R) \in Managers(P, C)
  BY ForgetType
<1>1. dropped \in Managers(P, C)
  BY <1>0 DEF Managers
<1>2. RebuildSnapshotIndex(dropped) \in Managers(P, C)
  BY <1>1, RebuildType
<1> QED
  BY <1>1, <1>2 DEF RemoveSnapshots

LEMMA MarkFinishedType ==
  ASSUME NEW P, NEW C, NEW m \in Managers(P, C), NEW r \in Req
  PROVE  MarkSnapshotFinished(m, r) \in Managers(P, C)
<1>1. TouchFinishedSnapshot(m, r) \in Managers(P, C)
  BY MoveToEndType DEF TouchFinishedSnapshot
<1>2. EvictOldFinishedSnapshots(TouchFinishedSnapshot(m, r)) \in Managers(P, C)
  BY <1>1, RemoveType DEF EvictOldFinishedSnapshots
<1> QED
  BY <1>2, RemoveType DEF MarkSnapshotFinished, RemoveSnapshot

LEMMA ResetSlotsType ==
  ASSUME NEW P, NEW C, NEW m \in Managers(P, C), NEW size \in 0 .. MaxSlots
  PROVE  ResetSlots(m, size) \in Managers(P, C)
<1>1. 0 .. size - 1 \in SUBSET Slot
  BY SlotAssumption DEF Slot
<1> QED
  BY <1>1 DEF ResetSlots, Managers

\* A nonempty set of naturals has a least one.
LEMMA LeastNatural ==
  ASSUME NEW N \in SUBSET Nat, N # {}
  PROVE  \E n \in N : \A k \in N : n <= k
<1> DEFINE Less == {ss \in Nat \X Nat : ss[1] < ss[2]}
<1>1. IsWellFoundedOn(Less, Nat)
  BY NatLessThanWellFounded DEF OpToRel
<1> HIDE DEF Less
<1>2. PICK n \in N : \A k \in N : <<k, n>> \notin Less
  BY <1>1, WFMin
<1>3. \A k \in N : ~ (k < n)
  BY <1>2 DEF Less
<1> QED
  BY <1>3

LEMMA MaxOfIs ==
  ASSUME NEW N \in Nat, NEW S \in SUBSET (0 .. N), S # {}
  PROVE  MaxOf(S) \in S /\ \A n \in S : n <= MaxOf(S)
<1> DEFINE room == {N - n : n \in S}
<1>1. room \in SUBSET Nat /\ room # {}
  <2>1. \A n \in S : n \in Nat /\ n <= N
    OBVIOUS
  <2>2. \A n \in S : N - n \in Nat
    BY <2>1
  <2> QED BY <2>2
<1>2. PICK k \in room : \A j \in room : k <= j
  BY <1>1, LeastNatural
<1>3. PICK m \in S : k = N - m
  OBVIOUS
<1>4. \A n \in S : n <= m
  <2> TAKE n \in S
  <2>1. N - n \in room
    OBVIOUS
  <2>2. k <= N - n
    BY <1>2, <2>1
  <2>3. m \in 0 .. N /\ n \in 0 .. N
    OBVIOUS
  <2> QED BY <1>3, <2>2, <2>3
<1> QED BY <1>4 DEF MaxOf

(***************************************************************************)
(* The choice of a slot is defined: a nonempty set has a slot that is      *)
(* least by any measure, and so has the set of those.                      *)
(***************************************************************************)
LEMMA LeastByNonempty ==
  ASSUME NEW S \in SUBSET Slot, S # {}, NEW f \in [Slot -> Nat]
  PROVE  LeastBy(S, f) \in SUBSET S /\ LeastBy(S, f) # {}
<1> DEFINE values == {f[s] : s \in S}
<1>1. values \in SUBSET Nat /\ values # {}
  OBVIOUS
<1>2. PICK n \in values : \A k \in values : n <= k
  BY <1>1, LeastNatural
<1>3. PICK s \in S : f[s] = n
  BY <1>2
<1> QED
  BY <1>2, <1>3 DEF LeastBy

LEMMA CardLoadType ==
  ASSUME NEW m, NEW card
  PROVE  CardLoad(m, card) \in Nat
<1> DEFINE held == {s \in Slot : m.slot_to_req[s] # None /\ SlotCard(s) = card}
<1>1. IsFiniteSet(Slot)
  BY FS_Interval, SlotAssumption DEF Slot
<1>2. IsFiniteSet(held)
  BY <1>1, FS_Subset
<1> QED
  BY <1>2, FS_CardinalityType DEF CardLoad

LEMMA ChooseFreeSlotIsFree ==
  ASSUME NEW P, NEW C, NEW m \in Managers(P, C), m.free_slots # {}, NEW rank \in [Slot -> Nat \X Nat]
  PROVE  ChooseFreeSlot(m, rank) \in m.free_slots
<1> DEFINE load     == [s \in Slot |-> CardLoad(m, SlotCard(s))]
           first    == [s \in Slot |-> rank[s][1]]
           second   == [s \in Slot |-> rank[s][2]]
           idle     == LeastBy(m.free_slots, load)
           some     == LeastBy(idle, first)
           cheapest == LeastBy(some, second)
<1>1. load \in [Slot -> Nat] /\ first \in [Slot -> Nat] /\ second \in [Slot -> Nat]
  BY CardLoadType
<1>2. m.free_slots \in SUBSET Slot
  BY DEF Managers
<1> HIDE DEF load, first, second
<1>3. idle \in SUBSET m.free_slots /\ idle # {}
  BY <1>1, <1>2, LeastByNonempty
<1>4. some \in SUBSET idle /\ some # {}
  BY <1>1, <1>2, <1>3, LeastByNonempty
<1>5. cheapest \in SUBSET some /\ cheapest # {}
  BY <1>1, <1>2, <1>3, <1>4, LeastByNonempty
<1> HIDE DEF idle, some, cheapest
<1>6. cheapest \in SUBSET Nat
  BY <1>2, <1>3, <1>4, <1>5, SlotAssumption DEF Slot
<1>7. PICK least \in cheapest : \A t \in cheapest : least <= t
  BY <1>5, <1>6, LeastNatural
<1>8. (CHOOSE s \in cheapest : \A t \in cheapest : s <= t) \in cheapest
  BY <1>7
<1>9. ChooseFreeSlot(m, rank) = CHOOSE s \in cheapest : \A t \in cheapest : s <= t
  BY DEF ChooseFreeSlot, cheapest, some, idle, load, first, second
<1> QED
  BY <1>3, <1>4, <1>5, <1>8, <1>9

LEMMA AssignedSlotIsFree ==
  ASSUME NEW P, NEW C, NEW m \in Managers(P, C), NEW r \in Req, NEW prefixSlot,
         NEW rank \in [Slot -> Nat \X Nat],
         CanAssignSlot(m, r), m.req_to_slot[r] = None
  PROVE  AssignedSlot(m, r, prefixSlot, rank) \in m.free_slots
BY ChooseFreeSlotIsFree DEF AssignedSlot, CanAssignSlot

LEMMA AssignType ==
  ASSUME NEW P, NEW C, NEW m \in Managers(P, C), NEW r \in Req, NEW prefixSlot,
         NEW rank \in [Slot -> Nat \X Nat], CanAssignSlot(m, r)
  PROVE  AssignSlot(m, r, prefixSlot, rank) \in Managers(P, C)
<1>1. CASE m.req_to_slot[r] # None
  BY <1>1 DEF AssignSlot
<1>2. CASE m.req_to_slot[r] = None
  <2> DEFINE slot == AssignedSlot(m, r, prefixSlot, rank)
  <2>1. slot \in Slot
    BY <1>2, AssignedSlotIsFree DEF Managers
  <2> HIDE DEF slot
  <2>2. TakeSlot(m, r, slot) \in Managers(P, C)
    BY <2>1 DEF TakeSlot, Managers
  <2> QED
    BY <1>2, <2>2 DEF AssignSlot, slot
<1> QED
  BY <1>1, <1>2

LEMMA ReleaseType ==
  ASSUME NEW P, NEW C, NEW m \in Managers(P, C), NEW r \in Req
  PROVE  ReleaseSlot(m, r) \in Managers(P, C)
BY DEF ReleaseSlot, Managers

LEMMA NewManagerType ==
  ASSUME NEW P, NEW C, NEW size \in 0 .. MaxSlots, NEW cap \in C
  PROVE  NewManager(size, cap) \in Managers(P, C)
<1>1. 0 .. size - 1 \in SUBSET Slot
  BY SlotAssumption DEF Slot
<1> QED
  BY <1>1 DEF NewManager, Managers

LEMMA ResetType ==
  ASSUME NEW P, NEW C, NEW m \in Managers(P, C)
  PROVE  ResetManager(m) \in Managers(P, C)
<1> DEFINE cleared == [m EXCEPT !.snapshots = [r \in Req |-> None],
                                !.index = [r \in Req |-> None],
                                !.finished = {}, !.older = {},
                                !.owner = [b \in Block |-> None]]
<1>1. cleared \in Managers(P, C) /\ m.max_batch_size \in 0 .. MaxSlots
  BY DEF Managers
<1> HIDE DEF cleared
<1>2. ResetSlots(cleared, m.max_batch_size) \in Managers(P, C)
  BY <1>1, ResetSlotsType
<1> QED
  BY <1>2 DEF ResetManager, cleared

-----------------------------------------------------------------------------
(* Slots.                                                                  *)

\* No method but these touches a field the slots are kept in.
SameSlots(m, n) ==
  /\ m.req_to_slot = n.req_to_slot /\ m.slot_to_req = n.slot_to_req
  /\ m.free_slots = n.free_slots /\ m.max_batch_size = n.max_batch_size

LEMMA RemoveSameSlots ==
  ASSUME NEW P, NEW C, NEW m \in Managers(P, C), NEW R
  PROVE  SameSlots(m, RemoveSnapshots(m, R))
BY DEF RemoveSnapshots, RebuildSnapshotIndex, Forget, SameSlots, Managers

LEMMA MoveToEndSameSlots ==
  ASSUME NEW P, NEW C, NEW m \in Managers(P, C), NEW r \in Req
  PROVE  SameSlots(m, MoveToEnd(m, r))
BY DEF MoveToEnd, Forget, SameSlots, Managers

LEMMA MarkFinishedSameSlots ==
  ASSUME NEW P, NEW C, NEW m \in Managers(P, C), NEW r \in Req
  PROVE  SameSlots(m, MarkSnapshotFinished(m, r))
<1> DEFINE touched == TouchFinishedSnapshot(m, r)
<1>1. touched \in Managers(P, C) /\ SameSlots(m, touched)
  BY MoveToEndType, MoveToEndSameSlots DEF TouchFinishedSnapshot, SameSlots
<1> HIDE DEF touched
<1>2. SameSlots(touched, EvictOldFinishedSnapshots(touched))
  BY <1>1, RemoveSameSlots DEF EvictOldFinishedSnapshots
<1>3. SameSlots(m, EvictOldFinishedSnapshots(touched))
  BY <1>1, <1>2 DEF SameSlots
<1> QED
  BY <1>3, RemoveSameSlots DEF MarkSnapshotFinished, RemoveSnapshot, touched

LEMMA StoreSameSlots ==
  ASSUME NEW P, NEW C, NEW m \in Managers(P, C), NEW r \in Req, NEW s \in P
  PROVE  SameSlots(m, StoreSnapshot(m, r, s))
BY DEF StoreSnapshot, ObserveRequestBlocks, RebuildSnapshotIndex, Forget, SameSlots, Managers

LEMMA SameSlotsMatch ==
  ASSUME NEW m, NEW n, SameSlots(m, n), SlotsMatch(m)
  PROVE  SlotsMatch(n)
BY DEF SameSlots, SlotsMatch

LEMMA AssignSlotsMatch ==
  ASSUME NEW P, NEW C, NEW m \in Managers(P, C), SlotsMatch(m), NEW r \in Req, NEW prefixSlot,
         NEW rank \in [Slot -> Nat \X Nat], CanAssignSlot(m, r)
  PROVE  SlotsMatch(AssignSlot(m, r, prefixSlot, rank))
<1>1. CASE m.req_to_slot[r] # None
  BY <1>1 DEF AssignSlot
<1>2. CASE m.req_to_slot[r] = None
  <2> DEFINE slot == AssignedSlot(m, r, prefixSlot, rank)
             n    == TakeSlot(m, r, slot)
  <2>1. slot \in m.free_slots
    BY <1>2, AssignedSlotIsFree
  <2>2. /\ slot \in Slot /\ slot \in 0 .. m.max_batch_size - 1
        /\ m.slot_to_req[slot] = None
    BY <2>1 DEF Managers, SlotsMatch
  <2> HIDE DEF slot
  <2>3. /\ n.req_to_slot = [m.req_to_slot EXCEPT ![r] = slot]
        /\ n.slot_to_req = [m.slot_to_req EXCEPT ![slot] = r]
        /\ n.free_slots = m.free_slots \ {slot}
        /\ n.max_batch_size = m.max_batch_size
    BY DEF TakeSlot, Managers
  <2> HIDE DEF n
  <2>4. \A q \in Req, s \in Slot : n.req_to_slot[q] = s <=> n.slot_to_req[s] = q
    <3>1. /\ m.req_to_slot \in [Req -> Slot \cup {None}]
          /\ m.slot_to_req \in [Slot -> Req \cup {None}]
          /\ \A q \in Req, s \in Slot : m.req_to_slot[q] = s <=> m.slot_to_req[s] = q
      BY DEF SlotsMatch, Managers
    <3>2. None \notin Req /\ None \notin Slot
      BY NoneAssumption DEF Slot
    <3> QED
      BY <1>2, <2>2, <2>3, <3>1, <3>2
  <2>5. n.free_slots = {s \in 0 .. n.max_batch_size - 1 : n.slot_to_req[s] = None}
    <3>1. \A s \in 0 .. m.max_batch_size - 1 : s \in Slot
      BY SlotAssumption DEF Managers, Slot
    <3> QED
      BY <2>2, <2>3, <3>1, NoneAssumption DEF SlotsMatch, Managers
  <2>6. \A s \in Slot : n.slot_to_req[s] # None => s < n.max_batch_size
    BY <2>2, <2>3 DEF SlotsMatch, Managers
  <2>7. SlotsMatch(n)
    BY <2>4, <2>5, <2>6 DEF SlotsMatch
  <2> QED
    BY <1>2, <2>7 DEF AssignSlot, slot, n
<1> QED
  BY <1>1, <1>2

LEMMA ReleaseSlotsMatch ==
  ASSUME NEW P, NEW C, NEW m \in Managers(P, C), SlotsMatch(m), NEW r \in Req
  PROVE  SlotsMatch(ReleaseSlot(m, r))
<1>1. CASE m.req_to_slot[r] = None
  BY <1>1 DEF ReleaseSlot
<1>2. CASE m.req_to_slot[r] # None
  <2> DEFINE slot == m.req_to_slot[r]
             n    == ReleaseSlot(m, r)
  <2>1. slot \in Slot /\ m.slot_to_req[slot] = r /\ slot < m.max_batch_size
    BY <1>2, NoneAssumption DEF Managers, SlotsMatch
  <2>2. /\ n.req_to_slot = [m.req_to_slot EXCEPT ![r] = None]
        /\ n.slot_to_req = [m.slot_to_req EXCEPT ![slot] = None]
        /\ n.free_slots = m.free_slots \cup {slot}
        /\ n.max_batch_size = m.max_batch_size
    BY <1>2, <2>1 DEF ReleaseSlot, Managers
  <2> HIDE DEF n
  <2>3. \A q \in Req, s \in Slot : n.req_to_slot[q] = s <=> n.slot_to_req[s] = q
    <3>1. /\ m.req_to_slot \in [Req -> Slot \cup {None}]
          /\ m.slot_to_req \in [Slot -> Req \cup {None}]
          /\ \A q \in Req, s \in Slot : m.req_to_slot[q] = s <=> m.slot_to_req[s] = q
      BY DEF SlotsMatch, Managers
    <3>2. None \notin Req /\ None \notin Slot
      BY NoneAssumption DEF Slot
    <3> QED
      BY <2>1, <2>2, <3>1, <3>2
  <2>4. n.free_slots = {s \in 0 .. n.max_batch_size - 1 : n.slot_to_req[s] = None}
    <3>1. \A s \in 0 .. m.max_batch_size - 1 : s \in Slot
      BY SlotAssumption DEF Managers, Slot
    <3>2. slot \in 0 .. m.max_batch_size - 1
      BY <2>1, SlotAssumption DEF Managers, Slot
    <3> QED
      BY <2>1, <2>2, <3>1, <3>2, NoneAssumption DEF SlotsMatch, Managers
  <2>5. \A s \in Slot : n.slot_to_req[s] # None => s < n.max_batch_size
    BY <2>1, <2>2 DEF SlotsMatch, Managers
  <2> QED
    BY <2>3, <2>4, <2>5 DEF SlotsMatch, n
<1> QED
  BY <1>1, <1>2

LEMMA FreshSlotsMatch ==
  ASSUME NEW m, NEW size \in 0 .. MaxSlots,
         m.req_to_slot = [r \in Req |-> None], m.slot_to_req = [s \in Slot |-> None],
         m.free_slots = 0 .. size - 1, m.max_batch_size = size
  PROVE  SlotsMatch(m)
<1>1. 0 .. size - 1 \subseteq Slot
  BY SlotAssumption DEF Slot
<1> QED
  BY <1>1, NoneAssumption DEF SlotsMatch, Slot

LEMMA ResetSlotsFields ==
  ASSUME NEW P, NEW C, NEW m \in Managers(P, C), NEW size \in 0 .. MaxSlots
  PROVE  LET n == ResetSlots(m, size)
         IN  /\ n.req_to_slot = [r \in Req |-> None]
             /\ n.slot_to_req = [s \in Slot |-> None]
             /\ n.free_slots = 0 .. size - 1 /\ n.max_batch_size = size
BY DEF ResetSlots, Managers

LEMMA ResetFields ==
  ASSUME NEW P, NEW C, NEW m \in Managers(P, C)
  PROVE  LET n == ResetManager(m)
         IN  /\ n.req_to_slot = [r \in Req |-> None]
             /\ n.slot_to_req = [s \in Slot |-> None]
             /\ n.free_slots = 0 .. m.max_batch_size - 1
             /\ n.max_batch_size = m.max_batch_size
             /\ n.finished = {} /\ n.older = {}
             /\ n.snapshots = [r \in Req |-> None] /\ n.index = [r \in Req |-> None]
BY DEF ResetManager, ResetSlots, Managers

-----------------------------------------------------------------------------
(* The LRU and the index.                                                  *)

\* Taking entries out of an order leaves an order, with or without the
\* snapshots they stand for.
LEMMA ForgetOrders ==
  ASSUME NEW P, NEW C, NEW m \in Managers(P, C), NEW n \in Managers(P, C),
         LruOrdersSnapshots(m), NEW R,
         n.finished = m.finished \ R,
         n.older = {p \in m.older : p[1] \notin R /\ p[2] \notin R},
         \A r \in n.finished : n.snapshots[r] = m.snapshots[r]
  PROVE  LruOrdersSnapshots(n)
BY DEF LruOrdersSnapshots

LEMMA MoveToEndOrders ==
  ASSUME NEW P, NEW C, NEW m \in Managers(P, C), LruOrdersSnapshots(m), NEW r \in Req, m.snapshots[r] # None
  PROVE  LruOrdersSnapshots(MoveToEnd(m, r))
<1> DEFINE n == MoveToEnd(m, r)
<1>1. /\ n.finished = (m.finished \ {r}) \cup {r}
      /\ n.older = {p \in m.older : p[1] # r /\ p[2] # r} \cup ((m.finished \ {r}) \X {r})
      /\ n.snapshots = m.snapshots
  BY DEF MoveToEnd, Forget, Managers
<1> HIDE DEF n
<1>2. \A a, b : <<a, b>> \in n.older
                 <=> \/ <<a, b>> \in m.older /\ a # r /\ b # r
                     \/ a \in m.finished /\ a # r /\ b = r
  BY <1>1
<1>3. \A a : a \in n.finished <=> a \in m.finished \/ a = r
  BY <1>1
<1>4. n.older \subseteq n.finished \X n.finished
  BY <1>1 DEF LruOrdersSnapshots
<1>5. \A a \in n.finished : n.snapshots[a] # None
  BY <1>1 DEF LruOrdersSnapshots
<1>6. \A a, b \in n.finished : a # b => (<<a, b>> \in n.older <=> <<b, a>> \notin n.older)
  BY ZenonT(30), <1>2, <1>3 DEF LruOrdersSnapshots
<1>7. \A a \in n.finished : <<a, a>> \notin n.older
  BY <1>2, <1>3 DEF LruOrdersSnapshots
<1>8. \A a, b, c \in n.finished :
         <<a, b>> \in n.older /\ <<b, c>> \in n.older => <<a, c>> \in n.older
  BY <1>2, <1>3 DEF LruOrdersSnapshots
<1> QED
  BY <1>4, <1>5, <1>6, <1>7, <1>8 DEF LruOrdersSnapshots, n

LEMMA RemoveFields ==
  ASSUME NEW P, NEW C, NEW m \in Managers(P, C), NEW R
  PROVE  /\ RemoveSnapshots(m, R).finished = m.finished \ R
         /\ RemoveSnapshots(m, R).older = {p \in m.older : p[1] \notin R /\ p[2] \notin R}
         /\ \A q \in Req : RemoveSnapshots(m, R).snapshots[q] =
                            IF q \in R THEN None ELSE m.snapshots[q]
         /\ RemoveSnapshots(m, R).cap = m.cap
BY DEF RemoveSnapshots, RebuildSnapshotIndex, Forget, Managers

LEMMA RemoveOrders ==
  ASSUME NEW P, NEW C, NEW m \in Managers(P, C), LruOrdersSnapshots(m), NEW R
  PROVE  LruOrdersSnapshots(RemoveSnapshots(m, R))
<1> DEFINE n == RemoveSnapshots(m, R)
<1>1. n \in Managers(P, C)
  BY RemoveType
<1>2. /\ n.finished = m.finished \ R
      /\ n.older = {p \in m.older : p[1] \notin R /\ p[2] \notin R}
      /\ \A q \in Req : n.snapshots[q] = IF q \in R THEN None ELSE m.snapshots[q]
  BY RemoveFields
<1> HIDE DEF n
<1>3. m.finished \subseteq Req
  BY DEF Managers
<1>4. \A r \in n.finished : n.snapshots[r] = m.snapshots[r]
  BY <1>2, <1>3
<1> QED
  BY <1>1, <1>2, <1>4, ForgetOrders DEF n

LEMMA RemoveIndexMatches ==
  ASSUME NEW P, NEW C, NEW m \in Managers(P, C), IndexMatches(m), NEW R \in SUBSET Req
  PROVE  IndexMatches(RemoveSnapshots(m, R))
<1> DEFINE n == RemoveSnapshots(m, R)
<1>0. /\ n.snapshots = [r \in Req |-> IF r \in R THEN None ELSE m.snapshots[r]]
      /\ n.index = IF \E r \in R : m.snapshots[r] # None THEN IndexOf(n.snapshots) ELSE m.index
  BY DEF RemoveSnapshots, RebuildSnapshotIndex, Forget, Managers
<1> HIDE DEF n
<1>1. CASE \E r \in R : m.snapshots[r] # None
  BY <1>0, <1>1 DEF IndexMatches, n
<1>2. CASE ~ \E r \in R : m.snapshots[r] # None
  <2>1. n.snapshots = m.snapshots
    BY <1>0, <1>2 DEF Managers
  <2>2. n.index = m.index
    BY <1>0, <1>2
  <2> QED
    BY <2>1, <2>2 DEF IndexMatches, n
<1> QED
  BY <1>1, <1>2

LEMMA StoreFields ==
  ASSUME NEW P, NEW C, NEW m \in Managers(P, C), NEW r \in Req, NEW s \in P
  PROVE  /\ StoreSnapshot(m, r, s).finished = m.finished \ {r}
         /\ StoreSnapshot(m, r, s).older = {p \in m.older : p[1] \notin {r} /\ p[2] \notin {r}}
         /\ \A q \in Req : StoreSnapshot(m, r, s).snapshots[q] =
                            IF q = r THEN s ELSE m.snapshots[q]
         /\ StoreSnapshot(m, r, s).cap = m.cap
BY DEF StoreSnapshot, ObserveRequestBlocks, RebuildSnapshotIndex, Forget, Managers

LEMMA StoreIndexMatches ==
  ASSUME NEW P, NEW C, NEW m \in Managers(P, C), NEW r \in Req, NEW s \in P
  PROVE  IndexMatches(StoreSnapshot(m, r, s))
<1> DEFINE stored == [Forget(m, {r}) EXCEPT !.snapshots[r] = s]
           seen   == IF s.hashes = None THEN ObserveRequestBlocks(stored, r, s.blocks)
                     ELSE stored
<1>0. Forget(m, {r}) \in Managers(P, C)
  BY ForgetType
<1>1. stored \in Managers(P, C)
  BY <1>0 DEF Managers
<1> HIDE DEF stored
<1>2. seen \in Managers(P, C)
  BY <1>1, ObserveType
<1>3. StoreSnapshot(m, r, s) = RebuildSnapshotIndex(seen)
  BY DEF StoreSnapshot, stored
<1> HIDE DEF seen
<1>4. IndexMatches(RebuildSnapshotIndex(seen))
  BY <1>2 DEF RebuildSnapshotIndex, IndexMatches, Managers
<1> QED
  BY <1>3, <1>4

LEMMA StoreOrders ==
  ASSUME NEW P, NEW C, NEW m \in Managers(P, C), LruOrdersSnapshots(m), NEW r \in Req, NEW s \in P
  PROVE  LruOrdersSnapshots(StoreSnapshot(m, r, s))
<1> DEFINE n == StoreSnapshot(m, r, s)
<1>1. n \in Managers(P, C)
  BY StoreType
<1>2. /\ n.finished = m.finished \ {r}
      /\ n.older = {p \in m.older : p[1] \notin {r} /\ p[2] \notin {r}}
      /\ \A q \in Req : n.snapshots[q] = IF q = r THEN s ELSE m.snapshots[q]
  BY StoreFields
<1> HIDE DEF n
<1>3. \A q \in n.finished : n.snapshots[q] = m.snapshots[q]
  BY <1>2 DEF Managers
<1>4. LruOrdersSnapshots(n)
  BY <1>1, <1>2, <1>3 DEF LruOrdersSnapshots
<1> QED
  BY <1>4 DEF n

LEMMA TouchKeeps ==
  ASSUME NEW P, NEW C, NEW m \in Managers(P, C), NEW r \in Req
  PROVE  /\ TouchFinishedSnapshot(m, r) \in Managers(P, C)
         /\ LruOrdersSnapshots(m) => LruOrdersSnapshots(TouchFinishedSnapshot(m, r))
         /\ IndexMatches(m) => IndexMatches(TouchFinishedSnapshot(m, r))
<1>1. IndexMatches(m) => IndexMatches(MoveToEnd(m, r))
  BY DEF MoveToEnd, Forget, IndexMatches, Managers
<1> QED
  BY <1>1, MoveToEndType, MoveToEndOrders DEF TouchFinishedSnapshot

LEMMA RefreshKeeps ==
  ASSUME NEW P, NEW C, NEW m \in Managers(P, C), NEW r \in Req
  PROVE  /\ LruOrdersSnapshots(m) => LruOrdersSnapshots(RefreshSnapshotRecency(m, r))
         /\ IndexMatches(m) => IndexMatches(RefreshSnapshotRecency(m, r))
<1>1. IndexMatches(m) => IndexMatches(MoveToEnd(m, r))
  BY DEF MoveToEnd, Forget, IndexMatches, Managers
<1>2. LruOrdersSnapshots(m) /\ r \in m.finished => LruOrdersSnapshots(MoveToEnd(m, r))
  BY MoveToEndOrders DEF LruOrdersSnapshots
<1> QED
  BY <1>1, <1>2 DEF RefreshSnapshotRecency

LEMMA EvictKeeps ==
  ASSUME NEW P, NEW C, NEW m \in Managers(P, C)
  PROVE  /\ LruOrdersSnapshots(m) => LruOrdersSnapshots(EvictOldFinishedSnapshots(m))
         /\ IndexMatches(m) => IndexMatches(EvictOldFinishedSnapshots(m))
<1>1. OldestFinished(m, Cardinality(m.finished) - m.cap) \subseteq Req
  BY DEF OldestFinished, Managers
<1> QED
  BY <1>1, RemoveOrders, RemoveIndexMatches DEF EvictOldFinishedSnapshots

LEMMA MarkFinishedKeeps ==
  ASSUME NEW P, NEW C, NEW m \in Managers(P, C), NEW r \in Req
  PROVE  /\ LruOrdersSnapshots(m) => LruOrdersSnapshots(MarkSnapshotFinished(m, r))
         /\ IndexMatches(m) => IndexMatches(MarkSnapshotFinished(m, r))
BY TouchKeeps, EvictKeeps, RemoveOrders, RemoveIndexMatches
   DEF MarkSnapshotFinished, RemoveSnapshot

\* The fields the two properties read are the same in both managers.
SameSnapshots(m, n) ==
  /\ m.snapshots = n.snapshots /\ m.index = n.index
  /\ m.finished = n.finished /\ m.older = n.older

LEMMA SameSnapshotsKeep ==
  ASSUME NEW m, NEW n, SameSnapshots(m, n)
  PROVE  /\ LruOrdersSnapshots(m) => LruOrdersSnapshots(n)
         /\ IndexMatches(m) => IndexMatches(n)
BY DEF SameSnapshots, LruOrdersSnapshots, IndexMatches

LEMMA SlotMethodsKeep ==
  ASSUME NEW P, NEW C, NEW m \in Managers(P, C), NEW r \in Req, NEW slot, NEW rank, NEW blocks
  PROVE  /\ SameSnapshots(m, AssignSlot(m, r, slot, rank))
         /\ SameSnapshots(m, ReleaseSlot(m, r))
         /\ SameSnapshots(m, ObserveRequestBlocks(m, r, blocks))
<1>1. SameSnapshots(m, AssignSlot(m, r, slot, rank))
  BY DEF AssignSlot, TakeSlot, SameSnapshots, Managers
<1>2. SameSnapshots(m, ReleaseSlot(m, r))
  BY DEF ReleaseSlot, SameSnapshots, Managers
<1>3. SameSnapshots(m, ObserveRequestBlocks(m, r, blocks))
  BY DEF ObserveRequestBlocks, SameSnapshots, Managers
<1> QED
  BY <1>1, <1>2, <1>3

LEMMA EmptyKeeps ==
  ASSUME NEW m, m.finished = {}, m.older = {},
         m.snapshots = [r \in Req |-> None], m.index = [r \in Req |-> None]
  PROVE  LruOrdersSnapshots(m) /\ IndexMatches(m)
BY DEF LruOrdersSnapshots, IndexMatches, IndexOf

-----------------------------------------------------------------------------
(* Eviction.                                                               *)

StrictOrder(F, L) ==
  /\ \A r, s \in F : r # s => (<<r, s>> \in L <=> <<s, r>> \notin L)
  /\ \A r \in F : <<r, r>> \notin L
  /\ \A r, s, t \in F : <<r, s>> \in L /\ <<s, t>> \in L => <<r, t>> \in L

Age(F, L, r) == Cardinality({o \in F : <<o, r>> \in L})

LEMMA AgeType ==
  ASSUME NEW F, IsFiniteSet(F), NEW L, NEW r
  PROVE  Age(F, L, r) \in Nat
<1> DEFINE before == {o \in F : <<o, r>> \in L}
<1>1. IsFiniteSet(before)
  BY FS_Subset
<1> QED
  BY <1>1, FS_CardinalityType DEF Age

\* Who comes later is older by age.
LEMMA AgesAreOrdered ==
  ASSUME NEW F, IsFiniteSet(F), NEW L, StrictOrder(F, L),
         NEW e \in F, NEW o \in F, <<e, o>> \in L
  PROVE  Age(F, L, e) < Age(F, L, o)
<1> DEFINE a == {x \in F : <<x, e>> \in L}
           b == {x \in F : <<x, o>> \in L}
<1>1. IsFiniteSet(b) /\ a \subseteq b /\ e \in b /\ e \notin a
  BY FS_Subset DEF StrictOrder
<1> HIDE DEF a, b
<1>2. IsFiniteSet(a) /\ Cardinality(a) <= Cardinality(b) /\ (Cardinality(b) = Cardinality(a) => b = a)
  BY <1>1, FS_Subset
<1>3. Cardinality(a) \in Nat /\ Cardinality(b) \in Nat
  BY <1>1, <1>2, FS_CardinalityType
<1>4. Cardinality(a) < Cardinality(b)
  BY <1>1, <1>2, <1>3
<1> QED
  BY <1>4 DEF Age, a, b

\* Who is not among the n oldest leaves one whose age is n, unless there are n in all.
LEMMA NextByAge ==
  ASSUME NEW F, IsFiniteSet(F), NEW L, StrictOrder(F, L), NEW n \in Nat,
         Cardinality({r \in F : Age(F, L, r) < n}) = n, {r \in F : Age(F, L, r) < n} # F
  PROVE  \E r \in F : Age(F, L, r) = n
<1> DEFINE first == {r \in F : Age(F, L, r) < n}
           ages  == {Age(F, L, r) : r \in F \ first}
<1>1. ages \in SUBSET Nat /\ ages # {}
  BY AgeType
<1>2. PICK k \in ages : \A j \in ages : k <= j
  BY <1>1, LeastNatural
<1>3. PICK r \in F \ first : Age(F, L, r) = k
  BY <1>2
<1>4. ASSUME NEW o \in F, <<o, r>> \in L PROVE o \in first
  <2>1. Age(F, L, o) < Age(F, L, r)
    BY <1>3, <1>4, AgesAreOrdered
  <2>2. Age(F, L, o) \in Nat /\ Age(F, L, r) \in Nat
    BY AgeType
  <2>3. Age(F, L, o) \notin ages
    BY <1>2, <1>3, <2>1, <2>2
  <2> QED
    BY <2>3
<1>5. ASSUME NEW o \in first PROVE <<o, r>> \in L
  <2>1. r # o /\ Age(F, L, o) < n /\ ~(Age(F, L, r) < n)
    BY <1>3
  <2>2. Age(F, L, o) \in Nat /\ Age(F, L, r) \in Nat
    BY AgeType
  <2>3. <<r, o>> \notin L
    <3> SUFFICES ASSUME <<r, o>> \in L PROVE FALSE
      OBVIOUS
    <3>1. Age(F, L, r) < Age(F, L, o)
      BY <1>3, AgesAreOrdered
    <3> QED
      BY <2>1, <2>2, <3>1
  <2> QED
    BY <1>3, <2>1, <2>3 DEF StrictOrder
<1>6. {o \in F : <<o, r>> \in L} = first
  BY <1>4, <1>5
<1> QED
  BY <1>3, <1>6 DEF Age

\* As many are among the n oldest as asked for.
LEMMA AgesCount ==
  ASSUME NEW F, IsFiniteSet(F), NEW L, StrictOrder(F, L), NEW n \in 0 .. Cardinality(F)
  PROVE  Cardinality({r \in F : Age(F, L, r) < n}) = n
<1> DEFINE first(k) == {r \in F : Age(F, L, r) < k}
           bad == {k \in 0 .. Cardinality(F) : Cardinality(first(k)) # k}
<1>0. Cardinality(F) \in Nat
  BY FS_CardinalityType
<1> SUFFICES ASSUME bad # {} PROVE FALSE
  OBVIOUS
<1>1. bad \in SUBSET Nat
  BY <1>0
<1>2. PICK k \in bad : \A j \in bad : k <= j
  <2> HIDE DEF bad
  <2> QED
    BY <1>1, LeastNatural
<1>3. k \in Nat /\ k <= Cardinality(F) /\ Cardinality(first(k)) # k
  BY <1>0, <1>2
<1>4. k # 0
  <2>1. first(0) = {}
    BY AgeType
  <2> HIDE DEF first
  <2> QED
    BY <1>3, <2>1, FS_EmptySet
<1> DEFINE p == k - 1
<1>5. p \in Nat /\ p \in 0 .. Cardinality(F) /\ p < k /\ k = p + 1 /\ p < Cardinality(F)
  BY <1>0, <1>3, <1>4
<1> HIDE DEF p
<1>6. Cardinality(first(p)) = p
  <2>1. p \notin bad
    BY <1>2, <1>3, <1>5
  <2> QED
    BY <1>5, <2>1
<1>7. first(p) # F
  BY <1>0, <1>5, <1>6
<1>8. PICK r \in F : Age(F, L, r) = p
  BY <1>5, <1>6, <1>7, NextByAge
<1>9. first(k) = first(p) \cup {r}
  <2>1. ASSUME NEW s \in F PROVE s \in first(k) <=> s \in first(p) \/ s = r
    <3>1. Age(F, L, s) \in Nat
      BY AgeType
    <3>2. CASE s = r
      BY <1>5, <1>8, <3>2
    <3>3. CASE s # r
      <4>1. <<s, r>> \in L \/ <<r, s>> \in L
        BY <1>8, <3>3 DEF StrictOrder
      <4>2. Age(F, L, s) < p \/ p < Age(F, L, s)
        BY <1>8, <4>1, AgesAreOrdered
      <4>3. Age(F, L, s) < k <=> Age(F, L, s) < p
        BY <1>5, <3>1, <4>2
      <4> QED
        BY <3>3, <4>3
    <3> QED
      BY <3>2, <3>3
  <2>2. first(k) \subseteq F /\ first(p) \subseteq F /\ r \in F
    BY <1>8
  <2> HIDE DEF first
  <2> QED
    BY <2>1, <2>2
<1>10. r \notin first(p) /\ IsFiniteSet(first(p))
  BY <1>5, <1>8, FS_Subset
<1> HIDE DEF first
<1>11. Cardinality(first(k)) = p + 1
  BY ZenonT(30), <1>6, <1>9, <1>10, FS_AddElement
<1> QED
  BY <1>3, <1>5, <1>11

OldestOf(m) == OldestFinished(m, Cardinality(m.finished) - m.cap)

\* What an eviction takes is the oldest part, as large as the cap asks.
LEMMA EvictedAreOldest ==
  ASSUME NEW P, NEW C \in SUBSET Nat, NEW m \in Managers(P, C),
         LruOrdersSnapshots(m), IsFiniteSet(m.finished)
  PROVE  LET n == EvictOldFinishedSnapshots(m)
         IN  /\ n.finished = m.finished \ OldestOf(m) /\ IsFiniteSet(n.finished)
             /\ n.cap = m.cap
             /\ Cardinality(n.finished) <= m.cap
             /\ \A o \in m.finished : o \notin n.finished
                  => /\ n.snapshots[o] = None /\ Cardinality(n.finished) = m.cap
                     /\ \A e \in m.finished : <<e, o>> \in m.older => e \notin n.finished
<1> DEFINE n    == EvictOldFinishedSnapshots(m)
           F    == m.finished
           L    == m.older
           k    == Cardinality(F) - m.cap
           gone == OldestOf(m)
<1>1. Cardinality(F) \in Nat /\ m.cap \in Nat /\ k \in Int /\ F \subseteq Req
  <2>1. Cardinality(F) \in Nat
    BY FS_CardinalityType
  <2>2. m.cap \in Nat /\ F \subseteq Req
    BY DEF Managers
  <2> QED
    BY <2>1, <2>2
<1>2. StrictOrder(F, L)
  BY DEF LruOrdersSnapshots, StrictOrder
<1>3. gone = {r \in F : Age(F, L, r) < k}
  BY DEF OldestOf, OldestFinished, FinishedSnapshotAge, Age
<1>4. n = RemoveSnapshots(m, gone)
  BY DEF EvictOldFinishedSnapshots, OldestOf
<1>5. /\ n.finished = F \ gone
      /\ \A q \in Req : n.snapshots[q] = IF q \in gone THEN None ELSE m.snapshots[q]
  BY <1>4, RemoveFields
<1>6. n.cap = m.cap
  BY <1>4 DEF RemoveSnapshots, RebuildSnapshotIndex, Forget, Managers
<1>7. IsFiniteSet(gone) /\ IsFiniteSet(F \ gone) /\ gone \subseteq F
  BY <1>3, FS_Subset
<1> HIDE DEF n, gone
<1>8. Cardinality(F \ gone) = Cardinality(F) - Cardinality(gone)
  <2>1. F \cap gone = gone
    BY <1>7
  <2> QED
    BY <1>7, <2>1, FS_Difference
<1>9. CASE k <= 0
  <2>1. gone = {}
    BY <1>1, <1>3, <1>9, AgeType
  <2>2. n.finished = F
    BY <1>5, <2>1
  <2>3. Cardinality(F) <= m.cap
    BY <1>1, <1>9
  <2> QED
    BY <1>5, <1>6, <1>7, <2>2, <2>3 DEF n, gone
<1>10. CASE ~(k <= 0)
  <2>1. k \in 0 .. Cardinality(F)
    BY <1>1, <1>10
  <2> HIDE DEF k
  <2>2. Cardinality(gone) = k
    BY <1>2, <1>3, <2>1, AgesCount
  <2> HIDE DEF F, L
  <2>3. Cardinality(n.finished) = m.cap
    BY <1>1, <1>5, <1>8, <2>2 DEF k
  <2>4. ASSUME NEW o \in F, o \notin n.finished, NEW e \in F, <<e, o>> \in L
        PROVE  e \notin n.finished
    <3>1. o \in gone
      BY <1>5, <2>4
    <3>2. Age(F, L, e) < Age(F, L, o)
      BY <1>2, <2>4, AgesAreOrdered DEF F
    <3>3. Age(F, L, e) \in Nat /\ Age(F, L, o) \in Nat
      BY AgeType DEF F
    <3>4. Age(F, L, e) < k
      BY <1>1, <1>3, <3>1, <3>2, <3>3
    <3>5. e \in gone
      BY <1>3, <3>4
    <3> QED
      BY <1>5, <3>5
  <2>5. \A o \in F : o \notin n.finished => n.snapshots[o] = None
    BY <1>1, <1>5 DEF F
  <2>6. Cardinality(n.finished) <= m.cap
    BY <1>1, <2>3
  <2>7. IsFiniteSet(n.finished) /\ n.finished = F \ gone
    BY <1>5, <1>7
  <2> QED
    BY <1>6, <2>3, <2>4, <2>5, <2>6, <2>7, Zenon DEF n, gone, F, L
<1> QED
  BY <1>9, <1>10

LEMMA TouchFields ==
  ASSUME NEW P, NEW C, NEW m \in Managers(P, C), NEW r \in Req,
         LruOrdersSnapshots(m), IsFiniteSet(m.finished)
  PROVE  LET t == TouchFinishedSnapshot(m, r)
         IN  /\ t.cap = m.cap /\ m.finished \subseteq t.finished /\ IsFiniteSet(t.finished)
             /\ \A e, o \in m.finished :
                  e # r /\ (<<e, o>> \in m.older \/ o = r) => <<e, o>> \in t.older
<1> DEFINE t == TouchFinishedSnapshot(m, r)
<1>1. CASE m.snapshots[r] = None
  <2>1. t = m /\ r \notin m.finished
    BY <1>1 DEF TouchFinishedSnapshot, LruOrdersSnapshots
  <2> QED
    BY <2>1
<1>2. CASE m.snapshots[r] # None
  <2>1. /\ t.finished = (m.finished \ {r}) \cup {r}
        /\ t.older = {p \in m.older : p[1] # r /\ p[2] # r} \cup ((m.finished \ {r}) \X {r})
        /\ t.cap = m.cap
    BY <1>2 DEF TouchFinishedSnapshot, MoveToEnd, Forget, Managers
  <2> HIDE DEF t
  <2>2. t.finished = m.finished \cup {r}
    BY <2>1
  <2>3. IsFiniteSet(t.finished)
    BY <2>2, FS_AddElement
  <2>4. ASSUME NEW e \in m.finished, NEW o \in m.finished, e # r, <<e, o>> \in m.older \/ o = r
        PROVE  <<e, o>> \in t.older
    BY <2>1, <2>4
  <2> QED
    BY <2>1, <2>2, <2>3, <2>4 DEF t
<1> QED
  BY <1>1, <1>2

\* What finishing a request does to the finished snapshots.
LEMMA FinishEvicts ==
  ASSUME NEW P, NEW C \in SUBSET Nat, NEW m \in Managers(P, C), NEW r \in Req,
         LruOrdersSnapshots(m), IsFiniteSet(m.finished)
  PROVE  /\ IsFiniteSet(MarkSnapshotFinished(m, r).finished)
         /\ EnablePrefixCaching => Cardinality(MarkSnapshotFinished(m, r).finished) <= m.cap
         /\ ~EnablePrefixCaching => MarkSnapshotFinished(m, r).snapshots[r] = None
         /\ EnablePrefixCaching =>
              \A o \in m.finished : o \notin MarkSnapshotFinished(m, r).finished
                => /\ \A e \in m.finished \ {r} :
                        <<e, o>> \in m.older \/ o = r
                          => e \notin MarkSnapshotFinished(m, r).finished
                   /\ MarkSnapshotFinished(m, r).snapshots[o] = None
                   /\ Cardinality(MarkSnapshotFinished(m, r).finished) = m.cap
<1> DEFINE n == MarkSnapshotFinished(m, r)
<1>1. CASE ~EnablePrefixCaching
  <2>1. n = RemoveSnapshots(m, {r})
    BY <1>1 DEF MarkSnapshotFinished, RemoveSnapshot
  <2>2. n.finished = m.finished \ {r} /\ n.snapshots[r] = None
    <3>1. /\ RemoveSnapshots(m, {r}).finished = m.finished \ {r}
          /\ \A q \in Req : RemoveSnapshots(m, {r}).snapshots[q] =
                             IF q \in {r} THEN None ELSE m.snapshots[q]
      BY RemoveFields
    <3> QED
      BY <2>1, <3>1
  <2>3. IsFiniteSet(n.finished)
    BY <2>2, FS_Subset
  <2> QED
    BY <1>1, <2>2, <2>3
<1>2. CASE EnablePrefixCaching
  <2> DEFINE t == TouchFinishedSnapshot(m, r)
  <2>1. t \in Managers(P, C) /\ LruOrdersSnapshots(t)
    BY TouchKeeps
  <2>2. /\ t.cap = m.cap /\ m.finished \subseteq t.finished /\ IsFiniteSet(t.finished)
        /\ \A e, o \in m.finished :
             e # r /\ (<<e, o>> \in m.older \/ o = r) => <<e, o>> \in t.older
    BY TouchFields
  <2>3. n = EvictOldFinishedSnapshots(t)
    BY <1>2 DEF MarkSnapshotFinished
  <2> HIDE DEF t, n
  <2>4. /\ IsFiniteSet(n.finished)
        /\ Cardinality(n.finished) <= t.cap
        /\ \A o \in t.finished : o \notin n.finished
             => /\ n.snapshots[o] = None /\ Cardinality(n.finished) = t.cap
                /\ \A e \in t.finished : <<e, o>> \in t.older => e \notin n.finished
    BY <2>1, <2>2, <2>3, EvictedAreOldest
  <2>5. ASSUME NEW o \in m.finished, o \notin n.finished
        PROVE  /\ n.snapshots[o] = None /\ Cardinality(n.finished) = m.cap
               /\ \A e \in m.finished \ {r} : <<e, o>> \in m.older \/ o = r => e \notin n.finished
    <3>1. o \in t.finished
      BY <2>2
    <3>2. n.snapshots[o] = None /\ Cardinality(n.finished) = m.cap
      BY <2>2, <2>4, <2>5, <3>1
    <3>3. ASSUME NEW e \in m.finished \ {r}, <<e, o>> \in m.older \/ o = r PROVE e \notin n.finished
      <4>1. <<e, o>> \in t.older /\ e \in t.finished
        BY <2>2, <3>3
      <4> QED
        BY <2>4, <2>5, <3>1, <4>1
    <3> QED
      BY <3>2, <3>3
  <2>6. Cardinality(n.finished) <= m.cap
    BY <2>2, <2>4
  <2> QED
    BY <1>2, <2>4, <2>5, <2>6, Zenon DEF n
<1> QED
  BY <1>1, <1>2
=============================================================================
