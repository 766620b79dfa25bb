-------------------------- MODULE PrefixCacheProofs --------------------------
(***************************************************************************)
(* The prefix cache, for any requests, blocks, slots, cards, caps and      *)
(* times: the manager of the snapshots under any sequence of calls, the    *)
(* walk of its index for one request, and the cost model that says which   *)
(* snapshots are worth loading and saving. What each call does to the      *)
(* manager is in RuntimeCacheProofs; the steps here only compose calls.    *)
(***************************************************************************)
EXTENDS RuntimeCacheManager, PrefixWalk, PrefixCacheCost, RuntimeCacheProofs

-----------------------------------------------------------------------------
(* The manager.                                                            *)

(***************************************************************************)
(* The fields keep their types: in particular assign_slot always finds the *)
(* slot it looks for, whatever ranks the caller passes.                    *)
(***************************************************************************)
THEOREM TypeCorrect == Spec => []TypeOK
<1>1. Init => TypeOK
  BY NewManagerType DEF Init, TypeOK
<1>2. TypeOK /\ [Next]_rc => TypeOK'
  <2> SUFFICES ASSUME TypeOK, [Next]_rc
               PROVE  rc' \in Managers(Prefixes, Caps)
    BY DEF TypeOK
  <2> USE DEF TypeOK
  <2>1. ASSUME NEW r \in Req, NEW blocks \in BlockTables, Observe(r, blocks)
        PROVE  rc' \in Managers(Prefixes, Caps)
    BY <2>1, ObserveType DEF Observe
  <2>2. ASSUME NEW r \in Req, NEW slot \in Slot \cup {None}, NEW rank \in Ranks,
               Assign(r, slot, rank)
        PROVE  rc' \in Managers(Prefixes, Caps)
    BY <2>2, AssignType, CallsAssumption DEF Assign
  <2>3. ASSUME NEW r \in Req, Release(r)
        PROVE  rc' \in Managers(Prefixes, Caps)
    BY <2>3, ReleaseType DEF Release
  <2>4. ASSUME NEW r \in Req, Remove(r)
        PROVE  rc' \in Managers(Prefixes, Caps)
    BY <2>4, RemoveType DEF Remove, RemoveSnapshot
  <2>5. ASSUME NEW r \in Req, Refresh(r)
        PROVE  rc' \in Managers(Prefixes, Caps)
    BY <2>5, MoveToEndType DEF Refresh, RefreshSnapshotRecency
  <2>6. ASSUME NEW r \in Req, MarkFinished(r)
        PROVE  rc' \in Managers(Prefixes, Caps)
    BY <2>6, MarkFinishedType DEF MarkFinished
  <2>7. ASSUME NEW r \in Req, NEW p \in Prefixes, Store(r, p)
        PROVE  rc' \in Managers(Prefixes, Caps)
    BY <2>7, StoreType DEF Store
  <2>8. ASSUME NEW r \in Req, NEW p \in Prefixes, Choose(r, p)
        PROVE  rc' \in Managers(Prefixes, Caps)
    BY <2>8, RemoveType DEF Choose, AfterChoose, DropStale
  <2>9. ASSUME NEW size \in 0 .. MaxSlots, Resize(size)
        PROVE  rc' \in Managers(Prefixes, Caps)
    BY <2>9, ResetSlotsType DEF Resize
  <2>10. ASSUME NEW cap \in Caps, SetCap(cap)
         PROVE  rc' \in Managers(Prefixes, Caps)
    BY <2>10 DEF SetCap, Managers
  <2>11. CASE Reset
    BY <2>11, ResetType DEF Reset
  <2>12. CASE UNCHANGED rc
    BY <2>12
  <2> QED
    BY <2>1, <2>2, <2>3, <2>4, <2>5, <2>6, <2>7, <2>8, <2>9, <2>10, <2>11, <2>12 DEF Next
<1> QED
  BY <1>1, <1>2, PTL DEF Spec

(***************************************************************************)
(* Whatever is called, in whatever order: no two requests share a slot, no *)
(* slot is lost, and no slot past the batch size is given out.             *)
(***************************************************************************)
THEOREM SlotsAlwaysConsistent == Spec => []SlotsConsistent
<1>1. Init => SlotsConsistent
  <2> SUFFICES ASSUME NEW size \in 0 .. MaxSlots, NEW cap \in Caps
               PROVE  SlotsMatch(NewManager(size, cap))
    BY DEF Init, SlotsConsistent
  <2> QED
    BY FreshSlotsMatch DEF NewManager
<1>2. TypeOK /\ SlotsConsistent /\ [Next]_rc => SlotsConsistent'
  <2> SUFFICES ASSUME rc \in Managers(Prefixes, Caps), SlotsMatch(rc), [Next]_rc
               PROVE  SlotsMatch(rc')
    BY DEF TypeOK, SlotsConsistent
  <2>1. ASSUME NEW r \in Req, NEW blocks \in BlockTables, Observe(r, blocks)
        PROVE  SlotsMatch(rc')
    <3>1. SameSlots(rc, rc')
      BY <2>1 DEF Observe, ObserveRequestBlocks, SameSlots, Managers
    <3> QED
      BY <3>1, SameSlotsMatch
  <2>2. ASSUME NEW r \in Req, NEW slot \in Slot \cup {None}, NEW rank \in Ranks,
               Assign(r, slot, rank)
        PROVE  SlotsMatch(rc')
    BY <2>2, AssignSlotsMatch, CallsAssumption DEF Assign
  <2>3. ASSUME NEW r \in Req, Release(r)
        PROVE  SlotsMatch(rc')
    BY <2>3, ReleaseSlotsMatch DEF Release
  <2>4. ASSUME NEW r \in Req, Remove(r)
        PROVE  SlotsMatch(rc')
    BY <2>4, RemoveSameSlots, SameSlotsMatch DEF Remove, RemoveSnapshot
  <2>5. ASSUME NEW r \in Req, Refresh(r)
        PROVE  SlotsMatch(rc')
    BY <2>5, MoveToEndSameSlots, SameSlotsMatch DEF Refresh, RefreshSnapshotRecency
  <2>6. ASSUME NEW r \in Req, MarkFinished(r)
        PROVE  SlotsMatch(rc')
    BY <2>6, MarkFinishedSameSlots, SameSlotsMatch DEF MarkFinished
  <2>7. ASSUME NEW r \in Req, NEW p \in Prefixes, Store(r, p)
        PROVE  SlotsMatch(rc')
    BY <2>7, StoreSameSlots, SameSlotsMatch DEF Store
  <2>8. ASSUME NEW r \in Req, NEW p \in Prefixes, Choose(r, p)
        PROVE  SlotsMatch(rc')
    BY <2>8, RemoveSameSlots, SameSlotsMatch DEF Choose, AfterChoose, DropStale
  <2>9. ASSUME NEW size \in 0 .. MaxSlots, Resize(size)
        PROVE  SlotsMatch(rc')
    BY <2>9, ResetSlotsFields, FreshSlotsMatch DEF Resize
  <2>10. ASSUME NEW cap \in Caps, SetCap(cap)
         PROVE  SlotsMatch(rc')
    <3>1. SameSlots(rc, rc')
      BY <2>10 DEF SetCap, SameSlots, Managers
    <3> QED
      BY <3>1, SameSlotsMatch
  <2>11. CASE Reset
    <3>1. rc.max_batch_size \in 0 .. MaxSlots
      BY DEF Managers
    <3> QED
      BY <2>11, <3>1, ResetFields, FreshSlotsMatch DEF Reset
  <2>12. CASE UNCHANGED rc
    BY <2>12
  <2> QED
    BY <2>1, <2>2, <2>3, <2>4, <2>5, <2>6, <2>7, <2>8, <2>9, <2>10, <2>11, <2>12 DEF Next
<1> QED
  BY <1>1, <1>2, TypeCorrect, PTL DEF Spec

LEMMA InitKeeps == Init => LruIsOfSnapshots /\ IndexIsCurrent
<1> SUFFICES ASSUME NEW size \in 0 .. MaxSlots, NEW cap \in Caps
             PROVE  LET m == NewManager(size, cap) IN LruOrdersSnapshots(m) /\ IndexMatches(m)
  BY DEF Init, LruIsOfSnapshots, IndexIsCurrent
<1> QED
  BY EmptyKeeps DEF NewManager

LEMMA NextKeeps ==
  ASSUME TypeOK, [Next]_rc
  PROVE  /\ LruIsOfSnapshots => LruIsOfSnapshots'
         /\ IndexIsCurrent => IndexIsCurrent'
<1> DEFINE Kept == /\ LruOrdersSnapshots(rc) => LruOrdersSnapshots(rc')
                   /\ IndexMatches(rc) => IndexMatches(rc')
<1> SUFFICES Kept
  BY DEF LruIsOfSnapshots, IndexIsCurrent
<1>0. rc \in Managers(Prefixes, Caps)
  BY DEF TypeOK
<1>1. ASSUME NEW r \in Req, NEW blocks \in BlockTables, Observe(r, blocks)
      PROVE  Kept
  BY <1>0, <1>1, SlotMethodsKeep, SameSnapshotsKeep DEF Observe
<1>2. ASSUME NEW r \in Req, NEW slot \in Slot \cup {None}, NEW rank \in Ranks,
             Assign(r, slot, rank)
      PROVE  Kept
  BY <1>0, <1>2, SlotMethodsKeep, SameSnapshotsKeep DEF Assign
<1>3. ASSUME NEW r \in Req, Release(r)
      PROVE  Kept
  BY <1>0, <1>3, SlotMethodsKeep, SameSnapshotsKeep DEF Release
<1>4. ASSUME NEW r \in Req, Remove(r)
      PROVE  Kept
  BY <1>0, <1>4, RemoveOrders, RemoveIndexMatches DEF Remove, RemoveSnapshot
<1>5. ASSUME NEW r \in Req, Refresh(r)
      PROVE  Kept
  BY <1>0, <1>5, RefreshKeeps DEF Refresh
<1>6. ASSUME NEW r \in Req, MarkFinished(r)
      PROVE  Kept
  BY <1>0, <1>6, MarkFinishedKeeps DEF MarkFinished
<1>7. ASSUME NEW r \in Req, NEW p \in Prefixes, Store(r, p)
      PROVE  Kept
  <2>1. LruOrdersSnapshots(rc) => LruOrdersSnapshots(rc')
    BY <1>0, <1>7, StoreOrders DEF Store
  <2>2. IndexMatches(StoreSnapshot(rc, r, p))
    BY <1>0, StoreIndexMatches
  <2>3. rc' = StoreSnapshot(rc, r, p)
    BY <1>7 DEF Store
  <2> QED
    BY <2>1, <2>2, <2>3
<1>8. ASSUME NEW r \in Req, NEW p \in Prefixes, Choose(r, p)
      PROVE  Kept
  <2>1. StaleSnapshots(rc, [p EXCEPT !.req = r], Req) \subseteq Req
    BY DEF StaleSnapshots, Listed
  <2> QED
    BY <1>0, <1>8, <2>1, RemoveOrders, RemoveIndexMatches DEF Choose, AfterChoose, DropStale
<1>9. ASSUME NEW size \in 0 .. MaxSlots, Resize(size)
      PROVE  Kept
  <2>1. SameSnapshots(rc, rc')
    BY <1>0, <1>9 DEF Resize, ResetSlots, SameSnapshots, Managers
  <2> QED
    BY <2>1, SameSnapshotsKeep
<1>10. ASSUME NEW cap \in Caps, SetCap(cap)
       PROVE  Kept
  <2>1. SameSnapshots(rc, rc')
    BY <1>0, <1>10 DEF SetCap, SameSnapshots, Managers
  <2> QED
    BY <2>1, SameSnapshotsKeep
<1>11. CASE Reset
  BY <1>0, <1>11, ResetFields, EmptyKeeps DEF Reset
<1>12. CASE UNCHANGED rc
  BY <1>12
<1> QED
  BY <1>1, <1>2, <1>3, <1>4, <1>5, <1>6, <1>7, <1>8, <1>9, <1>10, <1>11, <1>12 DEF Next

(***************************************************************************)
(* The finished LRU is always a strict order of requests that have a       *)
(* snapshot, so its length, which the cap bounds, counts snapshots.        *)
(***************************************************************************)
THEOREM LruAlwaysOfSnapshots == Spec => []LruIsOfSnapshots
<1>1. TypeOK /\ LruIsOfSnapshots /\ [Next]_rc => LruIsOfSnapshots'
  BY NextKeeps
<1> QED
  BY <1>1, InitKeeps, TypeCorrect, PTL DEF Spec

(***************************************************************************)
(* Every method that changes a snapshot leaves the index rebuilt.          *)
(***************************************************************************)
THEOREM IndexAlwaysCurrent == Spec => []IndexIsCurrent
<1>1. TypeOK /\ IndexIsCurrent /\ [Next]_rc => IndexIsCurrent'
  BY NextKeeps
<1> QED
  BY <1>1, InitKeeps, TypeCorrect, PTL DEF Spec

\* The finished requests are finitely many: one call adds one at most.
FinitelyFinished == IsFiniteSet(rc.finished)

LEMMA InitFinite == Init => FinitelyFinished
<1>1. \A size, cap : NewManager(size, cap).finished = {}
  BY DEF NewManager
<1> QED
  BY <1>1, FS_EmptySet DEF Init, FinitelyFinished

LEMMA NextFinite ==
  ASSUME TypeOK, LruIsOfSnapshots, FinitelyFinished, [Next]_rc
  PROVE  FinitelyFinished'
<1>0. rc \in Managers(Prefixes, Caps) /\ LruOrdersSnapshots(rc) /\ IsFiniteSet(rc.finished)
  BY DEF TypeOK, LruIsOfSnapshots, FinitelyFinished
<1>1. CASE rc'.finished \subseteq rc.finished
  <2>1. IsFiniteSet(rc'.finished)
    BY <1>0, <1>1, FS_Subset
  <2> QED
    BY <2>1 DEF FinitelyFinished
<1>2. ASSUME NEW r \in Req, NEW blocks \in BlockTables, Observe(r, blocks)
      PROVE  FinitelyFinished'
  BY <1>0, <1>1, <1>2, SlotMethodsKeep DEF Observe, SameSnapshots
<1>3. ASSUME NEW r \in Req, NEW slot \in Slot \cup {None}, NEW rank \in Ranks, Assign(r, slot, rank)
      PROVE  FinitelyFinished'
  BY <1>0, <1>1, <1>3, SlotMethodsKeep DEF Assign, SameSnapshots
<1>4. ASSUME NEW r \in Req, Release(r)
      PROVE  FinitelyFinished'
  BY <1>0, <1>1, <1>4, SlotMethodsKeep DEF Release, SameSnapshots
<1>5. ASSUME NEW r \in Req, Remove(r)
      PROVE  FinitelyFinished'
  <2>1. RemoveSnapshots(rc, {r}).finished = rc.finished \ {r}
    BY <1>0, RemoveFields
  <2> QED
    BY <1>1, <1>5, <2>1 DEF Remove, RemoveSnapshot
<1>6. ASSUME NEW r \in Req, Refresh(r)
      PROVE  FinitelyFinished'
  <2>1. rc'.finished \subseteq rc.finished
    BY <1>0, <1>6 DEF Refresh, RefreshSnapshotRecency, MoveToEnd, Forget, Managers
  <2> QED
    BY <1>1, <2>1
<1>7. ASSUME NEW r \in Req, MarkFinished(r)
      PROVE  FinitelyFinished'
  <2>1. IsFiniteSet(MarkSnapshotFinished(rc, r).finished)
    BY <1>0, FinishEvicts, CallsAssumption
  <2> QED
    BY <1>7, <2>1 DEF MarkFinished, FinitelyFinished
<1>8. ASSUME NEW r \in Req, NEW p \in Prefixes, Store(r, p)
      PROVE  FinitelyFinished'
  <2>1. StoreSnapshot(rc, r, p).finished = rc.finished \ {r}
    BY <1>0, StoreFields
  <2> QED
    BY <1>1, <1>8, <2>1 DEF Store
<1>9. ASSUME NEW r \in Req, NEW p \in Prefixes, Choose(r, p)
      PROVE  FinitelyFinished'
  <2>1. \A R : RemoveSnapshots(rc, R).finished = rc.finished \ R
    BY <1>0, RemoveFields
  <2>2. rc'.finished \subseteq rc.finished
    BY <1>9, <2>1 DEF Choose, AfterChoose, DropStale
  <2> QED
    BY <1>1, <2>2
<1>10. ASSUME NEW size \in 0 .. MaxSlots, Resize(size)
       PROVE  FinitelyFinished'
  BY <1>0, <1>1, <1>10 DEF Resize, ResetSlots, Managers
<1>11. ASSUME NEW cap \in Caps, SetCap(cap)
       PROVE  FinitelyFinished'
  BY <1>0, <1>1, <1>11 DEF SetCap, Managers
<1>12. CASE Reset
  BY <1>0, <1>1, <1>12, ResetFields DEF Reset
<1>13. CASE UNCHANGED rc
  BY <1>1, <1>13
<1> QED
  BY <1>2, <1>3, <1>4, <1>5, <1>6, <1>7, <1>8, <1>9, <1>10, <1>11, <1>12, <1>13 DEF Next

(***************************************************************************)
(* For any cap, lowered or raised at any time: finishing a request leaves  *)
(* no more finished snapshots than the cap, and none of the request itself *)
(* without prefix caching (mark_snapshot_finished).                        *)
(***************************************************************************)
THEOREM FinishAlwaysRespectsCap == Spec => FinishRespectsCap
<1> DEFINE Step == \A r \in Req : MarkFinished(r) =>
                     IF EnablePrefixCaching THEN Cardinality(rc'.finished) <= rc.cap
                     ELSE rc'.snapshots[r] = None
<1>1. TypeOK /\ LruIsOfSnapshots /\ FinitelyFinished => Step
  BY FinishEvicts, CallsAssumption DEF TypeOK, LruIsOfSnapshots, FinitelyFinished, MarkFinished
<1>2. TypeOK /\ LruIsOfSnapshots /\ FinitelyFinished /\ [Next]_rc => FinitelyFinished'
  BY NextFinite
<1> QED
  BY <1>1, <1>2, InitFinite, TypeCorrect, LruAlwaysOfSnapshots, PTL DEF Spec, FinishRespectsCap

(***************************************************************************)
(* However the finished requests were hit and stored again: eviction takes *)
(* them in the order of finished_snapshot_lru, no more than the cap asks,  *)
(* and each with its snapshot.                                             *)
(***************************************************************************)
THEOREM AlwaysEvictsOldestFirst == Spec => EvictsOldestFirst
<1> DEFINE Step == \A r, o \in Req :
                     o \in rc.finished /\ MarkFinished(r) /\ EnablePrefixCaching /\ o \notin rc'.finished
                     => /\ \A e \in rc.finished \ {r} : <<e, o>> \in rc.older \/ o = r => e \notin rc'.finished
                        /\ rc'.snapshots[o] = None
                        /\ Cardinality(rc'.finished) = rc.cap
<1>1. TypeOK /\ LruIsOfSnapshots /\ FinitelyFinished => Step
  BY FinishEvicts, CallsAssumption DEF TypeOK, LruIsOfSnapshots, FinitelyFinished, MarkFinished
<1>2. TypeOK /\ LruIsOfSnapshots /\ FinitelyFinished /\ [Next]_rc => FinitelyFinished'
  BY NextFinite
<1> QED
  BY <1>1, <1>2, InitFinite, TypeCorrect, LruAlwaysOfSnapshots, PTL DEF Spec, EvictsOldestFirst

-----------------------------------------------------------------------------
(* Matching a request with one snapshot.                                   *)

\* AgreeFrom stops at the first difference past from, or where a sequence ends.
LEMMA AgreeFromIs ==
  ASSUME NEW from \in Nat, NEW s, NEW t, Len(s) \in Nat, Len(t) \in Nat,
         NEW n, n = AgreeFrom(from, s, t)
  PROVE  /\ n \in Nat /\ from <= n /\ (n = from \/ n <= Least(Len(s), Len(t)))
         /\ \A i \in from + 1 .. n : s[i] = t[i]
         /\ \A k \in from .. Least(Len(s), Len(t)) :
              (\A i \in from + 1 .. k : s[i] = t[i]) => k <= n
<1> DEFINE L == Least(Len(s), Len(t))
           S == {k \in from .. L \cup {from} : \A i \in from + 1 .. k : s[i] = t[i]}
           N == IF L >= from THEN L ELSE from
<1>1. L \in Nat
  BY DEF Least
<1>2. n = MaxOf(S)
  BY DEF AgreeFrom
<1> HIDE DEF L
<1>3. N \in Nat /\ L <= N /\ from <= N
  BY <1>1
<1>4. S \in SUBSET (0 .. N) /\ from \in S
  BY <1>1, <1>3
<1>5. S # {}
  BY <1>4
<1> HIDE DEF N
<1>6. n \in S /\ \A k \in S : k <= n
  <2> HIDE DEF S
  <2> QED BY <1>2, <1>3, <1>4, <1>5, MaxOfIs
<1>7. n \in Nat /\ from <= n /\ (n = from \/ n <= L) /\ \A i \in from + 1 .. n : s[i] = t[i]
  BY <1>1, <1>6
<1>8. ASSUME NEW k \in from .. L, \A i \in from + 1 .. k : s[i] = t[i]
      PROVE  k <= n
  BY <1>6, <1>8
<1> QED BY <1>7, <1>8 DEF L

\* M matches no more than n tokens, less of fewer, and none of any number if none of some.
LEMMA TokenMatchIs ==
  ASSUME NEW m \in Nat, NEW n \in Nat, m <= n, NEW s, NEW t, s # None => Len(s) \in Nat,
         t # None => Len(t) \in Nat
  PROVE  /\ TokenCompatibleTokens(m, s, t) \in Nat
         /\ TokenCompatibleTokens(m, s, t) <= m
         /\ TokenCompatibleTokens(m, s, t) <= TokenCompatibleTokens(n, s, t)
         /\ m > 0 /\ TokenCompatibleTokens(m, s, t) = 0 => TokenCompatibleTokens(n, s, t) = 0
<1> DEFINE c == CommonPrefixLength(s, t)
<1>1. s # None /\ t # None => c \in Nat
  BY AgreeFromIs DEF CommonPrefixLength
<1> HIDE DEF c
<1> QED BY <1>1 DEF TokenCompatibleTokens, Least, c

\* Past embedded prompts: no more tokens than asked, no fewer for more, and some of some.
LEMMA PastEmbedsIs ==
  ASSUME NEW m \in Nat, NEW n \in Nat, m <= n, NEW p, NEW s, IsKvPrefix(p), IsKvPrefix(s),
         p.embeds # None, s.embeds # None, Least(Len(p.embeds), Len(s.embeds)) > 0
  PROVE  /\ PastEmbedsCompatibleTokens(m, p, s) \in Nat
         /\ PastEmbedsCompatibleTokens(m, p, s) <= m
         /\ PastEmbedsCompatibleTokens(m, p, s) <= PastEmbedsCompatibleTokens(n, p, s)
         /\ m > 0 => PastEmbedsCompatibleTokens(m, p, s) > 0
<1> DEFINE l == Len(p.embeds)
           k == Len(s.embeds)
           a == AgreeFrom(l, p.ids, s.ids)
<1>1. l \in Nat /\ k \in Nat /\ Least(l, k) \in Nat /\ Least(l, k) > 0 /\ Least(l, k) <= l
  BY DEF IsKvPrefix, Least
<1>2. p.ids # None /\ s.ids # None => a \in Nat /\ l <= a
  BY <1>1, AgreeFromIs DEF IsKvPrefix
<1> DEFINE limit == Least(l, k)
<1>3. \A x : PastEmbedsCompatibleTokens(x, p, s) =
         IF x <= limit THEN x
         ELSE IF l # k \/ p.ids = None \/ s.ids = None THEN limit ELSE Least(x, a)
  BY DEF PastEmbedsCompatibleTokens
<1> HIDE DEF l, k, a, limit
<1>4. limit \in Nat /\ limit > 0 /\ limit <= l
  BY <1>1 DEF limit
<1> QED BY <1>1, <1>2, <1>3, <1>4 DEF Least

\* The same of the match by ids or embeddings, and none of more if none of some.
LEMMA EmbedMatchIs ==
  ASSUME NEW m \in Nat, NEW n \in Nat, m <= n, NEW p, NEW s, IsKvPrefix(p), IsKvPrefix(s)
  PROVE  /\ TokensForPromptEmbeds(m, p, s) \in Nat
         /\ TokensForPromptEmbeds(m, p, s) <= m
         /\ TokensForPromptEmbeds(m, p, s) <= TokensForPromptEmbeds(n, p, s)
         /\ m > 0 /\ TokensForPromptEmbeds(m, p, s) = 0 => TokensForPromptEmbeds(n, p, s) = 0
<1>1. CASE p.embeds = None /\ s.embeds = None
  <2>1. \A x : TokensForPromptEmbeds(x, p, s) = TokenCompatibleTokens(x, p.ids, s.ids)
    BY <1>1 DEF TokensForPromptEmbeds
  <2>2. (p.ids # None => Len(p.ids) \in Nat) /\ (s.ids # None => Len(s.ids) \in Nat)
    BY DEF IsKvPrefix
  <2> QED BY <2>1, <2>2, TokenMatchIs
<1>2. CASE ~(p.embeds = None /\ s.embeds = None) /\ (p.embeds = None \/ s.embeds = None)
  BY <1>2 DEF TokensForPromptEmbeds
<1>3. CASE p.embeds # None /\ s.embeds # None
  <2> DEFINE limit == Least(Len(p.embeds), Len(s.embeds))
  <2>1. limit \in Nat
    BY <1>3 DEF IsKvPrefix, Least
  <2>2. \A x : TokensForPromptEmbeds(x, p, s) =
          IF x <= 0 \/ limit = 0 THEN 0 ELSE PastEmbedsCompatibleTokens(x, p, s)
    BY <1>3 DEF TokensForPromptEmbeds
  <2>3. limit > 0 =>
          /\ PastEmbedsCompatibleTokens(m, p, s) \in Nat
          /\ PastEmbedsCompatibleTokens(m, p, s) <= m
          /\ PastEmbedsCompatibleTokens(m, p, s) <= PastEmbedsCompatibleTokens(n, p, s)
          /\ m > 0 => PastEmbedsCompatibleTokens(m, p, s) > 0
    BY <1>3, PastEmbedsIs
  <2>4. limit > 0 => PastEmbedsCompatibleTokens(n, p, s) \in Nat
    BY <1>3, PastEmbedsIs
  <2> HIDE DEF limit
  <2> QED BY <2>1, <2>2, <2>3, <2>4
<1> QED BY <1>1, <1>2, <1>3

\* The images of p and s leave no more than this many tokens to be the same.
LEMMA TextLimitIs ==
  ASSUME NEW a, NEW b, 
         \A mm \in {a, b} \ {None} : 
           /\ Len(mm.spans) \in Nat
           /\ \A i \in 1 .. Len(mm.spans) : mm.spans[i].start \in Nat
  PROVE  /\ KnownTextOnlyPrefixLimit(a, b) \in Nat
         /\ \A mm \in {a, b} \ {None} : \A i \in 1 .. Len(mm.spans) :
              KnownTextOnlyPrefixLimit(a, b) <= mm.spans[i].start
<1> DEFINE starts == UNION {{mm.spans[i].start : i \in 1 .. Len(mm.spans)} : mm \in {a, b} \ {None}}
<1>1. starts \in SUBSET Nat
  OBVIOUS
<1>2. KnownTextOnlyPrefixLimit(a, b)
        = IF starts = {} THEN 0 ELSE CHOOSE n \in starts : \A k \in starts : n <= k
  BY DEF KnownTextOnlyPrefixLimit
<1>3. \A mm \in {a, b} \ {None} : \A i \in 1 .. Len(mm.spans) : mm.spans[i].start \in starts
  OBVIOUS
<1> HIDE DEF starts
<1>4. CASE starts = {}
  BY <1>2, <1>3, <1>4
<1>5. CASE starts # {}
  <2>1. PICK n \in starts : \A k \in starts : n <= k
    BY <1>1, <1>5, LeastNatural
  <2> DEFINE c == CHOOSE e \in starts : \A k \in starts : e <= k
  <2>2. c \in starts /\ \A k \in starts : c <= k
    BY <2>1
  <2>3. KnownTextOnlyPrefixLimit(a, b) = c
    BY <1>2, <1>5
  <2> HIDE DEF c
  <2> QED BY <1>1, <1>3, <2>2, <2>3
<1> QED BY <1>4, <1>5

\* The same of the match by images.
LEMMA ImageMatchIs ==
  ASSUME NEW m \in Nat, NEW n \in Nat, m <= n, NEW p, NEW s, IsKvPrefix(p), IsKvPrefix(s)
  PROVE  /\ MultimodalCompatibleTokens(m, p.mm, s.mm) \in Nat
         /\ MultimodalCompatibleTokens(m, p.mm, s.mm) <= m
         /\ MultimodalCompatibleTokens(m, p.mm, s.mm) <= MultimodalCompatibleTokens(n, p.mm, s.mm)
         /\ m > 0 /\ MultimodalCompatibleTokens(m, p.mm, s.mm) = 0 =>
              MultimodalCompatibleTokens(n, p.mm, s.mm) = 0
<1> DEFINE a == p.mm
           b == s.mm
           l == KnownTextOnlyPrefixLimit(a, b)
<1>1. l \in Nat
  <2>1. \A mm \in {a, b} \ {None} : 
           /\ Len(mm.spans) \in Nat
           /\ \A i \in 1 .. Len(mm.spans) : mm.spans[i].start \in Nat
    BY DEF IsKvPrefix
  <2> HIDE DEF a, b
  <2> QED BY <2>1, TextLimitIs
<1>2. \/ \A x \in Nat : MultimodalCompatibleTokens(x, a, b) = x
      \/ \A x \in Nat : MultimodalCompatibleTokens(x, a, b) = IF x <= 0 THEN 0 ELSE Least(x, l)
  <2>1. CASE a = None /\ b = None
    BY <2>1 DEF MultimodalCompatibleTokens
  <2>2. CASE ~(a = None /\ b = None) /\ None \notin {a, b} /\ a = b /\ IsResolved(a)
    BY <2>2 DEF MultimodalCompatibleTokens
  <2>3. CASE ~(a = None /\ b = None) /\ ~(None \notin {a, b} /\ a = b /\ IsResolved(a))
    BY <2>3 DEF MultimodalCompatibleTokens
  <2> QED BY <2>1, <2>2, <2>3
<1> HIDE DEF l
<1> QED BY <1>1, <1>2 DEF Least

\* A product grows with its factor.
LEMMA TimesGrow ==
  ASSUME NEW a \in Nat, NEW b \in Nat, NEW c \in Nat, a <= b
  PROVE  a * c \in Nat /\ b * c \in Nat /\ a * c <= b * c
<1>1. b * c = a * c + (b - a) * c
  OBVIOUS
<1>2. (b - a) * c \in Nat /\ a * c \in Nat /\ b * c \in Nat
  <2>1. b - a \in Nat
    OBVIOUS
  <2> DEFINE d == b - a
  <2> HIDE DEF d
  <2>2. d * c \in Nat
    BY <2>1 DEF d
  <2> QED BY <2>2 DEF d
<1> QED BY <1>1, <1>2

\* The blocks required for n tokens hold n tokens.
LEMMA RequiredBlocksCover ==
  ASSUME NEW n \in Nat, n > 0, NEW b, b = RequiredBlocks(n)
  PROVE  b \in Nat /\ b > 0 /\ n <= b * BlockSize
<1> DEFINE k == n + BlockSize - 1
           x == b * BlockSize
<1>1. k \in Nat /\ BlockSize \in Nat /\ BlockSize > 0 /\ k >= BlockSize /\ k = n + BlockSize - 1
  BY BlockSizeAssumption
<1>2. b = k \div BlockSize
  BY DEF RequiredBlocks
<1> HIDE DEF k
<1>3. b \in Nat
  BY <1>1, <1>2
<1>4. k < b * BlockSize + BlockSize
  BY <1>1, <1>2
<1>5. x \in Nat
  BY <1>1, <1>3
<1>6. b # 0
  <2> SUFFICES ASSUME b = 0 PROVE FALSE
    OBVIOUS
  <2>1. x = 0
    BY <1>1
  <2> HIDE DEF x
  <2> QED BY <1>1, <1>4, <2>1 DEF x
<1>7. k < x + BlockSize
  BY <1>4
<1> HIDE DEF x
<1>8. n <= x
  BY <1>1, <1>5, <1>7
<1> QED BY <1>3, <1>6, <1>8 DEF x

\* A prefix is indexed under a sequence of blocks.
LEMMA IndexBlocksAre ==
  ASSUME NEW p, IsKvPrefix(p)
  PROVE  Len(IndexBlocks(p)) \in Nat
<1>1. CASE p.hashes # None
  <2> DEFINE L == Len(p.hashes)
  <2>1. L \in Nat
    BY <1>1 DEF IsKvPrefix
  <2>2. IndexBlocks(p) = [i \in 1 .. L |-> <<"hash", p.hashes[i]>>]
    BY <1>1 DEF IndexBlocks
  <2> HIDE DEF L
  <2> QED BY <2>1, <2>2
<1>2. CASE p.hashes = None
  <2> DEFINE L == Len(p.blocks)
  <2>1. L \in Nat
    BY <1>2 DEF IsKvPrefix
  <2>2. IndexBlocks(p) = [i \in 1 .. L |-> <<"physical", p.blocks[i]>>]
    BY <1>2 DEF IndexBlocks
  <2> HIDE DEF L
  <2> QED BY <2>1, <2>2
<1> QED BY <1>1, <1>2

\* How many tokens the index says p and s share at k blocks.
Reach(p, s, k) == Least(Least(s.num, k * BlockSize), p.num)

\* What the index can promise grows with the depth and is none only of nothing.
LEMMA ReachIs ==
  ASSUME NEW p, NEW s, IsKvPrefix(p), IsKvPrefix(s), NEW k \in Nat, NEW l \in Nat, k <= l
  PROVE  /\ Reach(p, s, k) \in Nat /\ Reach(p, s, l) \in Nat /\ Reach(p, s, k) <= Reach(p, s, l)
         /\ Reach(p, s, k) <= s.num /\ Reach(p, s, k) <= p.num
         /\ k > 0 /\ Reach(p, s, k) = 0 => Reach(p, s, l) = 0
<1> DEFINE a == k * BlockSize
           b == l * BlockSize
<1>1. a \in Nat /\ b \in Nat /\ a <= b
  BY BlockSizeAssumption, TimesGrow
<1>2. k > 0 => a > 0
  <2> SUFFICES ASSUME k > 0 PROVE a > 0
    OBVIOUS
  <2>1. 1 * BlockSize <= k * BlockSize
    BY BlockSizeAssumption, TimesGrow
  <2> QED BY <2>1, BlockSizeAssumption
<1>3. p.num \in Nat /\ s.num \in Nat
  BY DEF IsKvPrefix
<1>4. Reach(p, s, k) = Least(Least(s.num, a), p.num) /\ Reach(p, s, l) = Least(Least(s.num, b), p.num)
  BY DEF Reach
<1> HIDE DEF a, b
<1> QED BY <1>1, <1>2, <1>3, <1>4 DEF Least

\* So does the match at a depth, and it promises no more.
LEMMA DepthMatchIs ==
  ASSUME NEW p, NEW s, IsKvPrefix(p), IsKvPrefix(s), NEW k \in Nat, NEW l \in Nat, k <= l
  PROVE  /\ TokensAtDepth(p, s, k) \in Nat /\ MatchAtDepth(p, s, k) \in Nat
         /\ TokensAtDepth(p, s, k) <= Reach(p, s, k)
         /\ MatchAtDepth(p, s, k) <= TokensAtDepth(p, s, k)
         /\ MatchAtDepth(p, s, k) <= MatchAtDepth(p, s, l)
         /\ k > 0 => /\ TokensAtDepth(p, s, k) = 0 => TokensAtDepth(p, s, l) = 0
                     /\ MatchAtDepth(p, s, k) = 0 => MatchAtDepth(p, s, l) = 0
<1> DEFINE m == Reach(p, s, k)
           n == Reach(p, s, l)
           t == TokensForPromptEmbeds(m, p, s)
           u == TokensForPromptEmbeds(n, p, s)
           x == MultimodalCompatibleTokens(t, p.mm, s.mm)
           y == MultimodalCompatibleTokens(u, p.mm, s.mm)
<1>1. /\ TokensAtDepth(p, s, k) = t /\ TokensAtDepth(p, s, l) = u
      /\ MatchAtDepth(p, s, k) = x /\ MatchAtDepth(p, s, l) = y
  BY DEF TokensAtDepth, MatchAtDepth, Reach
<1>2. m \in Nat /\ n \in Nat /\ m <= n /\ (k > 0 /\ m = 0 => n = 0)
  BY ReachIs
<1> HIDE DEF m, n
<1>3. t \in Nat /\ t <= m /\ t <= u /\ (m > 0 /\ t = 0 => u = 0)
  BY <1>2, EmbedMatchIs
<1>4. u \in Nat /\ u <= n
  BY <1>2, EmbedMatchIs
<1> HIDE DEF t, u
<1>5. x \in Nat /\ x <= t /\ x <= y /\ (t > 0 /\ x = 0 => y = 0)
  BY <1>3, <1>4, ImageMatchIs
<1>6. y \in Nat /\ y <= u
  BY <1>3, <1>4, ImageMatchIs
<1> HIDE DEF x, y
<1>7. /\ t \in Nat /\ x \in Nat /\ t <= m /\ x <= t /\ x <= y
      /\ k > 0 => (t = 0 => u = 0) /\ (x = 0 => y = 0)
  BY <1>2, <1>3, <1>4, <1>5, <1>6
<1> QED BY <1>1, <1>7 DEF m

(***************************************************************************)
(* The request's own snapshot is matched without the index, and as well.   *)
(***************************************************************************)
LEMMA CompatibleAsWalked ==
  ASSUME NEW p, NEW s, IsKvPrefix(p), IsKvPrefix(s)
  PROVE  CompatibleTokens(p, s) = WalkedTokens(p, s, IndexBlocks(s))
<1> DEFINE needed == RequiredBlocks(p.num)
           shared  == CommonPrefixLength(IndexBlocks(p), IndexBlocks(s))
           common == Least(needed, shared)
           m      == PrefixCompatibleTokens(IndexBlocks(p), p.num, IndexBlocks(s), s.num)
           n      == Reach(p, s, shared)
<1>1. p.num \in Nat /\ s.num \in Nat
  BY DEF IsKvPrefix
<1>2. shared \in Nat
  BY IndexBlocksAre, AgreeFromIs DEF CommonPrefixLength
<1>3. p.num > 0 => needed \in Nat /\ needed > 0 /\ p.num <= needed * BlockSize
  BY <1>1, RequiredBlocksCover
<1>4. m = IF p.num <= 0 \/ s.num <= 0 \/ common = 0 THEN 0
          ELSE IF common >= needed THEN Least(p.num, s.num)
          ELSE Least(Least(s.num, common * BlockSize), p.num)
  BY DEF PrefixCompatibleTokens
<1>5. CompatibleTokens(p, s) = MultimodalCompatibleTokens(TokensForPromptEmbeds(m, p, s), p.mm, s.mm)
  BY DEF CompatibleTokens
<1>6. WalkedTokens(p, s, IndexBlocks(s)) =
        IF p.num <= 0 \/ shared = 0 THEN 0
        ELSE MultimodalCompatibleTokens(TokensForPromptEmbeds(n, p, s), p.mm, s.mm)
  BY DEF WalkedTokens, MatchAtDepth, TokensAtDepth, Reach
<1>7. TokensForPromptEmbeds(0, p, s) = 0 /\ MultimodalCompatibleTokens(0, p.mm, s.mm) = 0
  <2>1. TokensForPromptEmbeds(0, p, s) \in Nat /\ TokensForPromptEmbeds(0, p, s) <= 0
    BY EmbedMatchIs
  <2>2. MultimodalCompatibleTokens(0, p.mm, s.mm) \in Nat /\ MultimodalCompatibleTokens(0, p.mm, s.mm) <= 0
    BY ImageMatchIs
  <2> QED BY <2>1, <2>2
<1> HIDE DEF needed, shared, m, n
<1>8. CASE p.num <= 0 \/ shared = 0
  <2>1. m = 0
    <3>1. CASE p.num <= 0
      BY <1>4, <3>1
    <3>2. CASE p.num > 0 /\ shared = 0
      <4>1. common = 0
        BY <1>3, <3>2 DEF Least
      <4> QED BY <1>4, <4>1
    <3> QED BY <1>1, <1>8, <3>1, <3>2
  <2> QED BY <1>5, <1>6, <1>7, <1>8, <2>1
<1>9. CASE p.num > 0 /\ shared > 0
  <2>1. needed \in Nat /\ needed > 0 /\ p.num <= needed * BlockSize
    BY <1>3, <1>9
  <2>2. common \in Nat /\ common > 0
    BY <1>2, <1>9, <2>1 DEF Least
  <2>3. m = n
    <3>1. CASE common >= needed
      <4>1. needed <= shared
        BY <1>2, <2>1, <3>1 DEF Least
      <4> DEFINE a == needed * BlockSize
                 b == shared * BlockSize
      <4>2. a \in Nat /\ b \in Nat /\ a <= b
        BY <1>2, <2>1, <4>1, BlockSizeAssumption, TimesGrow
      <4>3. n = Least(Least(s.num, b), p.num)
        BY DEF n, Reach
      <4>4. p.num <= a
        BY <2>1
      <4> HIDE DEF a, b
      <4>5. n = Least(p.num, s.num)
        BY <1>1, <4>2, <4>3, <4>4 DEF Least
      <4>6. m = IF s.num <= 0 THEN 0 ELSE Least(p.num, s.num)
        <5> HIDE DEF common
        <5> QED BY <1>1, <1>4, <1>9, <2>2, <3>1
      <4> QED BY <1>1, <4>5, <4>6 DEF Least
    <3>2. CASE ~(common >= needed)
      <4>1. common = shared
        BY <1>2, <2>1, <3>2 DEF Least
      <4> HIDE DEF common
      <4> DEFINE b == shared * BlockSize
      <4>2. b \in Nat
        BY <1>2, BlockSizeAssumption
      <4>3. n = Least(Least(s.num, b), p.num)
        BY DEF n, Reach
      <4>4. m = IF s.num <= 0 THEN 0 ELSE Least(Least(s.num, b), p.num)
        BY <1>1, <1>4, <1>9, <2>2, <3>2, <4>1
      <4> HIDE DEF b
      <4> QED BY <1>1, <4>2, <4>3, <4>4 DEF Least
    <3> QED BY <3>1, <3>2
  <2> QED BY <1>1, <1>2, <1>5, <1>6, <1>9, <2>3
<1> QED BY <1>1, <1>2, <1>8, <1>9

-----------------------------------------------------------------------------
(* What the manager drops as stale.                                        *)

Current == TypeOK /\ IndexIsCurrent

\* A snapshot stale for p matches nothing of p, however deep they share blocks.
LEMMA StaleIsUnusable ==
  ASSUME NEW p, NEW s, IsKvPrefix(p), IsKvPrefix(s), NEW own, IsStaleFor(p, s, own),
         p.ids # None, s.ids # None
  PROVE  WalkedTokens(p, s, IndexBlocks(s)) = 0
<1> DEFINE shared == CommonPrefixLength(IndexBlocks(p), IndexBlocks(s))
<1>1. shared \in Nat
  BY IndexBlocksAre, AgreeFromIs DEF CommonPrefixLength
<1>2. shared > 0 /\ (TokensAtDepth(p, s, 1) <= 0 \/ MatchAtDepth(p, s, 1) <= 0)
  BY DEF IsStaleFor
<1>3. WalkedTokens(p, s, IndexBlocks(s)) = IF p.num <= 0 \/ shared = 0 THEN 0 ELSE MatchAtDepth(p, s, shared)
  BY DEF WalkedTokens
<1> HIDE DEF shared
<1>4. /\ MatchAtDepth(p, s, 1) \in Nat /\ MatchAtDepth(p, s, 1) <= TokensAtDepth(p, s, 1)
      /\ TokensAtDepth(p, s, 1) \in Nat
      /\ MatchAtDepth(p, s, 1) = 0 => MatchAtDepth(p, s, shared) = 0
  BY <1>1, <1>2, DepthMatchIs
<1> QED BY <1>2, <1>3, <1>4

\* A prefix stays one whoever asks for it.
LEMMA AskedByIsPrefix ==
  ASSUME NEW p \in Prefixes, NEW r
  PROVE  IsKvPrefix([p EXCEPT !.req = r])
<1> DEFINE a == [p EXCEPT !.req = r]
<1>1. IsKvPrefix(p) /\ {"num", "blocks", "hashes", "ids", "mm", "embeds"} \subseteq DOMAIN p
  BY PrefixesAssumption DEF IsKvPrefix
<1>2. /\ a.num = p.num /\ a.blocks = p.blocks /\ a.hashes = p.hashes /\ a.ids = p.ids
      /\ a.mm = p.mm /\ a.embeds = p.embeds
  BY <1>1
<1>3. DOMAIN a = DOMAIN p
  OBVIOUS
<1> HIDE DEF a
<1>4. IsKvPrefix(a)
  BY <1>1, <1>2, <1>3 DEF IsKvPrefix
<1> QED BY <1>4 DEF a

(***************************************************************************)
(* Whatever was observed, stored and recycled: a snapshot that             *)
(* choose_snapshot drops as stale, because the blocks it is indexed under  *)
(* are now another request's and its tokens are not, could have given the  *)
(* request nothing, as long as the tokens of both are known.               *)
(***************************************************************************)
THEOREM StaleIsNeverUsable == Spec => []NothingUsableIsStale
<1>1. Current => NothingUsableIsStale
  <2> SUFFICES ASSUME Current, NEW r \in Req, NEW o \in Req, NEW p \in Prefixes,
                      NEW a, a = [p EXCEPT !.req = r], NEW s, s = rc.snapshots[o],
                      o \in StaleSnapshots(rc, a, Req), a.ids # None, s.ids # None
               PROVE  VerifiedTokens(WalkedTokens(a, s, rc.index[o]), a, s) = 0
    BY Zenon DEF NothingUsableIsStale
  <2>1. IsKvPrefix(a)
    BY AskedByIsPrefix
  <2>2. rc.index[o] # None /\ s # None /\ IsStaleFor(a, s, BlocksOf(rc, a.req))
    BY DEF StaleSnapshots, Listed
  <2>3. s \in Prefixes
    BY <2>2 DEF Current, TypeOK, Managers
  <2>4. IsKvPrefix(s)
    BY <2>3, PrefixesAssumption
  <2>5. rc.index[o] = IndexBlocks(s)
    BY <2>2 DEF Current, IndexIsCurrent, IndexMatches, IndexOf
  <2>6. WalkedTokens(a, s, rc.index[o]) = 0
    BY <2>1, <2>2, <2>4, <2>5, StaleIsUnusable
  <2> QED BY <2>6 DEF VerifiedTokens, PromptEmbedCompatibleTokens
<1> QED BY <1>1, TypeCorrect, IndexAlwaysCurrent, PTL DEF Current

-----------------------------------------------------------------------------
(* The walk of the index.                                                  *)

Sharing(p, s) == CommonPrefixLength(IndexBlocks(p), IndexBlocks(s))

\* How deep the walk has seen the i-th snapshot s: it is at depth d, and has visited v.
SeenTo(p, s, i, d, v) == Least(Sharing(p, s), IF i <= v THEN d ELSE d - 1)

Knows(p, s, own) == ~(HasPhysicalCollision(p, s, own) /\ None \in {p.ids, s.ids})

Found(p, s, own, k) == IF k = 0 \/ ~Knows(p, s, own) THEN 0 ELSE MatchAtDepth(p, s, k)

\* What the walk knows of s when it has seen it to depth k.
Tracks(p, s, own, k, i, b, n, st) ==
  /\ Found(p, s, own, k) <= n
  /\ b = i => n <= Found(p, s, own, k)
  /\ i \in st <=> k > 0 /\ IsStaleFor(p, s, own)

IsWalk(p, ss, own, d, v, b, n, st) ==
  /\ d \in Nat \ {0} /\ v \in 0 .. Len(ss) /\ b \in 0 .. Len(ss) /\ n \in Nat
  /\ st \subseteq 1 .. Len(ss) /\ (b = 0 <=> n = 0)
  /\ \A i \in 1 .. Len(ss) : Tracks(p, ss[i], own, SeenTo(p, ss[i], i, d, v), i, b, n, st)

\* p shares no more blocks than it has.
LEMMA SharingIs ==
  ASSUME NEW p, NEW s, IsKvPrefix(p), IsKvPrefix(s)
  PROVE  Sharing(p, s) \in Nat /\ Sharing(p, s) <= Len(IndexBlocks(p))
<1>1. Len(IndexBlocks(p)) \in Nat /\ Len(IndexBlocks(s)) \in Nat
  BY IndexBlocksAre
<1> DEFINE a == IndexBlocks(p)
           b == IndexBlocks(s)
           n == AgreeFrom(0, a, b)
<1> HIDE DEF a, b
<1>2. n \in Nat /\ (n = 0 \/ n <= Least(Len(a), Len(b)))
  BY <1>1, AgreeFromIs DEF a, b
<1>3. Sharing(p, s) = n
  BY DEF Sharing, CommonPrefixLength, a, b
<1> HIDE DEF n
<1>4. Len(a) \in Nat /\ Len(b) \in Nat
  BY <1>1 DEF a, b
<1>5. n \in Nat /\ n <= Len(a)
  BY <1>2, <1>4 DEF Least
<1> QED BY <1>3, <1>5 DEF a

\* What was found of a snapshot is a number of tokens.
LEMMA FoundType ==
  ASSUME NEW p, NEW s, IsKvPrefix(p), IsKvPrefix(s), NEW own, NEW k \in Nat
  PROVE  Found(p, s, own, k) \in Nat
<1>1. MatchAtDepth(p, s, k) \in Nat
  BY DepthMatchIs
<1> QED BY <1>1 DEF Found

\* A snapshot that is not at the node.
LEMMA SeenElsewhere ==
  ASSUME NEW p, NEW s, IsKvPrefix(p), IsKvPrefix(s), NEW i \in Nat, NEW d \in Nat \ {0},
         NEW v \in Nat, i # v + 1 \/ Sharing(p, s) < d
  PROVE  SeenTo(p, s, i, d, v + 1) = SeenTo(p, s, i, d, v)
<1>1. Sharing(p, s) \in Nat
  BY SharingIs
<1> DEFINE c == Sharing(p, s)
<1> HIDE DEF c
<1>2. c \in Nat /\ (i # v + 1 \/ c < d)
  BY <1>1 DEF c
<1>3. Least(c, IF i <= v + 1 THEN d ELSE d - 1) = Least(c, IF i <= v THEN d ELSE d - 1)
  BY <1>2 DEF Least
<1> QED BY <1>3 DEF SeenTo, c

\* Stale at a node is stale at all.
LEMMA StaleAtAnyDepth ==
  ASSUME NEW p, NEW s, IsKvPrefix(p), IsKvPrefix(s), NEW own, NEW d \in Nat \ {0}, p.num > 0,
         Sharing(p, s) >= d,
         NEW tokens, tokens = TokensAtDepth(p, s, d), NEW matched, matched = MatchAtDepth(p, s, d)
  PROVE  /\ tokens \in Nat /\ matched \in Nat
         /\ IsStaleFor(p, s, own) <=>
              /\ HasPhysicalCollision(p, s, own)
              /\ \/ None \in {p.ids, s.ids}
                 \/ matched <= 0 /\ tokens <= 0
                 \/ matched <= 0 /\ s.mm # None /\ s.mm # p.mm
<1> DEFINE t == TokensAtDepth(p, s, 1)
           u == MatchAtDepth(p, s, 1)
<1>1. /\ t \in Nat /\ u \in Nat /\ u <= t /\ u <= matched
      /\ t = 0 => tokens = 0
      /\ u = 0 => matched = 0
  BY DepthMatchIs
<1>2. tokens \in Nat /\ matched \in Nat /\ matched <= tokens
  BY DepthMatchIs
<1>3. tokens = 0 => t = 0
  <2>1. Reach(p, s, 1) \in Nat /\ Reach(p, s, d) \in Nat /\ Reach(p, s, 1) <= Reach(p, s, d)
    <3>1. 1 \in Nat /\ d \in Nat /\ 1 <= d
      OBVIOUS
    <3> QED BY <3>1, ReachIs
  <2> SUFFICES ASSUME tokens = 0 PROVE t = 0
    OBVIOUS
  <2>2. TokensAtDepth(p, s, 1) <= TokensAtDepth(p, s, d)
    <3> DEFINE a == Reach(p, s, 1)
               b == Reach(p, s, d)
    <3>2. TokensForPromptEmbeds(a, p, s) <= TokensForPromptEmbeds(b, p, s)
      <4>1. a \in Nat /\ b \in Nat /\ a <= b
        BY <2>1
      <4> HIDE DEF a, b
      <4> QED BY <4>1, EmbedMatchIs
    <3> QED BY <3>2 DEF TokensAtDepth, Reach
  <2> QED BY <1>1, <2>2
<1>4. CommonPrefixLength(IndexBlocks(p), IndexBlocks(s)) > 0
  <2>1. Sharing(p, s) \in Nat
    BY SharingIs
  <2> QED BY <2>1 DEF Sharing
<1>5. IsStaleFor(p, s, own) <=>
        /\ HasPhysicalCollision(p, s, own)
        /\ \/ p.ids = None \/ s.ids = None
           \/ t <= 0
           \/ u <= 0 /\ s.mm # None /\ s.mm # p.mm
  BY <1>4, Zenon DEF IsStaleFor
<1> HIDE DEF t, u
<1>6. (t <= 0 <=> matched <= 0 /\ tokens <= 0) /\ (u <= 0 <=> matched <= 0)
  BY <1>1, <1>2, <1>3
<1> QED BY <1>2, <1>5, <1>6, Zenon

\* No less is found one block deeper.
LEMMA FoundGrows ==
  ASSUME NEW p, NEW s, IsKvPrefix(p), IsKvPrefix(s), NEW own, NEW d \in Nat \ {0}
  PROVE  Found(p, s, own, d - 1) <= Found(p, s, own, d)
<1>1. d - 1 \in Nat /\ d - 1 <= d
  OBVIOUS
<1>2. MatchAtDepth(p, s, d - 1) <= MatchAtDepth(p, s, d) /\ MatchAtDepth(p, s, d) \in Nat
  BY <1>1, DepthMatchIs
<1> QED BY <1>2 DEF Found

\* What a visit makes of the best match and the stale snapshots.
LEMMA VisitFinds ==
  ASSUME NEW p, NEW s, IsKvPrefix(p), IsKvPrefix(s), p.num > 0, NEW own, NEW d \in Nat \ {0},
         Sharing(p, s) >= d, NEW i \in Nat \ {0}, NEW b \in Nat, NEW n \in Nat, NEW st,
         b = 0 <=> n = 0,
         Tracks(p, s, own, d - 1, i, b, n, st),
         NEW collision, collision = HasPhysicalCollision(p, s, own),
         NEW tokens, tokens = TokensAtDepth(p, s, d),
         NEW matched, matched = MatchAtDepth(p, s, d),
         NEW unknown, unknown = (collision /\ None \in {p.ids, s.ids}),
         NEW proven, proven = (collision /\ (\/ matched <= 0 /\ tokens <= 0
                                             \/ matched <= 0 /\ s.mm # None /\ s.mm # p.mm)),
         NEW b1, NEW n1, NEW st1,
         IF unknown THEN st1 = st \cup {i} /\ b1 = b /\ n1 = n
         ELSE /\ st1 = IF proven THEN st \cup {i} ELSE st
              /\ b1 = IF matched > n THEN i ELSE b
              /\ n1 = IF matched > n THEN matched ELSE n
  PROVE  /\ b1 \in {b, i} /\ n1 \in Nat /\ n <= n1 /\ (b1 = 0 <=> n1 = 0)
         /\ b1 = b /\ b # i => n1 = n
         /\ b1 # b => b1 = i
         /\ st1 = st \/ st1 = st \cup {i}
         /\ Tracks(p, s, own, d, i, b1, n1, st1)
<1> DEFINE stale1 == IsStaleFor(p, s, own)
           k0 == Found(p, s, own, d - 1)
           k1 == Found(p, s, own, d)
<1>1. /\ tokens \in Nat /\ matched \in Nat
      /\ stale1 <=> collision /\ (\/ None \in {p.ids, s.ids}
                                  \/ matched <= 0 /\ tokens <= 0
                                  \/ matched <= 0 /\ s.mm # None /\ s.mm # p.mm)
  BY StaleAtAnyDepth
<1>2. stale1 <=> unknown \/ proven
  BY <1>1
<1>3. k1 = IF unknown THEN 0 ELSE matched
  BY DEF Found, Knows
<1>4. k0 \in Nat /\ k1 \in Nat /\ k0 <= k1
  <2>1. d - 1 \in Nat
    OBVIOUS
  <2> QED BY <2>1, FoundType, FoundGrows
<1>5. /\ k0 <= n /\ (b = i => n <= k0)
      /\ i \in st => stale1
      /\ d > 1 => (i \in st <=> stale1)
  BY DEF Tracks
<1> HIDE DEF stale1, k0, k1
<1>6. /\ b1 \in {b, i} /\ n1 \in Nat /\ n <= n1 /\ (b1 = 0 <=> n1 = 0)
      /\ b1 = b /\ b # i => n1 = n
      /\ b1 # b => b1 = i
      /\ k1 <= n1 /\ (b1 = i => n1 <= k1)
  <2>1. CASE unknown
    BY <1>3, <1>4, <1>5, <2>1
  <2>2. CASE ~unknown
    BY <1>1, <1>3, <1>4, <1>5, <2>2
  <2> QED BY <2>1, <2>2
<1>7. (st1 = st \/ st1 = st \cup {i}) /\ (i \in st1 <=> stale1)
  <2>1. CASE unknown
    BY <1>2, <2>1
  <2>2. CASE ~unknown
    BY <1>2, <1>5, <2>2
  <2> QED BY <2>1, <2>2
<1>8. Tracks(p, s, own, d, i, b1, n1, st1)
  BY <1>6, <1>7 DEF Tracks, stale1, k1
<1> QED BY <1>6, <1>7, <1>8

Walkable == IsKvPrefix(q) /\ Len(snaps) \in Nat /\ \A i \in 1 .. Len(snaps) : IsKvPrefix(snaps[i])

Ended == \/ q.num <= 0 /\ depth = 1 /\ visited = 0
         \/ \A i \in 1 .. Len(snaps) :
              SeenTo(q, snaps[i], i, depth, visited) = Sharing(q, snaps[i])

WalkInv ==
  /\ Walkable
  /\ IsWalk(q, snaps, owned, depth, visited, best, bestTokens, stale)
  /\ walking => q.num > 0
  /\ ~walking => Ended

\* A snapshot is seen to some depth.
LEMMA SeenToType ==
  ASSUME NEW p, NEW s, IsKvPrefix(p), IsKvPrefix(s), NEW i \in Nat, NEW d \in Nat \ {0}, NEW v \in Nat
  PROVE  SeenTo(p, s, i, d, v) \in Nat
<1> DEFINE c == Sharing(p, s)
<1>1. c \in Nat
  BY SharingIs
<1> HIDE DEF c
<1>2. SeenTo(p, s, i, d, v) = Least(c, IF i <= v THEN d ELSE d - 1)
  BY DEF SeenTo, c
<1> QED BY <1>1, <1>2 DEF Least

\* A walk starts having seen nothing.
LEMMA WalkInitIs == WalkInit => WalkInv
<1> SUFFICES ASSUME WalkInit PROVE WalkInv
  OBVIOUS
<1>1. Walkable
  <2>1. q \in Requests /\ snaps \in Stores
    BY DEF WalkInit
  <2>2. \A i \in 1 .. Len(snaps) : snaps[i] \in HeldPrefixes
    BY <2>1 DEF HeldPrefixes
  <2> QED BY <2>1, <2>2, PrefixAssumption DEF Walkable
<1>2. depth = 1 /\ visited = 0 /\ best = 0 /\ bestTokens = 0 /\ stale = {}
  BY DEF WalkInit
<1>3. ASSUME NEW i \in 1 .. Len(snaps)
      PROVE  SeenTo(q, snaps[i], i, 1, 0) = 0 /\ Sharing(q, snaps[i]) \in Nat
                /\ Sharing(q, snaps[i]) <= Len(IndexBlocks(q))
  <2> DEFINE c == Sharing(q, snaps[i])
  <2>1. c \in Nat /\ c <= Len(IndexBlocks(q))
    BY <1>1, SharingIs DEF Walkable
  <2> HIDE DEF c
  <2>2. SeenTo(q, snaps[i], i, 1, 0) = Least(c, IF i <= 0 THEN 1 ELSE 1 - 1)
    BY DEF SeenTo, c
  <2>3. Len(snaps) \in Nat
    BY <1>1 DEF Walkable
  <2>4. SeenTo(q, snaps[i], i, 1, 0) = 0
    BY <2>1, <2>2, <2>3 DEF Least
  <2> QED BY <2>1, <2>4 DEF c
<1>4. IsWalk(q, snaps, owned, depth, visited, best, bestTokens, stale)
  <2>1. \A i \in 1 .. Len(snaps) : Tracks(q, snaps[i], owned, 0, i, 0, 0, {})
    <3>1. \A i \in 1 .. Len(snaps) : Found(q, snaps[i], owned, 0) = 0
      BY DEF Found
    <3> QED BY <3>1 DEF Tracks
  <2>2. Len(snaps) \in Nat
    BY <1>1 DEF Walkable
  <2> QED BY <1>2, <1>3, <2>1, <2>2 DEF IsWalk
<1>5. walking <=> q.num > 0 /\ IndexBlocks(q) # <<>>
  BY DEF WalkInit
<1>6. ~walking => Ended
  <2> SUFFICES ASSUME ~(q.num <= 0), IndexBlocks(q) = <<>>
               PROVE  \A i \in 1 .. Len(snaps) : SeenTo(q, snaps[i], i, depth, visited) = Sharing(q, snaps[i])
    <3>1. q.num \in Nat
      BY <1>1 DEF Walkable, IsKvPrefix
    <3> QED BY <1>2, <1>5, <3>1 DEF Ended
  <2>1. Len(IndexBlocks(q)) = 0
    OBVIOUS
  <2> QED BY <1>2, <1>3, <2>1
<1> QED BY <1>1, <1>4, <1>5, <1>6 DEF WalkInv

\* A visit takes one snapshot a block deeper and leaves the others where they were.
LEMMA VisitKeeps == WalkInv /\ Visit => WalkInv'
<1> SUFFICES ASSUME WalkInv, Visit PROVE WalkInv'
  OBVIOUS
<1> DEFINE i == visited + 1
           s == snaps[i]
<1>1. /\ Walkable /\ IsWalk(q, snaps, owned, depth, visited, best, bestTokens, stale)
      /\ walking /\ q.num > 0 /\ visited < Len(snaps) /\ visited' = i
      /\ q' = q /\ snaps' = snaps /\ owned' = owned /\ depth' = depth /\ walking' = walking
  BY DEF WalkInv, Visit
<1>2. /\ IsKvPrefix(q) /\ Len(snaps) \in Nat /\ \A j \in 1 .. Len(snaps) : IsKvPrefix(snaps[j])
      /\ depth \in Nat \ {0} /\ visited \in Nat /\ best \in 0 .. Len(snaps) /\ bestTokens \in Nat
      /\ stale \subseteq 1 .. Len(snaps) /\ (best = 0 <=> bestTokens = 0)
      /\ i \in 1 .. Len(snaps) /\ i \in Nat \ {0}
  BY <1>1 DEF Walkable, IsWalk
<1>3. \A j \in 1 .. Len(snaps) :
        Tracks(q, snaps[j], owned, SeenTo(q, snaps[j], j, depth, visited), j, best, bestTokens, stale)
  BY <1>1 DEF IsWalk
<1>4. Walkable'
  BY <1>1 DEF Walkable
<1> SUFFICES IsWalk(q, snaps, owned, depth, i, best', bestTokens', stale')
  BY <1>1, <1>4 DEF WalkInv
<1>5. CASE i \notin ReqIdsAt(depth)
  <2>1. best' = best /\ bestTokens' = bestTokens /\ stale' = stale
    BY <1>5 DEF Visit
  <2>2. Sharing(q, s) < depth
    <3>1. ~(Sharing(q, s) >= depth)
      BY <1>2, <1>5 DEF ReqIdsAt, Sharing
    <3>2. Sharing(q, s) \in Nat
      BY <1>2, SharingIs
    <3> QED BY <1>2, <3>1, <3>2
  <2> HIDE DEF s
  <2>3. \A j \in 1 .. Len(snaps) :
          SeenTo(q, snaps[j], j, depth, visited + 1) = SeenTo(q, snaps[j], j, depth, visited)
    <3> TAKE j \in 1 .. Len(snaps)
    <3>1. j # visited + 1 \/ Sharing(q, snaps[j]) < depth
      BY <2>2 DEF s
    <3>2. j \in Nat
      BY <1>2
    <3> QED BY <1>2, <3>1, <3>2, SeenElsewhere
  <2>4. \A j \in 1 .. Len(snaps) :
        Tracks(q, snaps[j], owned, SeenTo(q, snaps[j], j, depth, i), j, best, bestTokens, stale)
    BY <1>3, <2>3
  <2> QED BY <1>2, <2>1, <2>4 DEF IsWalk
<1>6. CASE i \in ReqIdsAt(depth)
  <2>1. Sharing(q, s) >= depth
    BY <1>2, <1>6 DEF ReqIdsAt, Sharing
  <2> DEFINE collision == HasPhysicalCollision(q, s, owned)
             unknown   == collision /\ None \in {q.ids, s.ids}
             tokens    == TokensAtDepth(q, s, depth)
             matched   == MatchAtDepth(q, s, depth)
             proven    == collision /\ (\/ matched <= 0 /\ tokens <= 0
                                        \/ matched <= 0 /\ s.mm # None /\ s.mm # q.mm)
  <2>2. IF unknown THEN stale' = stale \cup {i} /\ best' = best /\ bestTokens' = bestTokens
         ELSE /\ stale' = IF proven THEN stale \cup {i} ELSE stale
              /\ best' = IF matched > bestTokens THEN i ELSE best
              /\ bestTokens' = IF matched > bestTokens THEN matched ELSE bestTokens
    BY <1>6, Zenon DEF Visit
  <2>3. Tracks(q, s, owned, depth - 1, i, best, bestTokens, stale)
    <3> DEFINE c == Sharing(q, s)
    <3>1. SeenTo(q, s, i, depth, visited) = Least(c, IF i <= visited THEN depth ELSE depth - 1)
      BY DEF SeenTo
    <3>2. c \in Nat /\ c >= depth
      BY <1>2, <2>1, SharingIs
    <3> HIDE DEF c
    <3>3. SeenTo(q, s, i, depth, visited) = depth - 1
      BY <1>2, <3>1, <3>2 DEF Least
    <3> QED BY <1>2, <1>3, <3>3
  <2>4. IsKvPrefix(s)
    BY <1>2
  <2> HIDE DEF s, collision, unknown, tokens, matched, proven
  <2>5. /\ best' \in {best, i} /\ bestTokens' \in Nat /\ bestTokens <= bestTokens'
        /\ (best' = 0 <=> bestTokens' = 0)
        /\ (best' = best /\ best # i => bestTokens' = bestTokens)
        /\ (best' # best => best' = i)
        /\ (stale' = stale \/ stale' = stale \cup {i})
        /\ Tracks(q, s, owned, depth, i, best', bestTokens', stale')
    <3>1. /\ collision = HasPhysicalCollision(q, s, owned)
          /\ tokens = TokensAtDepth(q, s, depth) /\ matched = MatchAtDepth(q, s, depth)
      BY DEF collision, tokens, matched
    <3>2. unknown = (collision /\ None \in {q.ids, s.ids})
      BY DEF unknown
    <3>3. proven = (collision /\ (\/ matched <= 0 /\ tokens <= 0
                                  \/ matched <= 0 /\ s.mm # None /\ s.mm # q.mm))
      BY DEF proven
    <3> HIDE DEF i
    <3>4. /\ IsKvPrefix(q) /\ IsKvPrefix(s) /\ q.num > 0 /\ depth \in Nat \ {0}
          /\ Sharing(q, s) >= depth /\ i \in Nat \ {0} /\ best \in Nat /\ bestTokens \in Nat
          /\ (best = 0 <=> bestTokens = 0)
      BY <1>1, <1>2, <2>1, <2>4
    <3> QED BY <2>2, <2>3, <3>1, <3>2, <3>3, <3>4, VisitFinds
  <2>6. ASSUME NEW j \in 1 .. Len(snaps)
        PROVE  Tracks(q, snaps[j], owned, SeenTo(q, snaps[j], j, depth, i), j, best', bestTokens', stale')
    <3>1. CASE j = i
      <4> DEFINE c == Sharing(q, s)
      <4>1. SeenTo(q, s, i, depth, i) = Least(c, IF i <= i THEN depth ELSE depth - 1)
        BY DEF SeenTo
      <4>2. c \in Nat /\ c >= depth
        BY <1>2, <2>1, <2>4, SharingIs
      <4> HIDE DEF c
      <4>3. SeenTo(q, s, i, depth, i) = depth
        BY <1>2, <4>1, <4>2 DEF Least
      <4>4. snaps[j] = s
        BY <3>1 DEF s
      <4> QED BY <2>5, <3>1, <4>3, <4>4
    <3>2. CASE j # i
      <4>1. j \in Nat /\ IsKvPrefix(snaps[j])
        BY <1>2
      <4> DEFINE k == SeenTo(q, snaps[j], j, depth, visited)
                 f == Found(q, snaps[j], owned, k)
      <4>2. SeenTo(q, snaps[j], j, depth, i) = k
        BY <1>2, <3>2, <4>1, SeenElsewhere
      <4>3. k \in Nat
        BY <1>2, <4>1, SeenToType
      <4> HIDE DEF k
      <4>4. f \in Nat
        BY <1>2, <4>1, <4>3, FoundType
      <4>5. f <= bestTokens /\ (best = j => bestTokens <= f)
               /\ (j \in stale <=> k > 0 /\ IsStaleFor(q, snaps[j], owned))
        BY <1>3 DEF Tracks, k
      <4> HIDE DEF f
      <4>6. f <= bestTokens' /\ (best' = j => bestTokens' <= f)
        BY <1>2, <2>5, <3>2, <4>4, <4>5
      <4>7. j \in stale' <=> j \in stale
        BY <2>5, <3>2
      <4> QED BY <4>2, <4>5, <4>6, <4>7 DEF Tracks, f
    <3> QED BY <3>1, <3>2
  <2>7. stale' \subseteq 1 .. Len(snaps) /\ best' \in 0 .. Len(snaps) /\ i \in 0 .. Len(snaps)
    <3>1. i \in 0 .. Len(snaps) /\ i \in 1 .. Len(snaps)
      BY <1>2
    <3> HIDE DEF i
    <3>2. best' \in 0 .. Len(snaps)
      BY <1>2, <2>5, <3>1
    <3>3. ASSUME NEW j \in stale' PROVE j \in 1 .. Len(snaps)
      BY <1>2, <2>5, <3>1
    <3> QED BY <3>1, <3>2, <3>3
  <2> HIDE DEF i
  <2> QED BY <1>2, <2>5, <2>6, <2>7 DEF IsWalk
<1> QED BY <1>5, <1>6

\* A descent changes nothing: all snapshots of the node have been visited.
LEMMA DescendKeeps == WalkInv /\ Descend => WalkInv'
<1> SUFFICES ASSUME WalkInv, Descend PROVE WalkInv'
  OBVIOUS
<1>1. /\ Walkable /\ IsWalk(q, snaps, owned, depth, visited, best, bestTokens, stale)
      /\ walking /\ q.num > 0 /\ visited = Len(snaps) /\ visited' = 0 /\ depth' = depth + 1
      /\ walking' = (depth < Len(IndexBlocks(q)))
      /\ q' = q /\ snaps' = snaps /\ owned' = owned
      /\ best' = best /\ bestTokens' = bestTokens /\ stale' = stale
  BY DEF WalkInv, Descend
<1>2. /\ IsKvPrefix(q) /\ Len(snaps) \in Nat /\ \A j \in 1 .. Len(snaps) : IsKvPrefix(snaps[j])
      /\ depth \in Nat \ {0}
  BY <1>1 DEF Walkable, IsWalk
<1>3. ASSUME NEW j \in 1 .. Len(snaps)
      PROVE  /\ SeenTo(q, snaps[j], j, depth + 1, 0) = SeenTo(q, snaps[j], j, depth, visited)
             /\ ~(depth < Len(IndexBlocks(q))) =>
                  SeenTo(q, snaps[j], j, depth + 1, 0) = Sharing(q, snaps[j])
  <2> DEFINE c == Sharing(q, snaps[j])
             l == Len(IndexBlocks(q))
  <2>1. c \in Nat /\ c <= l /\ l \in Nat
    BY <1>2, SharingIs, IndexBlocksAre
  <2>2. \A e, v : SeenTo(q, snaps[j], j, e, v) = Least(c, IF j <= v THEN e ELSE e - 1)
    BY Zenon DEF SeenTo
  <2> HIDE DEF c, l
  <2>3. /\ SeenTo(q, snaps[j], j, depth + 1, 0) = SeenTo(q, snaps[j], j, depth, visited)
        /\ ~(depth < l) => SeenTo(q, snaps[j], j, depth + 1, 0) = c
    BY <1>1, <1>2, <2>1, <2>2 DEF Least
  <2> QED BY <2>3 DEF c, l
<1>4. IsWalk(q, snaps, owned, depth + 1, 0, best, bestTokens, stale)
  <2>1. /\ best \in 0 .. Len(snaps) /\ bestTokens \in Nat /\ stale \subseteq 1 .. Len(snaps)
        /\ (best = 0 <=> bestTokens = 0)
    BY <1>1 DEF IsWalk
  <2>2. \A j \in 1 .. Len(snaps) :
        Tracks(q, snaps[j], owned, SeenTo(q, snaps[j], j, depth, visited), j, best, bestTokens, stale)
    BY <1>1 DEF IsWalk
  <2>3. \A j \in 1 .. Len(snaps) :
        Tracks(q, snaps[j], owned, SeenTo(q, snaps[j], j, depth + 1, 0), j, best, bestTokens, stale)
    BY <1>3, <2>2
  <2>4. depth + 1 \in Nat \ {0} /\ 0 \in 0 .. Len(snaps)
    BY <1>2
  <2> QED BY <2>1, <2>3, <2>4 DEF IsWalk
<1>5. Walkable'
  BY <1>1 DEF Walkable
<1>6. ~walking' => Ended'
  BY <1>1, <1>3 DEF Ended
<1> QED BY <1>1, <1>4, <1>5, <1>6 DEF WalkInv

\* Where nobody shares the next block, every snapshot was seen as deep as it goes.
LEMMA LeaveKeeps == WalkInv /\ Leave => WalkInv'
<1> SUFFICES ASSUME WalkInv, Leave PROVE WalkInv'
  OBVIOUS
<1>1. /\ Walkable /\ IsWalk(q, snaps, owned, depth, visited, best, bestTokens, stale)
      /\ walking' = FALSE /\ ReqIdsAt(depth) = {} /\ visited' = visited /\ depth' = depth
      /\ q' = q /\ snaps' = snaps /\ owned' = owned
      /\ best' = best /\ bestTokens' = bestTokens /\ stale' = stale
  BY DEF WalkInv, Leave
<1>2. /\ IsKvPrefix(q) /\ Len(snaps) \in Nat /\ \A j \in 1 .. Len(snaps) : IsKvPrefix(snaps[j])
      /\ depth \in Nat \ {0} /\ visited \in Nat
  BY <1>1 DEF Walkable, IsWalk
<1>3. ASSUME NEW j \in 1 .. Len(snaps)
      PROVE  SeenTo(q, snaps[j], j, depth, visited) = Sharing(q, snaps[j])
  <2> DEFINE c == Sharing(q, snaps[j])
  <2>1. c \in Nat /\ ~(c >= depth)
    BY <1>1, <1>2, SharingIs DEF ReqIdsAt, Sharing
  <2>2. SeenTo(q, snaps[j], j, depth, visited) = Least(c, IF j <= visited THEN depth ELSE depth - 1)
    BY DEF SeenTo
  <2> HIDE DEF c
  <2>3. SeenTo(q, snaps[j], j, depth, visited) = c
    BY <1>2, <2>1, <2>2 DEF Least
  <2> QED BY <2>3 DEF c
<1>4. Walkable'
  BY <1>1 DEF Walkable
<1>5. Ended'
  BY <1>1, <1>3 DEF Ended
<1> QED BY <1>1, <1>4, <1>5 DEF WalkInv

\* The invariant of the walk.
LEMMA WalkInvAlways == WalkSpec => []WalkInv
<1>1. WalkInv /\ [WalkNext]_walkVars => WalkInv'
  <2> SUFFICES ASSUME WalkInv, [WalkNext]_walkVars PROVE WalkInv'
    OBVIOUS
  <2>1. CASE UNCHANGED walkVars
    BY <2>1 DEF WalkInv, walkVars, Walkable, Ended
  <2> QED BY <2>1, VisitKeeps, DescendKeeps, LeaveKeeps DEF WalkNext
<1> QED BY <1>1, WalkInitIs, PTL DEF WalkSpec

\* The direct match is what a walk to the last shared block finds.
LEMMA DirectIs ==
  ASSUME Walkable, NEW i \in 1 .. Len(snaps), NEW c, c = Sharing(q, snaps[i])
  PROVE  /\ q.num > 0 => Direct(i) = Found(q, snaps[i], owned, c)
         /\ ~(q.num > 0) => Direct(i) = 0
         /\ IsStaleFor(q, snaps[i], owned) => c > 0 /\ q.num > 0
         /\ Usable(i) <=> Knows(q, snaps[i], owned)
<1> DEFINE s == snaps[i]
<1>1. IsKvPrefix(q) /\ IsKvPrefix(s)
  BY DEF Walkable
<1>2. CompatibleTokens(q, s) = IF q.num <= 0 \/ c = 0 THEN 0 ELSE MatchAtDepth(q, s, c)
  BY <1>1, CompatibleAsWalked DEF WalkedTokens, Sharing
<1>3. q.num \in Nat
  BY <1>1 DEF IsKvPrefix
<1>4. Usable(i) <=> Knows(q, s, owned)
  BY DEF Usable, Knows
<1>5. Direct(i) = IF Knows(q, s, owned) THEN CompatibleTokens(q, s) ELSE 0
  BY <1>4 DEF Direct
<1>6. IsStaleFor(q, s, owned) => c > 0 /\ q.num > 0
  BY DEF IsStaleFor, Sharing
<1> HIDE DEF s
<1>7. q.num > 0 => Direct(i) = Found(q, s, owned, c)
  BY <1>2, <1>3, <1>5 DEF Found
<1>8. ~(q.num > 0) => Direct(i) = 0
  BY <1>2, <1>3, <1>5
<1> QED BY <1>4, <1>6, <1>7, <1>8 DEF s

\* Once the walk has left, it has seen every snapshot as far as it shares blocks.
LEMMA EndedTracks ==
  ASSUME WalkInv, ~walking, NEW i \in 1 .. Len(snaps)
  PROVE  /\ Direct(i) <= bestTokens
         /\ best = i => Direct(i) = bestTokens /\ Usable(i)
         /\ i \in stale <=> IsStaleFor(q, snaps[i], owned)
<1> DEFINE c == Sharing(q, snaps[i])
           k == SeenTo(q, snaps[i], i, depth, visited)
           f == Found(q, snaps[i], owned, k)
<1>1. /\ Walkable /\ Ended /\ bestTokens \in Nat /\ (best = 0 <=> bestTokens = 0) /\ i \in Nat \ {0}
      /\ Tracks(q, snaps[i], owned, k, i, best, bestTokens, stale)
      /\ depth \in Nat \ {0} /\ visited \in Nat
  BY DEF WalkInv, IsWalk, Walkable
<1>2. IsKvPrefix(q) /\ IsKvPrefix(snaps[i]) /\ q.num \in Nat
  BY <1>1 DEF Walkable, IsKvPrefix
<1>3. /\ q.num > 0 => Direct(i) = Found(q, snaps[i], owned, c)
      /\ ~(q.num > 0) => Direct(i) = 0
      /\ IsStaleFor(q, snaps[i], owned) => c > 0 /\ q.num > 0
      /\ Usable(i) <=> Knows(q, snaps[i], owned)
  BY <1>1, DirectIs
<1>4. f <= bestTokens /\ (best = i => bestTokens <= f)
      /\ (i \in stale <=> k > 0 /\ IsStaleFor(q, snaps[i], owned))
  BY <1>1 DEF Tracks
<1>5. c \in Nat
  BY <1>2, SharingIs
<1>6. k \in Nat
  BY <1>1, <1>2, SeenToType
<1>7. (k = c) \/ (q.num <= 0 /\ k = 0)
  <2>1. CASE q.num <= 0 /\ depth = 1 /\ visited = 0
    <3>1. k = Least(c, IF i <= visited THEN depth ELSE depth - 1)
      BY DEF SeenTo
    <3> HIDE DEF c, k
    <3>2. k = 0
      BY <1>1, <1>5, <2>1, <3>1 DEF Least
    <3> QED BY <2>1, <3>2
  <2>2. CASE \A j \in 1 .. Len(snaps) : SeenTo(q, snaps[j], j, depth, visited) = Sharing(q, snaps[j])
    BY <2>2
  <2> QED BY <1>1, <2>1, <2>2 DEF Ended
<1>8. f \in Nat /\ (f > 0 => Knows(q, snaps[i], owned)) /\ f <= q.num
  <2>1. f \in Nat
    BY <1>2, <1>6, FoundType
  <2>2. MatchAtDepth(q, snaps[i], k) <= q.num
    <3> HIDE DEF k
    <3>1. /\ MatchAtDepth(q, snaps[i], k) \in Nat /\ TokensAtDepth(q, snaps[i], k) \in Nat
          /\ MatchAtDepth(q, snaps[i], k) <= TokensAtDepth(q, snaps[i], k)
          /\ TokensAtDepth(q, snaps[i], k) <= Reach(q, snaps[i], k)
      <4>1. k <= k
        BY <1>6
      <4> QED BY <1>2, <1>6, <4>1, DepthMatchIs
    <3>2. Reach(q, snaps[i], k) \in Nat /\ Reach(q, snaps[i], k) <= q.num
      <4>1. k <= k
        BY <1>6
      <4> QED BY <1>2, <1>6, <4>1, ReachIs
    <3> QED BY <1>2, <3>1, <3>2
  <2> QED BY <1>2, <2>1, <2>2 DEF Found
<1>9. k = c => Found(q, snaps[i], owned, c) = f
  OBVIOUS
<1> HIDE DEF c, k, f
<1>10. CASE k = c /\ q.num > 0
  BY <1>1, <1>3, <1>4, <1>5, <1>8, <1>9, <1>10
<1>11. CASE ~(q.num > 0)
  <2>1. ~IsStaleFor(q, snaps[i], owned) /\ Direct(i) = 0
    BY <1>3, <1>11
  <2>2. best # i
    <3>1. f = 0
      BY <1>2, <1>8, <1>11
    <3> QED BY <1>1, <1>4, <3>1
  <2> QED BY <1>1, <1>3, <1>4, <1>8, <2>1, <2>2
<1>12. (k = c /\ q.num > 0) \/ ~(q.num > 0)
  BY <1>2, <1>7
<1> QED BY <1>10, <1>11, <1>12

(***************************************************************************)
(* choose_prefix_snapshot descends one block at a time and keeps the best  *)
(* snapshot so far. However many snapshots share blocks, in whatever order *)
(* they were stored, and wherever the walk leaves the loop, it has the     *)
(* longest match that compatible_tokens would find by comparing the        *)
(* request with every snapshot, and drops exactly the stale ones.          *)
(***************************************************************************)
THEOREM WalkAlwaysAgrees == WalkSpec => []WalkAgreesWithDirectMatch
<1>1. WalkInv => WalkAgreesWithDirectMatch
  <2> SUFFICES ASSUME WalkInv, ~walking
               PROVE  /\ \A i \in 1 .. Len(snaps) : Direct(i) <= bestTokens
                      /\ best = 0 <=> bestTokens = 0
                      /\ best # 0 => Direct(best) = bestTokens /\ Usable(best)
                      /\ stale = {i \in 1 .. Len(snaps) : IsStaleFor(q, snaps[i], owned)}
    BY DEF WalkAgreesWithDirectMatch
  <2>1. /\ Len(snaps) \in Nat /\ best \in 0 .. Len(snaps) /\ stale \subseteq 1 .. Len(snaps)
        /\ best = 0 <=> bestTokens = 0
    BY DEF WalkInv, Walkable, IsWalk
  <2>2. \A i \in 1 .. Len(snaps) : Direct(i) <= bestTokens
    BY EndedTracks
  <2>3. best # 0 => Direct(best) = bestTokens /\ Usable(best)
    <3>1. best # 0 => best \in 1 .. Len(snaps)
      BY <2>1
    <3> QED BY <3>1, EndedTracks
  <2>4. stale = {i \in 1 .. Len(snaps) : IsStaleFor(q, snaps[i], owned)}
    <3>1. \A i \in 1 .. Len(snaps) : i \in stale <=> IsStaleFor(q, snaps[i], owned)
      BY EndedTracks
    <3> QED BY <2>1, <3>1
  <2> QED BY <2>1, <2>2, <2>3, <2>4
<1> QED BY <1>1, WalkInvAlways, PTL

-----------------------------------------------------------------------------
(* What the walk finds was computed from the request's own embeddings.     *)

Same(p, s, v) == 
  /\ v \in Nat /\ v <= Len(p.content) /\ v <= Len(s.content)
  /\ \A i \in 1 .. v : p.content[i] = s.content[i]

\* Tokens matched past the start of an image have equal, known identities.
LEMMA ImagesAllow ==
  ASSUME NEW p, NEW s, IsKvPrefix(p), IsKvPrefix(s), NEW t \in Nat,
         NEW n, n = MultimodalCompatibleTokens(t, p.mm, s.mm), NEW i \in 1 .. n, IsImage(p, i)
  PROVE  p.mm # None /\ p.mm = s.mm /\ IsResolved(p.mm)
<1> DEFINE a == p.mm
           b == s.mm
           l == KnownTextOnlyPrefixLimit(a, b)
<1>1. a # None
  BY DEF IsImage
<1>2. PICK j \in 1 .. Len(a.spans) : a.spans[j].start < i
  BY DEF IsImage
<1>3. l \in Nat /\ l <= a.spans[j].start
  <2>1. \A mm \in {a, b} \ {None} :
           /\ Len(mm.spans) \in Nat
           /\ \A e \in 1 .. Len(mm.spans) : mm.spans[e].start \in Nat
    BY SMTT(30) DEF IsKvPrefix
  <2> HIDE DEF a, b
  <2>2. l \in Nat /\ \A mm \in {a, b} \ {None} : \A e \in 1 .. Len(mm.spans) : l <= mm.spans[e].start
    BY <2>1, TextLimitIs
  <2> QED BY <1>1, <1>2, <2>2
<1>4. n \in Nat
  <2>1. t <= t
    OBVIOUS
  <2> QED BY <2>1, ImageMatchIs
<1>5. t > 0 /\ a.spans[j].start \in Nat
  <2>1. CASE t <= 0
    BY <1>4, <2>1 DEF MultimodalCompatibleTokens
  <2>2. a.spans[j].start \in Nat
    BY <1>1, <1>2 DEF IsKvPrefix
  <2> QED BY <2>1, <2>2
<1>6. CASE None \notin {a, b} /\ a = b /\ IsResolved(a)
  BY <1>6
<1>7. CASE ~(None \notin {a, b} /\ a = b /\ IsResolved(a))
  <2>1. n = Least(t, l)
    BY <1>1, <1>5, <1>7 DEF MultimodalCompatibleTokens
  <2> HIDE DEF l
  <2>2. n <= l
    BY <1>3, <2>1 DEF Least
  <2> QED BY <1>2, <1>3, <1>4, <1>5, <2>2
<1> QED BY <1>6, <1>7

\* s and t agree past the first f positions, up to the n-th.
AgreesTo(f, n, s, t) ==
  /\ n \in Nat /\ (n = f \/ n <= Least(Len(s), Len(t)))
  /\ \A i \in f + 1 .. n : s[i] = t[i]

\* AgreesTo packs what AgreeFrom computes.
LEMMA AgreesToIs ==
  ASSUME NEW f \in Nat, NEW s, NEW t, Len(s) \in Nat, Len(t) \in Nat
  PROVE  AgreesTo(f, AgreeFrom(f, s, t), s, t)
<1> DEFINE n == AgreeFrom(f, s, t)
<1>1. n = AgreeFrom(f, s, t)
  OBVIOUS
<1> HIDE DEF n
<1>2. n \in Nat /\ (n = f \/ n <= Least(Len(s), Len(t))) /\ \A i \in f + 1 .. n : s[i] = t[i]
  BY SMTT(30), <1>1, AgreeFromIs
<1>3. AgreesTo(f, n, s, t)
  BY Zenon, <1>2 DEF AgreesTo
<1> QED BY Zenon, <1>1, <1>3

\* Two sequences agree on their common prefix.
LEMMA CommonPrefixIs ==
  ASSUME NEW s, NEW t, Len(s) \in Nat, Len(t) \in Nat, NEW c, c = CommonPrefixLength(s, t)
  PROVE  c \in Nat /\ c <= Least(Len(s), Len(t)) /\ \A i \in 1 .. c : s[i] = t[i]
<1> DEFINE e == AgreeFrom(0, s, t)
           m == Least(Len(s), Len(t))
<1>1. AgreesTo(0, e, s, t)
  <2>1. 0 \in Nat
    OBVIOUS
  <2> QED BY Zenon, <2>1, AgreesToIs
<1>2. e \in Nat /\ (e = 0 \/ e <= m)
  BY Zenon, <1>1 DEF AgreesTo
<1>3. \A i \in 0 + 1 .. e : s[i] = t[i]
  BY Zenon, <1>1 DEF AgreesTo
<1>4. m \in Nat
  BY DEF Least
<1>5. c = e
  BY DEF CommonPrefixLength
<1> HIDE DEF e, m
<1>6. e <= m
  BY <1>2, <1>4
<1>7. \A i \in 1 .. e : s[i] = t[i]
  BY <1>2, <1>3
<1> QED BY <1>2, <1>5, <1>6, <1>7 DEF m

\* Tokens verified by ids have the same content.
LEMMA TextVerifies ==
  ASSUME NEW p, NEW s, IsKvPrefix(p), IsKvPrefix(s), TellsContent(p, s), NEW t \in Nat,
         NEW n, n = MultimodalCompatibleTokens(t, p.mm, s.mm),
         p.embeds = None, s.embeds = None, NEW v, v = VerifiedTokens(n, p, s)
  PROVE  Same(p, s, v) /\ v <= n
<1> DEFINE c == CommonPrefixLength(p.ids, s.ids)
           L == Least(Len(p.ids), Len(s.ids))
<1>1. n \in Nat
  <2>1. t <= t
    OBVIOUS
  <2> QED BY <2>1, ImageMatchIs
<1>2. IdsTellContent(p, s) /\ Len(p.content) \in Nat /\ Len(s.content) \in Nat
  BY DEF TellsContent
<1>3. p.ids # None /\ s.ids # None /\ Len(p.ids) \in Nat /\ Len(s.ids) \in Nat
      /\ Len(p.ids) <= Len(p.content) /\ Len(s.ids) <= Len(s.content)
  BY <1>2 DEF IdsTellContent, IsKvPrefix
<1>4. v = IF n <= 0 THEN 0 ELSE Least(n, c)
  BY <1>1, <1>3 DEF VerifiedTokens, PromptEmbedCompatibleTokens, TokenCompatibleTokens
<1>5. c \in Nat /\ (c = 0 \/ c <= L) /\ \A i \in 1 .. c : p.ids[i] = s.ids[i]
  <2> HIDE DEF c, L
  <2>1. c = CommonPrefixLength(p.ids, s.ids) /\ L = Least(Len(p.ids), Len(s.ids))
    BY DEF c, L
  <2> QED BY <1>3, <2>1, CommonPrefixIs
<1>6. L \in Nat /\ L <= Len(p.content) /\ L <= Len(s.content)
  BY <1>2, <1>3 DEF Least
<1> HIDE DEF c
<1>7. v \in Nat /\ v <= n /\ v <= c /\ v <= L
  BY <1>1, <1>4, <1>5, <1>6 DEF Least
<1>8. ASSUME NEW i \in 1 .. v PROVE p.content[i] = s.content[i]
  <2>1. i \in 1 .. L /\ i \in 1 .. c /\ i \in 1 .. n
    BY <1>1, <1>5, <1>6, <1>7
  <2>2. p.ids[i] = s.ids[i]
    BY <1>5, <2>1
  <2>3. p.content[i] = s.content[i] \/ (IsImage(p, i) /\ IsImage(s, i))
    BY <1>2, <2>1, <2>2 DEF IdsTellContent
  <2>4. CASE IsImage(p, i)
    <3>1. p.mm # None /\ p.mm = s.mm /\ IsResolved(p.mm)
      BY <2>1, <2>4, ImagesAllow
    <3>2. KnowsImages(p)
      BY <3>1 DEF KnowsImages, IsResolved
    <3> QED BY <1>2, <2>1, <2>4, <3>1, <3>2 DEF IdsTellContent
  <2> QED BY <2>3, <2>4
<1>9. v <= Len(p.content) /\ v <= Len(s.content)
  <2> HIDE DEF L
  <2> QED BY <1>2, <1>6, <1>7
<1> QED BY <1>7, <1>8, <1>9 DEF Same

\* Tokens verified by embeddings, and by ids past them, have the same content.
LEMMA EmbedsVerify ==
  ASSUME NEW p, NEW s, IsKvPrefix(p), IsKvPrefix(s), TellsContent(p, s), NEW n \in Nat,
         p.embeds # None, s.embeds # None, NEW v, v = VerifiedTokens(n, p, s)
  PROVE  Same(p, s, v) /\ v <= n
<1> DEFINE a == Len(p.embeds)
           b == Len(s.embeds)
           limit == Least(a, b)
           compared == Least(n, limit)
           c == CommonPrefixLength(p.embeds, s.embeds)
           g == AgreeFrom(a, p.ids, s.ids)
<1>1. a \in Nat /\ b \in Nat
  BY DEF IsKvPrefix
<1>2. EmbedsTellContent(p, s) /\ Len(p.content) \in Nat /\ Len(s.content) \in Nat
  BY DEF TellsContent
<1>3. c \in Nat /\ \A i \in 1 .. c : p.embeds[i] = s.embeds[i]
  <2> HIDE DEF c
  <2>1. c = CommonPrefixLength(p.embeds, s.embeds)
    BY DEF c
  <2> QED BY <1>1, <2>1, CommonPrefixIs
<1>4. /\ a <= Len(p.content) /\ \A i \in 1 .. a : p.content[i] = p.embeds[i]
      /\ b <= Len(s.content) /\ \A i \in 1 .. b : s.content[i] = s.embeds[i]
  BY <1>2 DEF EmbedsTellContent
<1>5. p.ids # None /\ s.ids # None =>
        LET L == Least(Len(p.ids), Len(s.ids))
        IN  L \in Nat /\ g \in Nat /\ (g = a \/ g <= L) /\ \A i \in a + 1 .. g : p.ids[i] = s.ids[i]
  <2> SUFFICES ASSUME p.ids # None, s.ids # None
               PROVE  LET L == Least(Len(p.ids), Len(s.ids))
                      IN  L \in Nat /\ g \in Nat /\ (g = a \/ g <= L) /\ \A i \in a + 1 .. g : p.ids[i] = s.ids[i]
    OBVIOUS
  <2>1. Len(p.ids) \in Nat /\ Len(s.ids) \in Nat
    BY DEF IsKvPrefix
  <2>2. Least(Len(p.ids), Len(s.ids)) \in Nat
    BY <2>1 DEF Least
  <2>3. AgreesTo(a, g, p.ids, s.ids)
    <3> HIDE DEF a
    <3> QED BY <1>1, <2>1, AgreesToIs
  <2> HIDE DEF a, g
  <2> QED BY SMTT(30), <2>2, <2>3 DEF AgreesTo
<1>6. v = IF n <= 0 \/ compared <= 0 \/ c < compared THEN 0
          ELSE PastEmbedsCompatibleTokens(n, p, s)
  BY DEF VerifiedTokens, PromptEmbedCompatibleTokens
<1>7. PastEmbedsCompatibleTokens(n, p, s) =
         IF n <= limit THEN n
         ELSE IF a # b \/ p.ids = None \/ s.ids = None THEN limit
         ELSE Least(n, g)
  BY DEF PastEmbedsCompatibleTokens
<1>8. limit \in Nat /\ limit <= a /\ limit <= b
  BY <1>1 DEF Least
<1> HIDE DEF limit
<1>9. compared \in Nat /\ compared <= n /\ compared <= limit /\ (n > limit => compared = limit) /\ (n <= limit => compared = n)
  BY <1>8 DEF Least
<1>10. CASE v = 0
  BY <1>2, <1>10 DEF Same
<1>11. compared <= c => Same(p, s, compared)
  <2> HIDE DEF compared, c, a, b
  <2> SUFFICES ASSUME compared <= c PROVE Same(p, s, compared)
    OBVIOUS
  <2>1. compared <= Len(p.content) /\ compared <= Len(s.content)
    BY <1>1, <1>2, <1>4, <1>8, <1>9
  <2>2. ASSUME NEW i \in 1 .. compared PROVE p.content[i] = s.content[i]
    <3>1. i \in 1 .. a /\ i \in 1 .. b /\ i \in 1 .. c
      BY <1>1, <1>3, <1>8, <1>9
    <3> QED BY <1>3, <1>4, <3>1
  <2> QED BY <1>9, <2>1, <2>2 DEF Same
<1> HIDE DEF c
<1>12. CASE v # 0
  <2>1. n > 0 /\ compared > 0 /\ compared <= c /\ v = PastEmbedsCompatibleTokens(n, p, s)
    BY <1>3, <1>6, <1>9, <1>12
  <2> HIDE DEF compared
  <2>2. CASE n <= limit \/ a # b \/ p.ids = None \/ s.ids = None
    <3>1. v = compared
      BY <1>7, <1>8, <1>9, <2>1, <2>2
    <3> QED BY <1>9, <1>11, <2>1, <3>1
  <2>3. CASE n > limit /\ a = b /\ p.ids # None /\ s.ids # None
    <3> DEFINE L == Least(Len(p.ids), Len(s.ids))
    <3>1. L \in Nat /\ g \in Nat /\ (g = a \/ g <= L) /\ \A i \in a + 1 .. g : p.ids[i] = s.ids[i]
      BY <1>5, <2>3
    <3>2. v = Least(n, g) /\ limit = a
      BY <1>7, <1>8, <2>1, <2>3 DEF Least, limit
    <3>3. \A i \in a + 1 .. L :
             /\ i <= Len(p.content) /\ i <= Len(s.content)
             /\ p.ids[i] = s.ids[i] => p.content[i] = s.content[i]
      <4>1. None \notin {p.ids, s.ids} /\ Len(p.embeds) = Len(s.embeds)
        BY <2>3
      <4> QED BY <1>2, <4>1 DEF EmbedsTellContent
    <3>4. Same(p, s, a)
      BY <1>9, <1>11, <2>1, <2>3, <3>2
    <3> HIDE DEF a, b, g, L
    <3>5. v \in Nat /\ v <= n /\ v <= g
      BY <3>1, <3>2 DEF Least
    <3>6. ASSUME NEW i \in 1 .. v PROVE p.content[i] = s.content[i] /\ i <= Len(p.content) /\ i <= Len(s.content)
      <4>1. CASE i <= a
        <5>1. i \in 1 .. a
          BY <1>1, <4>1, <3>5
        <5> QED BY <1>1, <1>2, <3>4, <5>1 DEF Same
      <4>2. CASE i > a
        <5>1. i \in a + 1 .. g /\ i \in a + 1 .. L
          <6>1. i <= v /\ v <= g /\ g # a /\ g <= L
            BY <1>1, <3>1, <3>5, <4>2
          <6> QED BY <1>1, <3>1, <3>5, <4>2, <6>1
        <5>2. p.ids[i] = s.ids[i]
          BY <3>1, <5>1
        <5>3. /\ i <= Len(p.content) /\ i <= Len(s.content)
              /\ p.ids[i] = s.ids[i] => p.content[i] = s.content[i]
          BY <3>3, <5>1
        <5> QED BY <5>2, <5>3
      <4> QED BY <1>1, <4>1, <4>2
    <3>7. v <= Len(p.content) /\ v <= Len(s.content)
      <4>1. CASE v = 0
        BY <1>2, <4>1
      <4>2. CASE v # 0
        <5>1. v \in 1 .. v
          BY <3>5, <4>2
        <5> QED BY <3>6, <5>1
      <4> QED BY <4>1, <4>2
    <3> QED BY <3>5, <3>6, <3>7 DEF Same
  <2> QED BY <1>1, <1>8, <2>2, <2>3
<1> QED BY <1>10, <1>12

\* So whatever is verified lies in the common prefix of the contents.
LEMMA VerifiedIsSound ==
  ASSUME NEW p, NEW s, IsKvPrefix(p), IsKvPrefix(s), TellsContent(p, s), NEW t \in Nat,
         NEW n, n = MultimodalCompatibleTokens(t, p.mm, s.mm), NEW v, v = VerifiedTokens(n, p, s)
  PROVE  v \in Nat /\ v <= n /\ v <= CommonPrefixLength(p.content, s.content)
<1>1. n \in Nat
  <2>1. t <= t
    OBVIOUS
  <2> QED BY <2>1, ImageMatchIs
<1>2. Same(p, s, v) /\ v <= n
  <2>1. CASE p.embeds = None /\ s.embeds = None
    BY <2>1, TextVerifies
  <2>2. CASE p.embeds # None /\ s.embeds # None
    BY <1>1, <2>2, EmbedsVerify
  <2>3. CASE ~(p.embeds = None /\ s.embeds = None) /\ ~(p.embeds # None /\ s.embeds # None)
    <3>1. v = 0
      BY <2>3 DEF VerifiedTokens, PromptEmbedCompatibleTokens
    <3> QED BY <1>1, <3>1 DEF Same, TellsContent
  <2> QED BY <2>1, <2>2, <2>3
<1>3. Len(p.content) \in Nat /\ Len(s.content) \in Nat
  BY DEF TellsContent
<1>4. v \in 0 .. Least(Len(p.content), Len(s.content)) /\ \A i \in 0 + 1 .. v : p.content[i] = s.content[i]
  BY <1>2, <1>3 DEF Same, Least
<1>5. v <= AgreeFrom(0, p.content, s.content)
  BY SMTT(30), <1>3, <1>4, AgreeFromIs
<1> QED BY <1>2, <1>5 DEF Same, CommonPrefixLength

\* The request and the snapshots stay those the walk began with.
WalkConstants == q \in Requests /\ snaps \in Stores

\* The walk has one request and one store.
LEMMA ConstantsAlways == WalkSpec => []WalkConstants
<1>1. WalkInit => WalkConstants
  BY DEF WalkInit, WalkConstants
<1>2. WalkConstants /\ [WalkNext]_walkVars => WalkConstants'
  BY DEF WalkConstants, WalkNext, Visit, Descend, Leave, walkVars
<1> QED BY <1>1, <1>2, PTL DEF WalkSpec

\* No more is found of a snapshot than it covers.
LEMMA FoundIsHeld ==
  ASSUME NEW p, NEW s, IsKvPrefix(p), IsKvPrefix(s), NEW k \in Nat
  PROVE  \E t \in Nat : /\ MatchAtDepth(p, s, k) = MultimodalCompatibleTokens(t, p.mm, s.mm)
                        /\ MatchAtDepth(p, s, k) \in Nat /\ MatchAtDepth(p, s, k) <= s.num
<1>1. k <= k
  OBVIOUS
<1>2. /\ MatchAtDepth(p, s, k) \in Nat /\ TokensAtDepth(p, s, k) \in Nat
      /\ MatchAtDepth(p, s, k) <= TokensAtDepth(p, s, k)
      /\ TokensAtDepth(p, s, k) <= Reach(p, s, k)
  BY <1>1, DepthMatchIs
<1>3. Reach(p, s, k) \in Nat /\ Reach(p, s, k) <= s.num
  BY <1>1, ReachIs
<1>4. s.num \in Nat
  BY DEF IsKvPrefix
<1>5. MatchAtDepth(p, s, k) <= s.num
  BY <1>2, <1>3, <1>4
<1>6. MatchAtDepth(p, s, k) = MultimodalCompatibleTokens(TokensAtDepth(p, s, k), p.mm, s.mm)
  BY DEF MatchAtDepth
<1> QED BY <1>2, <1>5, <1>6

(***************************************************************************)
(* What verify_prompt_embed_match leaves of the best match was computed    *)
(* from the request's own embeddings, and is not longer than the KV the    *)
(* snapshot holds: it holds at every step of the walk, whichever snapshot  *)
(* is best then.                                                           *)
(***************************************************************************)
THEOREM WalkAlwaysSound == WalkSpec => []MatchIsSound
<1>1. WalkInv /\ WalkConstants => MatchIsSound
  <2> SUFFICES ASSUME WalkInv, WalkConstants, best # 0
               PROVE  VerifiedTokens(bestTokens, q, snaps[best])
                        <= Least(snaps[best].num, CommonPrefixLength(q.content, snaps[best].content))
    BY DEF MatchIsSound
  <2> DEFINE s == snaps[best]
             k == SeenTo(q, s, best, depth, visited)
             v == VerifiedTokens(bestTokens, q, s)
             c == CommonPrefixLength(q.content, s.content)
  <2>1. /\ best \in 1 .. Len(snaps) /\ best \in Nat /\ bestTokens \in Nat /\ bestTokens # 0
        /\ depth \in Nat \ {0} /\ visited \in Nat
        /\ IsKvPrefix(q) /\ IsKvPrefix(s)
    BY DEF WalkInv, IsWalk, Walkable
  <2>2. TellsContent(q, s)
    <3>1. q \in Requests /\ s \in HeldPrefixes
      BY <2>1 DEF WalkConstants, HeldPrefixes
    <3> QED BY <3>1, ContentAssumption
  <2>3. k \in Nat
    BY <2>1, SeenToType
  <2>4. Tracks(q, s, owned, k, best, best, bestTokens, stale)
    BY <2>1 DEF WalkInv, IsWalk
  <2> HIDE DEF s, k
  <2>5. bestTokens = MatchAtDepth(q, s, k)
    <3>1. Found(q, s, owned, k) = bestTokens
      <4>1. Found(q, s, owned, k) \in Nat
        BY <2>1, <2>3, FoundType
      <4>2. Found(q, s, owned, k) <= bestTokens /\ bestTokens <= Found(q, s, owned, k)
        BY <2>4 DEF Tracks
      <4> QED BY <2>1, <4>1, <4>2
    <3> QED BY <2>1, <3>1 DEF Found
  <2>6. PICK t \in Nat : /\ bestTokens = MultimodalCompatibleTokens(t, q.mm, s.mm)
                         /\ bestTokens <= s.num
    BY <2>1, <2>3, <2>5, FoundIsHeld
  <2>7. v \in Nat /\ v <= bestTokens /\ v <= c
    <3> HIDE DEF v
    <3>1. v = VerifiedTokens(bestTokens, q, s)
      BY DEF v
    <3> QED BY <2>1, <2>2, <2>6, <3>1, VerifiedIsSound DEF c
  <2>8. s.num \in Nat
    BY <2>1 DEF IsKvPrefix
  <2> HIDE DEF v, c
  <2>9. v <= Least(s.num, c)
    BY <2>1, <2>6, <2>7, <2>8 DEF Least
  <2> QED BY <2>9 DEF v, c, s
<1> QED BY <1>1, WalkInvAlways, ConstantsAlways, PTL

-----------------------------------------------------------------------------
(* The cost model: arithmetic.                                             *)

LEMMA TimesMonotone ==
  ASSUME NEW a \in Nat, NEW b \in Nat, NEW c \in Nat, a <= b
  PROVE  a * c <= b * c
BY SMT

LEMMA TimesStrict ==
  ASSUME NEW a \in Nat, NEW b \in Nat, NEW c \in Nat, a * c < b * c
  PROVE  a < b
BY TimesMonotone

\* An average of numbers of an interval lies in the interval.
LEMMA AverageInRange ==
  ASSUME NEW p \in LeastTime .. MostTime, NEW s \in LeastTime .. MostTime
  PROVE  MovingAverage(p, s) \in LeastTime .. MostTime
<1> DEFINE rest == AlphaDen - AlphaNum
           sum  == p * rest + s * AlphaNum
           mean == sum \div AlphaDen
<1>1. /\ LeastTime \in Nat /\ MostTime \in Nat /\ p \in Nat /\ s \in Nat
      /\ AlphaNum \in Nat /\ AlphaDen \in Nat \ {0} /\ rest \in Nat
      /\ LeastTime <= p /\ p <= MostTime /\ LeastTime <= s /\ s <= MostTime
  BY TimeAssumption
<1>2. rest + AlphaNum = AlphaDen
  BY <1>1
<1> HIDE DEF rest
<1>3. LeastTime * rest <= p * rest /\ p * rest <= MostTime * rest
  BY <1>1, TimesMonotone
<1>4. LeastTime * AlphaNum <= s * AlphaNum /\ s * AlphaNum <= MostTime * AlphaNum
  BY <1>1, TimesMonotone
<1>5. LeastTime * AlphaDen = LeastTime * rest + LeastTime * AlphaNum
  BY <1>1, <1>2
<1>6. MostTime * AlphaDen = MostTime * rest + MostTime * AlphaNum
  BY <1>1, <1>2
<1>7. sum \in Nat /\ LeastTime * AlphaDen <= sum /\ sum <= MostTime * AlphaDen
  <2>1. /\ p * rest \in Nat /\ s * AlphaNum \in Nat
        /\ LeastTime * rest \in Nat /\ LeastTime * AlphaNum \in Nat
        /\ MostTime * rest \in Nat /\ MostTime * AlphaNum \in Nat
    BY <1>1
  <2> QED
    BY <2>1, <1>3, <1>4, <1>5, <1>6
<1> HIDE DEF sum
<1>8. mean \in Nat /\ mean * AlphaDen <= sum /\ sum < (mean + 1) * AlphaDen
  BY <1>1, <1>7
<1> HIDE DEF mean
<1>9. mean <= MostTime
  <2>1. SUFFICES ASSUME MostTime + 1 <= mean PROVE FALSE
    BY <1>1, <1>8
  <2>2. (MostTime + 1) * AlphaDen <= mean * AlphaDen
    BY <2>1, <1>1, <1>8, TimesMonotone
  <2>3. (MostTime + 1) * AlphaDen = MostTime * AlphaDen + AlphaDen
    BY <1>1
  <2> QED
    BY <2>2, <2>3, <1>1, <1>7, <1>8
<1>10. LeastTime <= mean
  <2>1. SUFFICES ASSUME mean + 1 <= LeastTime PROVE FALSE
    BY <1>1, <1>8
  <2>2. (mean + 1) * AlphaDen <= LeastTime * AlphaDen
    BY <2>1, <1>1, <1>8, TimesMonotone
  <2> QED
    BY <2>2, <1>1, <1>7, <1>8
<1>11. MovingAverage(p, s) = mean
  BY DEF MovingAverage, mean, sum, rest
<1> QED
  BY <1>1, <1>8, <1>9, <1>10, <1>11

-----------------------------------------------------------------------------
(* The cost model: types.                                                  *)

LEMMA ObservedInRange ==
  ASSUME NEW keys, NEW f, Estimates(f, keys), NEW k \in keys, NEW time \in Time
  PROVE  Estimates(Observed(f, k, time), keys)
<1> DEFINE v == IF k \in DOMAIN f THEN MovingAverage(f[k], time) ELSE time
           g == [i \in DOMAIN f \cup {k} |-> IF i = k THEN v ELSE f[i]]
<1>1. time \in LeastTime .. MostTime
  BY TimeAssumption
<1>2. v \in LeastTime .. MostTime
  <2>1. CASE k \in DOMAIN f
    <3>1. f[k] \in LeastTime .. MostTime
      BY <2>1 DEF Estimates
    <3> QED
      BY <2>1, <3>1, <1>1, AverageInRange
  <2>2. CASE k \notin DOMAIN f
    BY <2>2, <1>1
  <2> QED
    BY <2>1, <2>2
<1> HIDE DEF v
<1>3. DOMAIN g = DOMAIN f \cup {k}
  OBVIOUS
<1>4. \A i \in DOMAIN g : g[i] \in LeastTime .. MostTime
  BY <1>2 DEF Estimates
<1>5. Observed(f, k, time) = g
  BY DEF Observed, With, g, v
<1>6. g \in [DOMAIN g -> LeastTime .. MostTime]
  BY <1>4
<1> QED
  BY <1>3, <1>5, <1>6 DEF Estimates

LEMMA EmptyInRange ==
  ASSUME NEW keys
  PROVE  Estimates(Empty, keys)
BY DEF Estimates, Empty

(***************************************************************************)
(* Whatever is measured, and in whatever order, every estimate of prefill, *)
(* load and dump stays within the times that can be measured, and belongs  *)
(* to a bucket of the calibration or to a slot.                            *)
(***************************************************************************)
THEOREM EstimatesInRange == CostSpec => []CostTypeOK
<1>1. CostInit => CostTypeOK
  BY EmptyInRange, CostAssumption DEF CostInit, CostTypeOK
<1>2. CostTypeOK /\ [CostNext]_vars => CostTypeOK'
  <2> SUFFICES ASSUME CostTypeOK, [CostNext]_vars PROVE CostTypeOK'
    OBVIOUS
  <2>1. CASE EndCalibration
    BY <2>1 DEF EndCalibration, CostTypeOK, Estimates
  <2>2. ASSUME NEW time \in Time, CalibrateBucket(time) PROVE CostTypeOK'
    <3>1. PICK t \in BucketTokens : prefill' = Observed(prefill, t, time)
      BY <2>2 DEF CalibrateBucket
    <3>2. Estimates(prefill', BucketTokens)
      BY <3>1, ObservedInRange DEF CostTypeOK
    <3> QED
      BY <2>2, <3>2 DEF CalibrateBucket, CostTypeOK, Estimates
  <2>3. ASSUME NEW time \in Time, NEW c \in CacheId, Load(c, time) PROVE CostTypeOK'
    <3>1. Estimates(load', CacheId)
      BY <2>3, ObservedInRange DEF Load, CostTypeOK
    <3> QED
      BY <2>3, <3>1 DEF Load, CostTypeOK, Estimates
  <2>4. ASSUME NEW time \in Time, NEW c \in CacheId, Dump(c, time) PROVE CostTypeOK'
    <3>1. Estimates(dump', CacheId)
      BY <2>4, ObservedInRange DEF Dump, CostTypeOK
    <3> QED
      BY <2>4, <3>1 DEF Dump, CostTypeOK, Estimates
  <2>5. CASE UNCHANGED vars
    BY <2>5 DEF vars, CostTypeOK, Estimates
  <2> QED
    BY <2>1, <2>2, <2>3, <2>4, <2>5 DEF CostNext
<1> QED
  BY <1>1, <1>2, PTL DEF CostSpec

-----------------------------------------------------------------------------
(* The cost model: buckets.                                                *)

LEMMA LeastNumber ==
  ASSUME NEW N \in SUBSET Nat, N # {}
  PROVE  \E n \in N : \A k \in N : n <= k
<1> DEFINE Less == {pair \in Nat \X Nat : pair[1] < pair[2]}
<1>1. IsWellFoundedOn(Less, Nat)
  BY NatLessThanWellFounded DEF OpToRel
<1> HIDE DEF Less
<1>2. PICK n \in N : \A k \in N : <<k, n>> \notin Less
  BY <1>1, WFMin
<1>3. \A k \in N : ~ (k < n)
  BY <1>2 DEF Less
<1> QED
  BY <1>3

LEMMA GreatestNumber ==
  ASSUME NEW N \in SUBSET Nat, N # {}, NEW m \in Nat, \A n \in N : n <= m
  PROVE  \E n \in N : \A k \in N : k <= n
<1> DEFINE gaps == {m - n : n \in N}
<1>1. gaps \in SUBSET Nat /\ gaps # {}
  <2>1. \A n \in N : n \in Nat /\ m - n \in Nat
    OBVIOUS
  <2> QED
    BY <2>1
<1>2. PICK g \in gaps : \A h \in gaps : g <= h
  BY <1>1, LeastNumber
<1>3. PICK n \in N : g = m - n
  BY <1>2
<1>4. \A k \in N : m - n <= m - k
  BY <1>2, <1>3
<1> QED
  BY <1>4

LEMMA BucketsAreTokens == BucketTokens \subseteq Tokens
BY CostAssumption DEF BucketTokens, Tokens

\* The bucket of n tokens is the first measured at or above n, or else the last.
LEMMA BucketIsNext ==
  ASSUME CostTypeOK, prefill # Empty, NEW n \in Tokens
  PROVE  /\ Bucket(n) \in DOMAIN prefill
         /\ IF \E t \in DOMAIN prefill : n <= t
            THEN n <= Bucket(n) /\ \A t \in DOMAIN prefill : n <= t => Bucket(n) <= t
            ELSE \A t \in DOMAIN prefill : t <= Bucket(n)
<1> DEFINE P(b) == IF \E t \in DOMAIN prefill : n <= t
                   THEN n <= b /\ \A t \in DOMAIN prefill : n <= t => b <= t
                   ELSE \A t \in DOMAIN prefill : t <= b
<1>1. DOMAIN prefill \subseteq Tokens
  BY BucketsAreTokens DEF CostTypeOK, Estimates
<1>2. DOMAIN prefill # {}
  BY DEF CostTypeOK, Estimates, Empty
<1>3. \E b \in DOMAIN prefill : P(b)
  <2>1. CASE \E t \in DOMAIN prefill : n <= t
    <3>1. {t \in DOMAIN prefill : n <= t} \in SUBSET Nat
      BY <1>1 DEF Tokens
    <3>2. PICK b \in {t \in DOMAIN prefill : n <= t} :
            \A t \in {u \in DOMAIN prefill : n <= u} : b <= t
      BY <2>1, <3>1, LeastNumber
    <3> QED
      BY <2>1, <3>2
  <2>2. CASE ~ \E t \in DOMAIN prefill : n <= t
    <3>1. DOMAIN prefill \in SUBSET Nat /\ \A t \in DOMAIN prefill : t <= MaxSeqLen
      BY <1>1, CostAssumption DEF Tokens
    <3>2. PICK b \in DOMAIN prefill : \A t \in DOMAIN prefill : t <= b
      BY <1>2, <3>1, CostAssumption, GreatestNumber
    <3> QED
      BY <2>2, <3>2
  <2> QED
    BY <2>1, <2>2
<1>4. Bucket(n) = CHOOSE b \in DOMAIN prefill : P(b)
  BY DEF Bucket
<1> HIDE DEF P
<1>5. Bucket(n) \in DOMAIN prefill /\ P(Bucket(n))
  BY <1>3, <1>4
<1> QED
  BY <1>5 DEF P

-----------------------------------------------------------------------------
(* The cost model: medians.                                                *)

\* The i-th of the values counted with multiplicity exists.
LEMMA NthIsAValue ==
  ASSUME NEW f, Estimates(f, CacheId), NEW i \in 1 .. Cardinality(DOMAIN f)
  PROVE  \E k \in DOMAIN f : Nth(f, i) = f[k]
<1> DEFINE upTo(v)  == {k \in DOMAIN f : f[k] <= v}
           below(v) == {k \in DOMAIN f : f[k] < v}
           reach    == {v \in Nat : i <= Cardinality(upTo(v))}
<1>1. IsFiniteSet(DOMAIN f)
  BY CostAssumption, FS_Subset DEF Estimates
<1>2. \A v : /\ IsFiniteSet(upTo(v)) /\ Cardinality(upTo(v)) \in Nat
             /\ IsFiniteSet(below(v)) /\ Cardinality(below(v)) \in Nat
  <2> TAKE v
  <2>1. upTo(v) \subseteq DOMAIN f /\ below(v) \subseteq DOMAIN f
    OBVIOUS
  <2> QED
    BY <1>1, <2>1, FS_Subset, FS_CardinalityType
<1>3. \A k \in DOMAIN f : f[k] \in Nat /\ f[k] <= MostTime
  BY TimeAssumption DEF Estimates
<1>4. upTo(MostTime) = DOMAIN f
  BY <1>3
<1>5. reach \in SUBSET Nat /\ MostTime \in reach
  BY <1>4, TimeAssumption
<1>6. PICK v \in reach : \A u \in reach : v <= u
  BY <1>5, LeastNumber
<1>7. Cardinality(below(v)) < i
  <2>1. CASE v = 0
    <3>1. below(v) = {}
      BY <1>3, <2>1
    <3> QED
      BY <3>1, FS_EmptySet
  <2>2. CASE v # 0
    <3>1. v - 1 \in Nat /\ v - 1 \notin reach
      BY <1>6, <2>2
    <3>2. below(v) = upTo(v - 1)
      <4>1. v \in Nat
        BY <1>6
      <4>2. \A k \in DOMAIN f : f[k] < v <=> f[k] <= v - 1
        BY <1>3, <4>1
      <4>3. {k \in DOMAIN f : f[k] < v} = {k \in DOMAIN f : f[k] <= v - 1}
        BY <4>2, Zenon
      <4> QED
        BY <4>3
    <3>3. ~ (i <= Cardinality(upTo(v - 1))) /\ Cardinality(upTo(v - 1)) \in Nat
      BY <3>1, <1>2
    <3> HIDE DEF upTo, below, reach
    <3> QED
      BY <3>2, <3>3
  <2> QED
    BY <2>1, <2>2
<1>8. PICK k \in DOMAIN f : f[k] = v
  <2>1. SUFFICES ASSUME \A k \in DOMAIN f : f[k] # v PROVE FALSE
    OBVIOUS
  <2>2. upTo(v) = below(v)
    BY <1>3, <1>6, <2>1
  <2> QED
    BY <2>2, <1>2, <1>6, <1>7
<1>9. Nth(f, i) = CHOOSE u \in {f[j] : j \in DOMAIN f} :
                    Cardinality(below(u)) < i /\ i <= Cardinality(upTo(u))
  BY DEF Nth
<1>10. Nth(f, i) \in {f[j] : j \in DOMAIN f}
  <2>1. v \in {f[j] : j \in DOMAIN f}
    BY <1>8
  <2>2. Cardinality(below(v)) < i /\ i <= Cardinality(upTo(v))
    BY <1>6, <1>7
  <2> HIDE DEF upTo, below
  <2> QED
    BY <1>9, <2>1, <2>2
<1> QED
  BY <1>10

LEMMA NonemptyDomain ==
  ASSUME NEW keys, NEW f, Estimates(f, keys), f # Empty
  PROVE  DOMAIN f # {}
BY DEF Estimates, Empty

\* No estimate of a slot is below the least measured.
LEMMA CacheIoAboveLeast ==
  ASSUME NEW f, Estimates(f, CacheId), f # Empty, NEW c \in CacheId
  PROVE  /\ TwiceCacheIo(f, c) \in Nat
         /\ \E d \in DOMAIN f : f[d] \in Nat /\ 2 * f[d] <= TwiceCacheIo(f, c)
<1>1. \A d \in DOMAIN f : f[d] \in Nat
  BY TimeAssumption DEF Estimates
<1>2. CASE c \in DOMAIN f
  BY <1>1, <1>2 DEF TwiceCacheIo
<1>3. CASE c \notin DOMAIN f /\ NoId \in DOMAIN f
  BY <1>1, <1>3 DEF TwiceCacheIo
<1>4. CASE c \notin DOMAIN f /\ NoId \notin DOMAIN f
  <2> DEFINE n == Cardinality(DOMAIN f)
  <2>1. IsFiniteSet(DOMAIN f)
    BY CostAssumption, FS_Subset DEF Estimates
  <2>2. n \in Nat /\ n # 0
    BY <2>1, NonemptyDomain, FS_CardinalityType, FS_EmptySet
  <2> HIDE DEF n
  <2>3. (n + 1) \div 2 \in 1 .. n /\ n \div 2 + 1 \in 1 .. n
    BY <2>2
  <2>4. PICK a \in DOMAIN f : Nth(f, (n + 1) \div 2) = f[a]
    BY <2>3, NthIsAValue DEF n
  <2>5. PICK b \in DOMAIN f : Nth(f, n \div 2 + 1) = f[b]
    BY <2>3, NthIsAValue DEF n
  <2>6. TwiceCacheIo(f, c) = f[a] + f[b]
    BY <1>4, <2>4, <2>5 DEF TwiceCacheIo, TwiceMedian, n
  <2>7. f[a] \in Nat /\ f[b] \in Nat
    BY <1>1
  <2> QED
    BY <2>6, <2>7
<1> QED
  BY <1>2, <1>3, <1>4

-----------------------------------------------------------------------------
(* The cost model: loads against prefills.                                 *)

LEMMA CheaperBeats ==
  ASSUME NEW x \in Nat, NEW y \in Nat, x <= y, NEW ms \in Nat, NEW per \in Nat,
         Beats(y, [ms |-> ms, per |-> per])
  PROVE  Beats(x, [ms |-> ms, per |-> per])
<1>1. /\ x * per \in Nat /\ y * per \in Nat /\ MarginDen \in Nat
      /\ x * per * MarginDen \in Nat /\ y * per * MarginDen \in Nat
      /\ 2 * ms * MarginNum \in Nat
  BY TimeAssumption
<1>2. x * per * MarginDen <= y * per * MarginDen
  BY <1>1, TimesMonotone
<1> QED
  BY <1>1, <1>2 DEF Beats

LEMMA LongerPrefillIsBeaten ==
  ASSUME NEW x \in Nat, NEW a \in Nat, NEW b \in Nat, a <= b, NEW per \in Nat,
         Beats(x, [ms |-> a, per |-> per])
  PROVE  Beats(x, [ms |-> b, per |-> per])
<1>1. /\ 2 * a \in Nat /\ 2 * b \in Nat /\ 2 * a <= 2 * b /\ MarginNum \in Nat
      /\ 2 * a * MarginNum \in Nat /\ 2 * b * MarginNum \in Nat
      /\ x * per * MarginDen \in Nat
  BY TimeAssumption
<1>2. 2 * a * MarginNum <= 2 * b * MarginNum
  BY <1>1, TimesMonotone
<1> QED
  BY <1>1, <1>2 DEF Beats

\* A bucket measured whole is the fraction of its own length.
LEMMA WholeBucket ==
  ASSUME NEW x \in Nat, NEW p \in Nat, NEW t \in Nat \ {0}
  PROVE  Beats(x, [ms |-> p * t, per |-> t]) <=> Beats(x, [ms |-> p, per |-> 1])
<1> DEFINE l == x * MarginDen
           r == 2 * p * MarginNum
<1>1. MarginDen \in Nat /\ MarginNum \in Nat
  BY TimeAssumption
<1>2. l \in Nat /\ r \in Nat
  BY <1>1
<1>3. x * t * MarginDen = l * t
  BY <1>1
<1>4. 2 * (p * t) * MarginNum = r * t
  BY <1>1
<1>5. x * 1 * MarginDen = l
  BY <1>1
<1> HIDE DEF l, r
<1>6. l * t < r * t <=> l < r
  <2>1. ASSUME l < r PROVE l * t < r * t
    <3>1. (l + 1) * t <= r * t
      BY <1>2, <2>1, TimesMonotone
    <3>2. (l + 1) * t = l * t + t /\ l * t \in Nat /\ r * t \in Nat
      BY <1>2
    <3> QED
      BY <3>1, <3>2
  <2>2. ASSUME l * t < r * t PROVE l < r
    BY <1>2, <2>2, TimesStrict
  <2> QED
    BY <2>1, <2>2
<1> QED
  BY <1>3, <1>4, <1>5, <1>6 DEF Beats, r

\* The estimate of a prefix of n tokens is among those n tokens are judged by, or
\* below one that is.
LEMMA PrefixIsCovered ==
  ASSUME CostTypeOK, prefill # Empty, NEW n \in Tokens, NEW k \in 1 .. n, k >= MinHit,
         NEW x \in Nat, Beats(x, PrefillMs(k))
  PROVE  \E e \in PrefixEstimates(n) : Beats(x, e)
<1> DEFINE t == Bucket(k)
<1>1. n \in Nat /\ k \in Nat \ {0} /\ k <= n /\ k \in Tokens
  BY CostAssumption DEF Tokens
<1>2. \A b \in DOMAIN prefill : b \in Nat \ {0} /\ prefill[b] \in Nat
  BY BucketsAreTokens, TimeAssumption DEF CostTypeOK, Estimates, Tokens
<1>3. /\ t \in DOMAIN prefill
      /\ IF \E b \in DOMAIN prefill : k <= b
         THEN k <= t /\ \A b \in DOMAIN prefill : k <= b => t <= b
         ELSE \A b \in DOMAIN prefill : b <= t
  BY <1>1, BucketIsNext
<1>4. /\ Bucket(n) \in DOMAIN prefill
      /\ IF \E b \in DOMAIN prefill : n <= b
         THEN n <= Bucket(n) /\ \A b \in DOMAIN prefill : n <= b => Bucket(n) <= b
         ELSE \A b \in DOMAIN prefill : b <= Bucket(n)
  BY BucketIsNext
<1>5. PrefillMs(k) = [ms |-> prefill[t] * k, per |-> t]
  BY DEF PrefillMs
<1> HIDE DEF t
<1>6. CASE k <= t /\ t <= n
  <2>1. Beats(x, [ms |-> prefill[t] * t, per |-> t])
    <3>1. prefill[t] * k \in Nat /\ prefill[t] * t \in Nat
      BY <1>1, <1>2, <1>3
    <3>2. prefill[t] * k <= prefill[t] * t
      BY <1>1, <1>2, <1>3, <1>6, TimesMonotone
    <3> QED
      BY <1>2, <1>3, <1>5, <3>1, <3>2, LongerPrefillIsBeaten
  <2>2. Beats(x, [ms |-> prefill[t], per |-> 1])
    BY <1>2, <1>3, <2>1, WholeBucket
  <2>3. t >= MinHit
    BY <1>1, <1>2, <1>3, <1>6, CostAssumption
  <2>4. [ms |-> prefill[t], per |-> 1] \in PrefixEstimates(n)
    BY <1>3, <1>6, <2>3 DEF PrefixEstimates
  <2> QED
    BY <2>2, <2>4
<1>7. CASE ~ (k <= t /\ t <= n)
  <2>1. Bucket(n) = t
    BY <1>1, <1>2, <1>3, <1>4, <1>7
  <2>2. prefill[t] * k \in Nat /\ prefill[t] * n \in Nat
    BY <1>1, <1>2, <1>3
  <2>3. prefill[t] * k <= prefill[t] * n
    BY <1>1, <1>2, <1>3, TimesMonotone
  <2>4. Beats(x, [ms |-> prefill[t] * n, per |-> t])
    BY <1>2, <1>3, <1>5, <2>2, <2>3, LongerPrefillIsBeaten
  <2>5. [ms |-> prefill[t] * n, per |-> t] \in PrefixEstimates(n)
    BY <2>1 DEF PrefixEstimates, PrefillMs
  <2> QED
    BY <2>4, <2>5
<1> QED
  BY <1>6, <1>7

\* Each of the estimates n tokens are judged by is that of one of its prefixes.
LEMMA EstimateIsOfPrefix ==
  ASSUME CostTypeOK, prefill # Empty, NEW n \in Tokens, ShouldTakeOver(n),
         NEW e \in PrefixEstimates(n), NEW x \in Nat, Beats(x, e)
  PROVE  \E k \in 1 .. n : ShouldTakeOver(k) /\ Beats(x, PrefillMs(k))
<1>1. n \in 1 .. n
  BY DEF Tokens
<1>2. CASE e = PrefillMs(n)
  BY <1>1, <1>2
<1>3. ASSUME NEW t \in DOMAIN prefill, t <= n, t >= MinHit,
             e = [ms |-> prefill[t], per |-> 1]
      PROVE  \E k \in 1 .. n : ShouldTakeOver(k) /\ Beats(x, PrefillMs(k))
  <2>1. t \in Tokens /\ prefill[t] \in Nat
    BY BucketsAreTokens, TimeAssumption DEF CostTypeOK, Estimates
  <2>2. \A b \in DOMAIN prefill : b \in Nat
    BY BucketsAreTokens DEF CostTypeOK, Estimates, Tokens
  <2>3. Bucket(t) = t
    BY <2>1, <2>2, BucketIsNext DEF Tokens
  <2>4. PrefillMs(t) = [ms |-> prefill[t] * t, per |-> t]
    BY <2>3 DEF PrefillMs
  <2>5. t \in Nat \ {0} /\ t \in 1 .. n
    BY <1>3, <2>1 DEF Tokens
  <2>6. Beats(x, PrefillMs(t))
    BY <1>3, <2>1, <2>4, <2>5, WholeBucket
  <2>7. ShouldTakeOver(t)
    BY <1>3, <2>5 DEF ShouldTakeOver
  <2> QED
    BY <2>5, <2>6, <2>7
<1> QED
  BY <1>2, <1>3 DEF PrefixEstimates

-----------------------------------------------------------------------------
LEMMA TransferTimesInRange ==
  ASSUME CostTypeOK
  PROVE  Estimates(TransferTimes, CacheId)
BY DEF CostTypeOK, TransferTimes

LEMMA KeptIfLoadable ==
  ASSUME CostTypeOK, NEW n \in Tokens, NEW k \in 1 .. n, NEW c \in CacheId,
         AcceptsLoad(TransferTimes, k, c)
  PROVE  ShouldKeep(n)
<1> DEFINE f == TransferTimes
<1>1. Estimates(f, CacheId)
  BY TransferTimesInRange
<1> HIDE DEF f
<1>2. ShouldTakeOver(n)
  BY CostAssumption DEF AcceptsLoad, ShouldTakeOver, Tokens
<1>3. ASSUME AutoThreshold, f # Empty, prefill # Empty
      PROVE  \E d \in DOMAIN f, e \in PrefixEstimates(n) : Beats(2 * f[d], e)
  <2>1. Beats(TwiceCacheIo(f, c), PrefillMs(k)) /\ k >= MinHit
    BY <1>3 DEF AcceptsLoad, f, ShouldTakeOver
  <2>2. TwiceCacheIo(f, c) \in Nat
    BY <1>1, <1>3, CacheIoAboveLeast
  <2>3. PICK d \in DOMAIN f : f[d] \in Nat /\ 2 * f[d] <= TwiceCacheIo(f, c)
    BY <1>1, <1>3, CacheIoAboveLeast
  <2>4. Bucket(k) \in Nat /\ prefill[Bucket(k)] * k \in Nat
    <3>1. k \in Tokens /\ k \in Nat
      BY CostAssumption DEF Tokens
    <3>2. Bucket(k) \in DOMAIN prefill
      BY <1>3, <3>1, BucketIsNext
    <3> QED
      BY <3>1, <3>2, BucketsAreTokens, TimeAssumption DEF CostTypeOK, Estimates, Tokens
  <2>5. Beats(2 * f[d], PrefillMs(k))
    BY <2>1, <2>2, <2>3, <2>4, CheaperBeats DEF PrefillMs
  <2>6. PICK e \in PrefixEstimates(n) : Beats(2 * f[d], e)
    BY <1>3, <2>1, <2>3, <2>5, PrefixIsCovered
  <2> QED
    BY <2>6
<1> QED
  BY <1>2, <1>3 DEF ShouldKeep, f

LEMMA LoadableIfKept ==
  ASSUME CostTypeOK, NEW n \in Tokens, ShouldKeep(n)
  PROVE  \E k \in 1 .. n, c \in CacheId : AcceptsLoad(TransferTimes, k, c)
<1> DEFINE f == TransferTimes
<1>1. Estimates(f, CacheId)
  BY TransferTimesInRange
<1>2. ShouldTakeOver(n)
  BY DEF ShouldKeep
<1>3. CASE ~ (AutoThreshold /\ f # Empty /\ prefill # Empty)
  <2>1. PICK c \in CacheId : TRUE
    BY CostAssumption
  <2>2. n \in 1 .. n
    BY DEF Tokens
  <2> QED
    BY <1>2, <1>3, <2>1, <2>2 DEF AcceptsLoad
<1>4. CASE AutoThreshold /\ f # Empty /\ prefill # Empty
  <2>1. PICK c \in DOMAIN f, e \in PrefixEstimates(n) : Beats(2 * f[c], e)
    BY <1>4 DEF ShouldKeep
  <2>2. c \in CacheId /\ f[c] \in Nat
    BY <1>1, TimeAssumption DEF Estimates
  <2>3. PICK k \in 1 .. n : ShouldTakeOver(k) /\ Beats(2 * f[c], PrefillMs(k))
    BY <1>2, <1>4, <2>1, <2>2, EstimateIsOfPrefix
  <2>4. TwiceCacheIo(f, c) = 2 * f[c]
    BY <2>1 DEF TwiceCacheIo
  <2> QED
    BY <2>2, <2>3, <2>4 DEF AcceptsLoad
<1> QED
  BY <1>3, <1>4

(***************************************************************************)
(* A snapshot is saved to host memory exactly if the estimates allow some  *)
(* later load of some of its tokens into some slot: should_keep_snapshot   *)
(* and should_load agree whatever was measured.                            *)
(***************************************************************************)
THEOREM KeepAlwaysExact == CostSpec => []KeepIsExact
<1>1. CostTypeOK => KeepIsExact
  BY KeptIfLoadable, LoadableIfKept DEF KeepIsExact
<1> QED
  BY <1>1, EstimatesInRange, PTL
=============================================================================
