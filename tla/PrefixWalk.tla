----------------------------- MODULE PrefixWalk -----------------------------
(***************************************************************************)
(* MbltRuntimeCacheManager.choose_prefix_snapshot, loop by loop: the walk  *)
(* of the snapshot index one block deeper at a time, and at each node one  *)
(* visit per snapshot.  PrefixMatch states what the walk finds without     *)
(* walking; this module checks that, and that what it finds is usable.     *)
(*                                                                         *)
(* Prefixes carry one more field, content: the embeddings their KV was     *)
(* computed from, which the program never sees.                            *)
(***************************************************************************)
EXTENDS PrefixMatch

CONSTANTS
  Requests,     \* the prefixes a request may ask for
  Stores,       \* the sequences of snapshots the manager may hold
  BlockOwners   \* the sets of blocks that may be last observed in q's table

HeldPrefixes == UNION {{ss[i] : i \in 1 .. Len(ss)} : ss \in Stores}

ASSUME PrefixAssumption ==
  /\ \A ss \in Stores : Len(ss) \in Nat
  /\ \A p \in Requests \cup HeldPrefixes : IsKvPrefix(p)

\* The token at position i stands for an image, which its id does not name.
IsImage(p, i) ==
  /\ p.mm # None
  /\ \E j \in 1 .. Len(p.mm.spans) : p.mm.spans[j].start < i /\ i <= p.mm.spans[j].stop

KnowsImages(p) == p.mm # None /\ \A j \in 1 .. Len(p.mm.spans) : p.mm.spans[j].image # None

(***************************************************************************)
(* Equal token ids name equal embeddings, but for images; and images have  *)
(* equal embeddings when their identities are known and equal.             *)
(***************************************************************************)
IdsTellContent(p, s) ==
  LET both == 1 .. Least(Len(p.ids), Len(s.ids))
  IN  /\ None \notin {p.ids, s.ids}
      /\ Len(p.ids) <= Len(p.content) /\ Len(s.ids) <= Len(s.content)
      /\ \A i \in both : p.ids[i] = s.ids[i] =>
            \/ p.content[i] = s.content[i]
            \/ IsImage(p, i) /\ IsImage(s, i)
      /\ KnowsImages(p) /\ p.mm = s.mm =>
            \A i \in both : IsImage(p, i) => p.content[i] = s.content[i]

(***************************************************************************)
(* Explicit embeddings are the first of the content, and past equally long *)
(* ones the ids, where known, are those of the content.                    *)
(***************************************************************************)
EmbedsTellContent(p, s) ==
  /\ \A x \in {p, s} :
       /\ Len(x.embeds) <= Len(x.content)
       /\ \A i \in 1 .. Len(x.embeds) : x.content[i] = x.embeds[i]
  /\ None \notin {p.ids, s.ids} /\ Len(p.embeds) = Len(s.embeds) =>
       \A i \in Len(p.embeds) + 1 .. Least(Len(p.ids), Len(s.ids)) :
          /\ i <= Len(p.content) /\ i <= Len(s.content)
          /\ p.ids[i] = s.ids[i] => p.content[i] = s.content[i]

TellsContent(p, s) ==
  /\ Len(p.content) \in Nat /\ Len(s.content) \in Nat
  /\ p.embeds = None /\ s.embeds = None => IdsTellContent(p, s)
  /\ None \notin {p.embeds, s.embeds} => EmbedsTellContent(p, s)

ASSUME ContentAssumption == \A p \in Requests, s \in HeldPrefixes : TellsContent(p, s)

VARIABLES
  q,            \* the request
  snaps,        \* self.snapshots, in insertion order
  owned,        \* the blocks whose physical_block_owner is the request
  depth,        \* the depth of the node the walk is at
  visited,      \* how many of self.snapshots have been looked at there
  best,         \* best_req_id, as an index of snaps; 0 for none
  bestTokens,
  stale,        \* stale_req_ids
  walking       \* FALSE once the walk has left the loop

walkVars == <<q, snaps, owned, depth, visited, best, bestTokens, stale, walking>>

WalkInit ==
  /\ q \in Requests
  /\ snaps \in Stores
  /\ owned \in BlockOwners
  /\ depth = 1 /\ visited = 0
  /\ best = 0 /\ bestTokens = 0 /\ stale = {}
  /\ walking = (q.num > 0 /\ IndexBlocks(q) # <<>>)

\* The snapshots listed at the node reached by the request's first d blocks.
ReqIdsAt(d) ==
  {i \in 1 .. Len(snaps) :
      CommonPrefixLength(IndexBlocks(q), IndexBlocks(snaps[i])) >= d}

Visit ==
  /\ walking /\ visited < Len(snaps)
  /\ ReqIdsAt(depth) # {}
  /\ LET i         == visited + 1
         s         == snaps[i]
         collision == HasPhysicalCollision(q, s, owned)
         unknown   == collision /\ None \in {q.ids, s.ids}
         tokens    == TokensAtDepth(q, s, depth)
         matched   == MatchAtDepth(q, s, depth)
         proven    == /\ collision
                      /\ \/ matched <= 0 /\ tokens <= 0
                         \/ matched <= 0 /\ s.mm # None /\ s.mm # q.mm
         better    == matched > bestTokens
     IN  /\ visited' = i
         /\ IF i \notin ReqIdsAt(depth)
            THEN UNCHANGED <<best, bestTokens, stale>>
            ELSE IF unknown
            THEN stale' = stale \cup {i} /\ UNCHANGED <<best, bestTokens>>
            ELSE /\ stale' = IF proven THEN stale \cup {i} ELSE stale
                 /\ best' = IF better THEN i ELSE best
                 /\ bestTokens' = IF better THEN matched ELSE bestTokens
  /\ UNCHANGED <<q, snaps, owned, depth, walking>>

Descend ==
  /\ walking /\ visited = Len(snaps)
  /\ ReqIdsAt(depth) # {}
  /\ visited' = 0
  /\ depth' = depth + 1
  /\ walking' = (depth < Len(IndexBlocks(q)))
  /\ UNCHANGED <<q, snaps, owned, best, bestTokens, stale>>

\* No child for the next block.
Leave ==
  /\ walking /\ ReqIdsAt(depth) = {}
  /\ walking' = FALSE
  /\ UNCHANGED <<q, snaps, owned, depth, visited, best, bestTokens, stale>>

WalkNext == Visit \/ Descend \/ Leave

WalkSpec == WalkInit /\ [][WalkNext]_walkVars

-----------------------------------------------------------------------------
(***************************************************************************)
(* The walk ends with the longest match over all snapshots, the one        *)
(* compatible_tokens would compute for each without an index, the first    *)
(* snapshot reaching it, and exactly the stale snapshots dropped: so the   *)
(* index only saves work and decides nothing by itself.                    *)
(***************************************************************************)
Usable(i) == ~ (HasPhysicalCollision(q, snaps[i], owned) /\ None \in {q.ids, snaps[i].ids})

Direct(i) == IF Usable(i) THEN CompatibleTokens(q, snaps[i]) ELSE 0

WalkAgreesWithDirectMatch ==
  ~walking =>
    /\ \A i \in 1 .. Len(snaps) : Direct(i) <= bestTokens
    /\ best = 0 <=> bestTokens = 0
    /\ best # 0 => Direct(best) = bestTokens /\ Usable(best)
    /\ stale = {i \in 1 .. Len(snaps) : IsStaleFor(q, snaps[i], owned)}

(***************************************************************************)
(* After verify_prompt_embed_match, the tokens taken from a snapshot were  *)
(* computed from the request's own embeddings: not from another image      *)
(* behind the same placeholder tokens, not from other prompt embeddings,   *)
(* and not from whatever a recycled block number used to hold.             *)
(***************************************************************************)
MatchIsSound ==
  best # 0 =>
    VerifiedTokens(bestTokens, q, snaps[best])
      <= Least(snaps[best].num, CommonPrefixLength(q.content, snaps[best].content))

=============================================================================
