---------------------------- MODULE PrefixMatch ----------------------------
(***************************************************************************)
(* How many leading tokens of a request's KV a snapshot can supply: the    *)
(* pure matching functions of vllm_mblt/runtime_cache.py.                  *)
(*                                                                         *)
(* A prefix is a record                                                    *)
(*   num     how many tokens it covers                                     *)
(*   blocks  the physical KV blocks of its first sequence                  *)
(*   hashes  the scheduler's block hashes, or None                         *)
(*   ids     its token ids, or None when they are not all known            *)
(*   mm      None, or the identity of its images and videos:               *)
(*           [session, spans], a span being [start, stop, image] with      *)
(*           image = None when the pixels could not be fingerprinted       *)
(*   embeds  None, or the explicit prompt embeddings as a sequence, whose  *)
(*           prefixes stand for their sha256 fingerprints                  *)
(* A loop that walks two sequences until they differ is stated by the      *)
(* length it stops at.                                                     *)
(***************************************************************************)
EXTENDS Integers, Sequences, FiniteSets

CONSTANTS
  BlockSize,    \* tokens in a KV block
  None          \* Python's None

ASSUME BlockSizeAssumption == BlockSize \in Nat \ {0}

(***************************************************************************)
(* What RuntimeCacheRequest and RuntimeCacheSnapshot carry of a prefix.    *)
(***************************************************************************)
IsKvPrefix(p) ==
  /\ {"num", "blocks", "hashes", "ids", "mm", "embeds"} \subseteq DOMAIN p
  /\ p.num \in Nat /\ Len(p.blocks) \in Nat
  /\ p.hashes # None => Len(p.hashes) \in Nat
  /\ p.ids # None => Len(p.ids) \in Nat
  /\ p.embeds # None => Len(p.embeds) \in Nat
  /\ p.mm # None =>
       /\ Len(p.mm.spans) \in Nat
       /\ \A i \in 1 .. Len(p.mm.spans) : p.mm.spans[i].start \in Nat

Least(a, b) == IF a <= b THEN a ELSE b

MaxOf(S) == CHOOSE m \in S : \A n \in S : n <= m

(***************************************************************************)
(* The number of leading positions from, from+1, ... at which two          *)
(* sequences agree, counted from position 1.                               *)
(***************************************************************************)
AgreeFrom(from, s, t) ==
  MaxOf({n \in from .. Least(Len(s), Len(t)) \cup {from} :
            \A i \in from + 1 .. n : s[i] = t[i]})

CommonPrefixLength(s, t) == AgreeFrom(0, s, t)

RequiredBlocks(tokens) ==
  IF tokens <= 0 THEN 0 ELSE (tokens + BlockSize - 1) \div BlockSize

\* Both kinds of key live in one index, tagged so that they never collide.
IndexBlocks(p) ==
  IF p.hashes # None
  THEN [i \in 1 .. Len(p.hashes) |-> <<"hash", p.hashes[i]>>]
  ELSE [i \in 1 .. Len(p.blocks) |-> <<"physical", p.blocks[i]>>]

PrefixCompatibleTokens(targetBlocks, target, snapshotBlocks, held) ==
  LET needed == RequiredBlocks(target)
      common == Least(needed, CommonPrefixLength(targetBlocks, snapshotBlocks))
  IN  IF target <= 0 \/ held <= 0 \/ common = 0 THEN 0
      ELSE IF common >= needed THEN Least(target, held)
      ELSE Least(Least(held, common * BlockSize), target)

TokenCompatibleTokens(matched, ids, heldIds) ==
  IF matched <= 0 THEN 0
  ELSE IF ids = None \/ heldIds = None THEN matched
  ELSE Least(matched, CommonPrefixLength(ids, heldIds))

(***************************************************************************)
(* Past equally long embedded prompts the generated token ids decide.      *)
(***************************************************************************)
PastEmbedsCompatibleTokens(matched, q, s) ==
  LET promptLen == Len(q.embeds)
      limit     == Least(promptLen, Len(s.embeds))
  IN  IF matched <= limit THEN matched
      ELSE IF promptLen # Len(s.embeds) \/ q.ids = None \/ s.ids = None THEN limit
      ELSE Least(matched, AgreeFrom(promptLen, q.ids, s.ids))

\* The test made while the index is walked: lengths only, no fingerprint.
TokensForPromptEmbeds(matched, q, s) ==
  IF q.embeds = None /\ s.embeds = None
  THEN TokenCompatibleTokens(matched, q.ids, s.ids)
  ELSE IF matched <= 0 \/ q.embeds = None \/ s.embeds = None THEN 0
  ELSE IF Least(Len(q.embeds), Len(s.embeds)) = 0 THEN 0
  ELSE PastEmbedsCompatibleTokens(matched, q, s)

\* The test made before KV is used: the embedded prefixes must be equal.
PromptEmbedCompatibleTokens(matched, q, s) ==
  IF matched <= 0 THEN 0
  ELSE IF q.embeds = None /\ s.embeds = None
  THEN TokenCompatibleTokens(matched, q.ids, s.ids)
  ELSE IF q.embeds = None \/ s.embeds = None THEN 0
  ELSE LET compared == Least(matched, Least(Len(q.embeds), Len(s.embeds)))
       IN  IF compared <= 0 \/ CommonPrefixLength(q.embeds, s.embeds) < compared
           THEN 0
           ELSE PastEmbedsCompatibleTokens(matched, q, s)

\* Mutant: an image without a fingerprint counts as known.
IsResolvedAlways(mm) == TRUE

IsResolved(mm) == \A i \in 1 .. Len(mm.spans) : mm.spans[i].image # None

(***************************************************************************)
(* Prefixes with images match in full only when every image is known and   *)
(* the identities are equal; otherwise up to the first image of either.    *)
(***************************************************************************)
KnownTextOnlyPrefixLimit(mm, heldMm) ==
  LET starts == UNION {{m.spans[i].start : i \in 1 .. Len(m.spans)} :
                          m \in {mm, heldMm} \ {None}}
  IN  IF starts = {} THEN 0 ELSE CHOOSE n \in starts : \A k \in starts : n <= k

MultimodalCompatibleTokens(matched, mm, heldMm) ==
  IF matched <= 0 THEN 0
  ELSE IF mm = None /\ heldMm = None THEN matched
  ELSE IF None \notin {mm, heldMm} /\ mm = heldMm /\ IsResolved(mm) THEN matched
  ELSE Least(matched, KnownTextOnlyPrefixLimit(mm, heldMm))

-----------------------------------------------------------------------------
(***************************************************************************)
(* The match a request q has with one snapshot s: as compatible_tokens     *)
(* computes it for the request's own snapshot, and as the walk of the      *)
(* index computes it at the node `depth` blocks below the root.            *)
(***************************************************************************)
CompatibleTokens(q, s) ==
  LET byBlocks == PrefixCompatibleTokens(IndexBlocks(q), q.num, IndexBlocks(s), s.num)
  IN  MultimodalCompatibleTokens(TokensForPromptEmbeds(byBlocks, q, s), q.mm, s.mm)

\* Mutant: the walk forgets that the request asked for q.num tokens.
TokensAtDepthPastTarget(q, s, depth) ==
  TokensForPromptEmbeds(Least(s.num, depth * BlockSize), q, s)

TokensAtDepth(q, s, depth) ==
  TokensForPromptEmbeds(Least(Least(s.num, depth * BlockSize), q.num), q, s)

MatchAtDepth(q, s, depth) ==
  MultimodalCompatibleTokens(TokensAtDepth(q, s, depth), q.mm, s.mm)

\* The match at the deepest node the request's blocks share with the keys the
\* snapshot is indexed under.
WalkedTokens(q, s, keys) ==
  LET depth == CommonPrefixLength(IndexBlocks(q), keys)
  IN  IF q.num <= 0 \/ depth = 0 THEN 0 ELSE MatchAtDepth(q, s, depth)

\* How many tokens of s may be used for q once the embeddings are compared.
VerifiedTokens(matched, q, s) == PromptEmbedCompatibleTokens(matched, q, s)

PhysicalPrefixOverlaps(blocks, heldBlocks) ==
  \E i \in 1 .. Least(Len(blocks), Len(heldBlocks)) : blocks[i] = heldBlocks[i]

HasPhysicalCollision(q, s, ownedBlocks) ==
  /\ q.hashes = None /\ s.hashes = None
  /\ PhysicalPrefixOverlaps(q.blocks, s.blocks)
  /\ \E i \in 1 .. Len(s.blocks) : s.blocks[i] \in ownedBlocks

\* Mutant: a changed owner alone proves a snapshot stale.
IsStaleByOwner(q, s, ownedBlocks) == q.num > 0 /\ HasPhysicalCollision(q, s, ownedBlocks)

(***************************************************************************)
(* A snapshot another request's blocks prove stale: it sits on the         *)
(* recycled physical blocks of q (ownedBlocks are the blocks last observed *)
(* in q's table) and shares no usable prefix with q.  The walk only sees   *)
(* snapshots with which q shares its first index block.                    *)
(***************************************************************************)
IsStaleFor(q, s, ownedBlocks) ==
  /\ q.num > 0
  /\ CommonPrefixLength(IndexBlocks(q), IndexBlocks(s)) > 0
  /\ HasPhysicalCollision(q, s, ownedBlocks)
  /\ \/ q.ids = None \/ s.ids = None
     \/ TokensAtDepth(q, s, 1) <= 0
     \/ MatchAtDepth(q, s, 1) <= 0 /\ s.mm # None /\ s.mm # q.mm
=============================================================================
