-------------------------- MODULE EncoderOutputCache --------------------------
(***************************************************************************)
(* The host cache of vision encoder outputs: an OrderedDict from keys to   *)
(* outputs, least recently used first, with a byte count kept by hand and  *)
(* a budget it may not exceed.                                             *)
(***************************************************************************)
EXTENDS Integers, SequencesExt

CONSTANTS
  Key,
  Item,         \* encoder outputs
  Bytes(_),     \* EncodedVisionItem.nbytes
  MaxBytes      \* the budget; 0 turns the cache off

VARIABLES
  items,    \* _items: entries [key, item], least recently used first
  nbytes    \* _nbytes

Init == items = <<>> /\ nbytes = 0

HeldKeys == {items[i].key : i \in DOMAIN items}

\* Mutant: an entry that is used keeps its place.
GetInPlace(key, item) ==
  /\ \E i \in DOMAIN items : items[i] = [key |-> key, item |-> item]
  /\ items' = items
  /\ UNCHANGED nbytes

\* get, when it finds an entry: move_to_end.
Get(key, item) ==
  /\ \E i \in DOMAIN items :
        /\ items[i] = [key |-> key, item |-> item]
        /\ items' = Append(RemoveAt(items, i), items[i])
  /\ UNCHANGED nbytes

\* What the first n entries take, and what all take.
Sizes(entries) ==
  LET total[n \in 0 .. Len(entries)] ==
        IF n = 0 THEN 0 ELSE total[n - 1] + Bytes(entries[n].item)
  IN  total

SizeOf(entries) == Sizes(entries)[Len(entries)]

Places(key) == {i \in DOMAIN items : items[i].key = key}

PlaceOf(key) == CHOOSE i \in Places(key) : TRUE

(***************************************************************************)
(* put: an item past the budget is not kept, and its previous entry stays. *)
(* Otherwise that entry is replaced, and as many of the oldest entries go  *)
(* as the count needs.                                                     *)
(***************************************************************************)
\* Mutant: what is evicted stays counted.
EvictUncounted(rest, count, key, item) ==
  \E n \in 0 .. Len(rest) :
    LET left(k) == count - SizeOf(SubSeq(rest, 1, k))
        fits(k) == k = Len(rest) \/ left(k) + Bytes(item) <= MaxBytes
    IN  /\ fits(n) /\ \A k \in 0 .. n - 1 : ~fits(k)
        /\ items' = Append(SubSeq(rest, n + 1, Len(rest)), [key |-> key, item |-> item])
        /\ nbytes' = count + Bytes(item)

Evict(rest, count, key, item) ==
  \E n \in 0 .. Len(rest) :
    LET left(k) == count - SizeOf(SubSeq(rest, 1, k))
        fits(k) == k = Len(rest) \/ left(k) + Bytes(item) <= MaxBytes
    IN  /\ fits(n) /\ \A k \in 0 .. n - 1 : ~fits(k)
        /\ items' = Append(SubSeq(rest, n + 1, Len(rest)), [key |-> key, item |-> item])
        /\ nbytes' = left(n) + Bytes(item)

Put(key, item) ==
  IF Bytes(item) > MaxBytes THEN UNCHANGED <<items, nbytes>>
  ELSE IF Places(key) = {} THEN Evict(items, nbytes, key, item)
  ELSE Evict(RemoveAt(items, PlaceOf(key)), nbytes - Bytes(items[PlaceOf(key)].item), key, item)

Clear == items' = <<>> /\ nbytes' = 0

-----------------------------------------------------------------------------
\* The count is what the entries take, and stays within the budget.
CountIsExact == nbytes = SizeOf(items) /\ nbytes <= MaxBytes
=============================================================================
