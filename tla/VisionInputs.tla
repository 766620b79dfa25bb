----------------------------- MODULE VisionInputs -----------------------------
(***************************************************************************)
(* The images and videos of a step's new requests: _encode_vision_items    *)
(* looks each up in the EncoderOutputCache, sends what is missing through  *)
(* the encoder in batches, once per item and step, and hands every request *)
(* its embeddings.  Each action is one round of a loop of that handler, or *)
(* one encoder call.                                                       *)
(***************************************************************************)
EXTENDS Integers, SequencesExt

CONSTANTS
  None,         \* no identifier, kind, key, or output
  Feat,         \* for each feature object: [kind, data, ident, content, grid]
  PixelBytes,   \* of each content, as float32
  Tokens,       \* of each content's grid
  OutBytes,     \* of each content's encoder output
  MaxBytes,
  Steps,        \* the feature lists a step may bring, its requests' joined
  MaxItems, MaxPixelBytes, MaxTokens,   \* limits of a batch
  Dynamic,      \* whether the artifact takes dynamic Qwen3-VL inputs
  Broken        \* the features the encoder call raises for

Feature == DOMAIN Feat

ASSUME FeatureAssumption ==
  /\ \A f \in Feature : /\ Feat[f].kind \in {"image", "video", None}
                         /\ Feat[f].content \in DOMAIN OutBytes
                         /\ Feat[f].data \in BOOLEAN /\ Feat[f].grid \in BOOLEAN
  /\ OutBytes \in [DOMAIN OutBytes -> Nat]
  /\ PixelBytes \in [DOMAIN OutBytes -> Nat] /\ Tokens \in [DOMAIN OutBytes -> Nat]
  /\ Steps \subseteq Seq(Feature) /\ Broken \subseteq Feature
  /\ MaxBytes \in Nat /\ MaxItems \in Nat \ {0} /\ MaxPixelBytes \in Nat /\ MaxTokens \in Nat
  /\ Dynamic \in BOOLEAN

ASSUME NoneAssumption ==
  /\ \A f \in Feature : /\ None # <<Feat[f].kind, Feat[f].content>>
                         /\ None # <<Feat[f].kind, Feat[f].ident, Feat[f].content>>
  /\ \A R \in SUBSET Feature : R # None

VARIABLES
  items, nbytes,    \* the EncoderOutputCache
  pc,
  step,         \* the features of the step
  todo,         \* those the first loop has not seen
  pending,      \* those to encode, in order
  repeats,      \* for each key to encode: None, or the features that wait for it
  batch,        \* the next encoder call
  ready,        \* the features of the last one whose outputs are not delivered
  encoded,      \* for each feature: None or its output
  uses          \* history: the keys used since the last reset, in the order of their last use

stepVars == <<step, todo, pending, repeats, batch, ready, encoded>>
vars == <<items, nbytes, pc, stepVars, uses>>

\* The encoder's output for a feature alone.
Output(f) == <<Feat[f].kind, Feat[f].content>>

\* Mutant: two modalities, or two contents, of one identifier share a key.
KeyByIdentifier(f) == IF Feat[f].ident = None \/ ~Feat[f].grid THEN None ELSE <<Feat[f].ident>>

\* _vision_cache_key: without an identifier or a grid to fingerprint, no key.
CacheKey(f) ==
  IF Feat[f].ident = None \/ ~Feat[f].grid THEN None
  ELSE <<Feat[f].kind, Feat[f].ident, Feat[f].content>>

AllKeys == {CacheKey(f) : f \in Feature} \ {None}

\* nbytes of an encoded item.
ItemBytes(item) == OutBytes[item[2]]

Cache == INSTANCE EncoderOutputCache WITH
  Key <- AllKeys, Item <- {Output(f) : f \in Feature}, Bytes <- ItemBytes

\* The outputs the cache holds under a key.
HeldOutputs(key) == {items[i].item : i \in {j \in DOMAIN items : items[j].key = key}}

NoRepeats == [key \in AllKeys |-> None]

NothingEncoded == [f \in Feature |-> None]

Init ==
  /\ Cache!Init
  /\ pc = "idle" /\ step = <<>> /\ todo = <<>> /\ pending = <<>> /\ batch = <<>> /\ ready = <<>>
  /\ repeats = NoRepeats /\ encoded = NothingEncoded /\ uses = <<>>

-----------------------------------------------------------------------------
(* The first loop: look up, or wait for the encoder.                       *)

Begin ==
  /\ pc = "idle" /\ pc' = "scan"
  /\ step' \in Steps /\ todo' = step'
  /\ UNCHANGED <<items, nbytes, pending, repeats, batch, ready, encoded, uses>>

Scan(f) ==
  /\ pc = "scan" /\ todo # <<>> /\ f = Head(todo)
  /\ todo' = Tail(todo)
  /\ UNCHANGED <<pc, step, batch, ready>>

\* Whether the encoder has to do with a feature: not with audio, nor without data.
IsVision(f) == Feat[f].kind # None /\ Feat[f].data

Skip(f) == Scan(f) /\ ~IsVision(f) /\ UNCHANGED <<items, nbytes, pending, repeats, encoded, uses>>

\* The place of a key in the history.
Place(key) == CHOOSE i \in DOMAIN uses : uses[i] = key

\* History: the key, if the cache has it now, was used last.
Used(key) ==
  LET others == IF \E i \in DOMAIN uses : uses[i] = key THEN RemoveAt(uses, Place(key)) ELSE uses
  IN  IF \E i \in DOMAIN items' : items'[i].key = key THEN Append(others, key) ELSE uses

\* The output is kept for the step, whatever becomes of the entry.
Hit(f) ==
  /\ Scan(f) /\ IsVision(f) /\ CacheKey(f) # None
  /\ \E item \in HeldOutputs(CacheKey(f)) :
        /\ Cache!Get(CacheKey(f), item)
        /\ encoded' = [encoded EXCEPT ![f] = item]
  /\ uses' = Used(CacheKey(f))
  /\ UNCHANGED <<pending, repeats>>

Missed(f) == IsVision(f) /\ CacheKey(f) # None /\ HeldOutputs(CacheKey(f)) = {}

\* Mutant: an item that waits for the encoder is not remembered.
NeverWaits(f) == FALSE

Waits(f) == repeats[CacheKey(f)] # None

Repeat(f) ==
  /\ Scan(f) /\ Missed(f) /\ Waits(f)
  /\ repeats' = [repeats EXCEPT ![CacheKey(f)] = @ \cup {f}]
  /\ UNCHANGED <<items, nbytes, pending, encoded, uses>>

Wait(f) ==
  /\ Scan(f)
  /\ \/ IsVision(f) /\ CacheKey(f) = None /\ UNCHANGED repeats
     \/ /\ Missed(f) /\ ~Waits(f)
        /\ repeats' = [repeats EXCEPT ![CacheKey(f)] = {}]
  /\ pending' = Append(pending, f)
  /\ UNCHANGED <<items, nbytes, encoded, uses>>

ScanEnds ==
  /\ pc = "scan" /\ todo = <<>> /\ pc' = "encode"
  /\ UNCHANGED <<items, nbytes, stepVars, uses>>

-----------------------------------------------------------------------------
(* The second loop: batches of one kind, the kind seen first first.        *)

\* What the first loop did not answer: the dict pending has the kind of the first first.
Queued(f) == IsVision(f) /\ (CacheKey(f) = None \/ repeats[CacheKey(f)] # None)

\* The loop finishes a kind before it turns to the other.
KindNow ==
  LET started == Feat[Head(SelectSeq(step, Queued))].kind
  IN  IF batch # <<>> THEN Feat[Head(batch)].kind
      ELSE IF \E i \in DOMAIN pending : Feat[pending[i]].kind = started THEN started
      ELSE Feat[Head(pending)].kind

\* The place of the next feature of the kind the loop is at.
IsNext(i) ==
  /\ i \in DOMAIN pending /\ Feat[pending[i]].kind = KindNow
  /\ \A j \in 1 .. i - 1 : Feat[pending[j]].kind # KindNow

Total(Size(_), s) == FoldLeft(LAMBDA total, f : total + Size(f), 0, s)

TokensOf(f) == IF Dynamic /\ Feat[f].grid THEN Tokens[Feat[f].content] ELSE 0

\* A batch's limits; a single feature may exceed those on items and pixels.
Fits(f) ==
  \/ batch = <<>>
  \/ /\ Len(batch) < MaxItems
     /\ Total(LAMBDA g : PixelBytes[Feat[g].content], Append(batch, f)) <= MaxPixelBytes
     /\ Total(TokensOf, Append(batch, f)) <= MaxTokens

Encoding == pc = "encode" /\ ready = <<>>

Take(i) ==
  /\ Encoding /\ IsNext(i) /\ TokensOf(pending[i]) <= MaxTokens /\ Fits(pending[i])
  /\ batch' = Append(batch, pending[i]) /\ pending' = RemoveAt(pending, i)
  /\ UNCHANGED <<items, nbytes, pc, step, todo, repeats, ready, encoded, uses>>

\* _run_vision_encoder on the batch: the joined output is split by the placeholder
\* counts, which are those of each item, or without grids encoded one by one.
EncodeBatch ==
  /\ Encoding /\ batch # <<>>
  /\ \A i \in DOMAIN pending : IsNext(i) => TokensOf(pending[i]) <= MaxTokens /\ ~Fits(pending[i])
  /\ \A i \in DOMAIN batch : batch[i] \notin Broken
  /\ ready' = batch /\ batch' = <<>>
  /\ UNCHANGED <<items, nbytes, pc, step, todo, pending, repeats, encoded, uses>>

\* Who gets the output of f besides f.
Waiters(f) == IF CacheKey(f) = None THEN {} ELSE repeats[CacheKey(f)]

\* encode_batch hands out one output, and caches it.
Deliver(f) ==
  /\ pc = "encode" /\ ready # <<>> /\ f = Head(ready)
  /\ encoded' = [g \in Feature |-> IF g = f \/ g \in Waiters(f) THEN Output(f) ELSE encoded[g]]
  /\ IF CacheKey(f) = None THEN UNCHANGED <<items, nbytes, uses>>
     ELSE Cache!Put(CacheKey(f), Output(f)) /\ uses' = Used(CacheKey(f))
  /\ ready' = Tail(ready)
  /\ UNCHANGED <<pc, step, todo, pending, repeats, batch>>

\* The encoder refuses a grid past its limit, or raises.
Raise ==
  /\ Encoding /\ pc' = "dead"
  /\ \/ \E i \in DOMAIN pending : IsNext(i) /\ TokensOf(pending[i]) > MaxTokens
     \/ /\ \A i \in DOMAIN pending : IsNext(i) => TokensOf(pending[i]) <= MaxTokens /\ ~Fits(pending[i])
        /\ \E i \in DOMAIN batch : batch[i] \in Broken
  /\ UNCHANGED <<items, nbytes, stepVars, uses>>

-----------------------------------------------------------------------------
StepFeatures == {step[i] : i \in {j \in DOMAIN step : IsVision(step[j])}}

EverythingRan == Encoding /\ pending = <<>> /\ batch = <<>>

\* _build_prompt_embeds scatters each feature's output; it raises if one has none.
BuildPrompts ==
  /\ EverythingRan /\ \A f \in StepFeatures : encoded[f] # None
  /\ pc' = "idle" /\ step' = <<>> /\ repeats' = NoRepeats /\ encoded' = NothingEncoded
  /\ UNCHANGED <<items, nbytes, todo, pending, batch, ready, uses>>

\* reset_encoder_cache, called between steps.
Reset ==
  /\ pc = "idle" /\ Cache!Clear /\ uses' = <<>>
  /\ UNCHANGED <<pc, stepVars>>

\* An exception out of execute_model ends the engine core.
Dead == pc = "dead" /\ UNCHANGED vars

Next ==
  \/ Begin \/ ScanEnds \/ EncodeBatch \/ Raise \/ BuildPrompts \/ Reset \/ Dead
  \/ \E f \in Feature : Skip(f) \/ Hit(f) \/ Repeat(f) \/ Wait(f) \/ Deliver(f)
  \/ \E i \in DOMAIN pending : Take(i)

Spec == Init /\ [][Next]_vars

-----------------------------------------------------------------------------
\* The byte count kept by hand is what the entries take, and stays in the budget,
\* over replaced, evicted and refused entries.
CountIsExact == Cache!CountIsExact

(***************************************************************************)
(* Batching, repeats and the cache are invisible: whatever was evicted,    *)
(* shared or cached in between, a prompt is built from the encoder's       *)
(* output of each of its own images and videos.                            *)
(***************************************************************************)
PromptsGetTheirOwnImages ==
  /\ \A f \in Feature : encoded[f] # None => encoded[f] = Output(f)
  /\ EverythingRan => \A f \in StepFeatures : encoded[f] # None

(***************************************************************************)
(* No key waits for the encoder twice, nor while the cache holds it or     *)
(* after it was encoded for this step: a step encodes each item once, and  *)
(* so put never replaces an entry.                                         *)
(***************************************************************************)
EncodesOnlyWhatIsMissing ==
  LET waiting == pending \o batch \o ready
  IN  \A i \in DOMAIN waiting :
        LET key == CacheKey(waiting[i])
        IN  key # None =>
              /\ HeldOutputs(key) = {} /\ encoded[waiting[i]] = None
              /\ \A j \in DOMAIN waiting : j # i => CacheKey(waiting[j]) # key

\* What an item pushes out was last used before all that stays.
EvictsLeastRecentlyUsed ==
  [][LET held  == Cache!HeldKeys
         after == {items'[i].key : i \in DOMAIN items'}
     IN  \A out \in held \ after : \A kept \in held \cap after : Place(out) < Place(kept)]_vars
=============================================================================
