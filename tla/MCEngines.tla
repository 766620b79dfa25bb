------------------------------ MODULE MCEngines ------------------------------
EXTENDS Engines, TLC

CONSTANTS w1, w2, llm, other

\* Lists that are too short, too long, name a card twice, or are none.
CardLists == {<<>>, <<0, 1>>, <<2, 0>>, <<1>>, <<1, 1>>, <<3, 0, 2>>}

Choices == {None, Single} \cup CardLists

\* A model of the unprefixed role and its targets on a card.
PlacesSimply(s) == s.configured = {Unprefixed} /\ s.given = {} /\ \A role \in Role : s.targets[role] = {0}

\* Later sources with a list of their own; or a model of the unprefixed role or a prefixed
\* one, with targets that span cards, or targets of the caller's that name no role.
AllServes ==
  {s \in [extra : [Role -> Choices], later : [Role -> {None, <<2, 0>>, <<3, 0, 2>>}],
          configured : {{role} : role \in Role}, given : {{}, {Unprefixed}}, targets : [Role -> {{0}, {0, 1}}],
          visible : CardLists, launcher : {"splits", "assigns", "leaves"}, dense : BOOLEAN] :
     /\ s.dense => s.launcher = "assigns"
     /\ \/ Cardinality({role \in Role : s.later[role] # None}) = 1 /\ PlacesSimply(s)
        \/ /\ \A role \in Role : s.later[role] = None
           /\ Cardinality({role \in Role : s.targets[role] # {0}} \cup s.given) <= 1}

-----------------------------------------------------------------------------
\* Sizes that are none, for all modes, for one, for two, or a default one.
NoSizes == [key \in Modes \cup {"any", "default"} |-> 0]
EveryMode(size) == [NoSizes EXCEPT !["any"] = size]
Two(size, key, another) == [NoSizes EXCEPT !["global4"] = size, ![key] = another]

Chunks == {NoSizes, EveryMode(1), EveryMode(3), [NoSizes EXCEPT !["single"] = 3], Two(4, "single", 1), Two(4, "default", 2)}
Batches == {NoSizes, EveryMode(1), EveryMode(3), Two(3, "single", 2)}

Plain ==
  [family |-> "text", mode |-> [source \in Sources |-> ""], loaderText |-> 0, loader |-> 0,
   textBatch |-> NoSizes, hfBatch |-> NoSizes, textChunk |-> NoSizes, hfChunk |-> NoSizes,
   dynamic |-> FALSE, position |-> "none", split |-> FALSE]

ModesGiven == {[Plain.mode EXCEPT ![source] = mode] : source \in Sources, mode \in Modes \cup {""}}
              \cup {[Plain.mode EXCEPT !["loaderText"] = "global4", !["hf"] = "single"]}

Multimodal == [Plain EXCEPT !.family = "qwen3_vl", !.hfBatch = EveryMode(2), !.hfChunk = EveryMode(2)]

Sized ==
  {[Plain EXCEPT !.mode = mode, !.hfBatch = batch, !.hfChunk = chunk] :
     mode \in {m \in ModesGiven : m["loaderText"] = "" /\ m["text"] = ""}, batch \in Batches, chunk \in Chunks}
  \cup {[Multimodal EXCEPT !.mode = mode, !.textBatch = EveryMode(3), !.textChunk = chunk] :
         mode \in ModesGiven, chunk \in Chunks}

Families ==
  {[Plain EXCEPT !.family = family, !.loaderText = text, !.loader = size, !.hfChunk = EveryMode(4)] :
     family \in Family, text \in {0, 3}, size \in {0, 1, 2}}

\* Batch or not, dynamic or not, the static position declared or not, the artifact split or not.
Images ==
  {m \in {[Plain EXCEPT !.family = "qwen3_vl", !.loader = size, !.dynamic = dynamic, !.position = position, !.split = split] :
            size \in {0, 2}, dynamic \in BOOLEAN, position \in {"none", "partly", "full"}, split \in BOOLEAN} :
     Consistent(m)}

Eagle3 == [Plain EXCEPT !.family = "eagle3", !.hfBatch = EveryMode(1)]

Asked == [seqs |-> 4, budget |-> 8, threshold |-> 0, partial |-> 1, prefixes |-> TRUE, length |-> 3]

AskedFor ==
  {[Asked EXCEPT !.seqs = seqs, !.budget = budget, !.threshold = threshold, !.partial = partial] :
     seqs \in {0, 1, 2, 4}, budget \in {1, 8}, threshold \in {0, 4}, partial \in {0, 3}}

Started(m, s, o) == [model |-> (llm :> m @@ other :> o), asked |-> (llm :> s @@ other :> Asked)]

Varied ==
  {Started(m, Asked, Plain) : m \in Sized} \cup {Started(m, Asked, o) : m \in Families \cup Images, o \in {Plain, Eagle3}}
  \cup {Started([Plain EXCEPT !.loader = size, !.hfChunk = EveryMode(2)], s, Plain) : size \in 0 .. 3, s \in AskedFor}

AllSetups == Varied \cup {Started(Eagle3, Asked, Plain)}

\* Whatever is varied of one, the other is plain.
AllLaunches ==
  (AllServes \X {Started(Eagle3, Asked, Plain)})
  \cup ({s \in AllServes : s.extra = [role \in Role |-> None] /\ s.later = [role \in Role |-> None]
                           /\ s.visible = <<>> /\ s.launcher = "splits" /\ PlacesSimply(s)} \X Varied)
=============================================================================
