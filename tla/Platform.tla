------------------------------- MODULE Platform -------------------------------
(***************************************************************************)
(* What the platform does for the engines of a front end's process (an     *)
(* engine per LLM object): check_and_update_config fits vLLM's settings to *)
(* the compiled model, whenever vLLM calls it, and validate_request turns  *)
(* away the requests an engine's model cannot serve, before they reach it. *)
(***************************************************************************)
EXTENDS Integers

CONSTANTS
  Llm,           \* the LLM objects of the process
  DefaultChunk,  \* the chunk size of a model that names none
  BatchChunk,    \* SINGLE_CORE_BATCH_MODEL_MAX_PREFILL_CHUNK_SIZE
  LengthLimit,   \* _QWEN3_ASR_MAX_MODEL_LEN, _MIXTURE_OF_EXPERTS_MAX_MODEL_LEN
  Setups         \* what a process may be started with: the records Setup below

Family == {"text", "qwen2_vl", "qwen3_vl", "eagle3", "moe", "asr"}

(***************************************************************************)
(* A model's config gives a size for every core mode ("any") or a map from *)
(* modes, which may have a default; 0 is no usable entry.  "" is no mode.  *)
(***************************************************************************)
Modes == {"single", "global4", "auto"}
Sizes == [Modes \cup {"any", "default"} -> Nat]

Sources == {"loaderText", "loader", "text", "hf"}

(***************************************************************************)
(* An engine's model: where the core mode, batch size and chunk size are   *)
(* given, whether it is a dynamic-vision model, how much of the compiled   *)
(* position of a static image is declared, and whether the artifact (which *)
(* the front end cannot look into) is split-static.                        *)
(***************************************************************************)
Model == [family : Family, mode : [Sources -> Modes \cup {""}],
          loaderText : Nat, loader : Nat, textBatch : Sizes, hfBatch : Sizes,
          textChunk : Sizes, hfChunk : Sizes,
          dynamic : BOOLEAN, position : {"none", "partly", "full"}, split : BOOLEAN]

\* A config that declares dynamic vision is not of a static artifact.
Consistent(m) == m.split => m.family = "qwen3_vl" /\ ~m.dynamic

(***************************************************************************)
(* vLLM's settings: max_num_seqs (0: unset), max_num_batched_tokens,       *)
(* long_prefill_token_threshold (0: unset), the two limits of partial      *)
(* prefills, prefix caching, and max_model_len.                            *)
(***************************************************************************)
Settings == [seqs : Nat, budget : Nat, threshold : Nat, partial : Nat, prefixes : BOOLEAN, length : Nat]

\* Each LLM object has a model and asks for settings.
Setup == [model : [Llm -> {m \in Model : Consistent(m)}], asked : [Llm -> Settings]]

ASSUME PlatformAssumption ==
  /\ DefaultChunk \in Nat \ {0} /\ BatchChunk \in Nat \ {0} /\ DefaultChunk <= BatchChunk
  /\ LengthLimit \in Nat
  /\ Setups \subseteq Setup

VARIABLES
  model,      \* of each LLM
  settings,
  phase,      \* "new", "ready" once the hook went through, or "refused"
  serving     \* _serving_eagle3, of the platform's class

platformVars == <<model, settings, phase, serving>>

PlatformInit ==
  /\ \E setup \in Setups : model = setup.model /\ settings = setup.asked
  /\ phase = [l \in Llm |-> "new"]
  /\ serving = FALSE

-----------------------------------------------------------------------------
(* Reading a model's sizes. *)

OrElse(value, none, other) == IF value = none THEN other ELSE value

IsMultimodal(m) == m.family \in {"qwen2_vl", "qwen3_vl"}

\* _resolve_core_mode
CoreMode(m, text) ==
  IF text
  THEN OrElse(m.mode["loaderText"], "", OrElse(m.mode["loader"], "", OrElse(m.mode["text"], "", m.mode["hf"])))
  ELSE OrElse(m.mode["loader"], "", m.mode["hf"])

\* _resolve_model_config_positive_int
PositiveInt(sizes, mode) ==
  LET keys == {key \in DOMAIN sizes : sizes[key] > 0}
  IN  IF "any" \in keys THEN sizes["any"]
      ELSE IF mode \in keys THEN sizes[mode]
      ELSE IF "default" \in keys THEN sizes["default"]
      ELSE IF mode \in {"", "auto"} /\ (\E key \in keys : keys = {key}) THEN sizes[CHOOSE key \in keys : TRUE]
      ELSE 0

\* The size of the text part of a multimodal model wins.
TextFirst(m, text, hf) ==
  LET own == PositiveInt(hf, CoreMode(m, IsMultimodal(m)))
  IN  IF IsMultimodal(m) THEN OrElse(PositiveInt(text, CoreMode(m, TRUE)), 0, own) ELSE own

\* resolve_model_max_batch_size; 0 is None.
MaxBatchSize(m) ==
  LET given == OrElse(m.loader, 0, TextFirst(m, m.textBatch, m.hfBatch))
  IN  IF IsMultimodal(m) THEN OrElse(m.loaderText, 0, given) ELSE given

\* resolve_npu_prefill_chunk_size
ChunkSize(m) == TextFirst(m, m.textChunk, m.hfChunk)

Smaller(a, b) == IF a < b THEN a ELSE b
Larger(a, b) == IF a > b THEN a ELSE b

\* resolve_effective_npu_prefill_chunk_size
EffectiveChunkSize(m) ==
  IF ChunkSize(m) = 0 THEN DefaultChunk
  ELSE IF MaxBatchSize(m) > 1 THEN Smaller(ChunkSize(m), BatchChunk)
  ELSE ChunkSize(m)

-----------------------------------------------------------------------------
(* check_and_update_config *)

IsEagle3(m) == m.family = "eagle3"

\* Models that serve one sequence at a time are not configured as batch models.
Raises(m) == m.family \in {"eagle3", "moe"} /\ MaxBatchSize(m) > 1

MaxNumSeqs(m, asked) ==
  IF MaxBatchSize(m) = 0 THEN asked
  ELSE IF asked = 0 THEN MaxBatchSize(m) ELSE Smaller(asked, MaxBatchSize(m))

\* What is set before the batch size is looked at.
Restricted(m, s) ==
  [s EXCEPT !.prefixes = @ /\ ~IsEagle3(m),
            !.length = IF m.family \in {"moe", "asr"} THEN Smaller(@, LengthLimit) ELSE @]

\* Mutant: a sequence of a batch may take the whole budget.
ConfiguredWithoutThreshold(m, s) ==
  LET seqs  == MaxNumSeqs(m, s.seqs)
      batch == MaxBatchSize(m) > 0 /\ seqs > 1
  IN  [Restricted(m, s) EXCEPT
         !.seqs = seqs,
         !.budget = IF batch THEN EffectiveChunkSize(m) * seqs ELSE Smaller(@, EffectiveChunkSize(m)),
         !.partial = IF batch THEN Larger(@, seqs) ELSE @]

Configured(m, s) ==
  LET seqs  == MaxNumSeqs(m, s.seqs)
      batch == MaxBatchSize(m) > 0 /\ seqs > 1
  IN  [Restricted(m, s) EXCEPT
         !.seqs = seqs,
         !.budget = IF batch THEN EffectiveChunkSize(m) * seqs ELSE Smaller(@, EffectiveChunkSize(m)),
         !.threshold = IF batch THEN EffectiveChunkSize(m) ELSE @,
         !.partial = IF batch THEN Larger(@, seqs) ELSE @]

\* The hook on an LLM's configuration; prepared says whether the data parallel part,
\* which comes after _serving_eagle3 is set, let it through.
CheckAndUpdateConfig(l, prepared) ==
  /\ phase[l] # "refused"
  /\ serving' = IsEagle3(model[l])
  /\ phase' = [phase EXCEPT ![l] = IF prepared /\ ~Raises(model[l]) THEN "ready" ELSE "refused"]
  /\ settings' = [settings EXCEPT ![l] = IF ~prepared THEN @
                                         ELSE IF Raises(model[l]) THEN Restricted(model[l], @)
                                         ELSE Configured(model[l], @)]
  /\ UNCHANGED model

PlatformNext == \E l \in Llm, prepared \in BOOLEAN : CheckAndUpdateConfig(l, prepared)

PlatformSpec == PlatformInit /\ [][PlatformNext]_platformVars

-----------------------------------------------------------------------------
(***************************************************************************)
(* validate_request, which changes nothing.  A request sets options EAGLE-3*)
(* rounds cannot honor or not, and comes as tokens or not.  It brings      *)
(* nothing to see, one image, several, or a video or something else beside *)
(* what images there are.  One image is "placed" where the artifact was    *)
(* compiled for it, or is elsewhere, or elsewhere than the one its session *)
(* brought before.  vLLM calls from a method of the engine, unless it is   *)
(* too old.                                                                *)
(***************************************************************************)
Media == {"none", "placed", "elsewhere", "moved", "images", "video", "other"}

Request == {q \in [options : BOOLEAN, tokens : BOOLEAN, media : Media] : q.tokens => q.media = "none"}

\* Mutant: the engine configured last decides.
EngineConfiguredLast(l, caller) == serving

ValidatingForEagle3(l, caller) == IF caller = "engine" THEN IsEagle3(model[l]) ELSE serving

DeclaresStaticBatch(m) == m.family = "qwen3_vl" /\ ~m.dynamic /\ m.position # "none" /\ MaxBatchSize(m) > 1

Refuses(l, q, caller) ==
  \/ caller = "engine" /\ DeclaresStaticBatch(model[l]) /\ (model[l].position = "partly" \/ q.media # "placed")
  \/ ValidatingForEagle3(l, caller) /\ (q.options \/ ~q.tokens)

\* _check_text_mxq_supported: the artifacts a worker loads.
Loads(m) == m.split /\ MaxBatchSize(m) > 1 => m.position = "full"

\* Only a split-static artifact of batch size above 1 has a compiled place for the image.
HasCompiledPlace(m) == m.split /\ MaxBatchSize(m) > 1

\* _supports_dynamic_qwen3_vl_inputs
IsDynamic(m) == m.family = "qwen3_vl" /\ m.dynamic

\* _validate_mobilint_vlm_request_constraints does not raise, which would end the engine.
TakesMedia(m, q) ==
  \/ q.media = "none" /\ ~HasCompiledPlace(m)
  \/ IsDynamic(m) /\ q.media # "other"
  \/ q.media = "placed"
  \/ q.media = "elsewhere" /\ ~HasCompiledPlace(m)

\* What the worker takes, and what the rounds of an EAGLE-3 model can honor.
CanServe(m, q) ==
  /\ IsMultimodal(m) => TakesMedia(m, q)
  /\ IsEagle3(m) => ~q.options /\ q.tokens

-----------------------------------------------------------------------------
\* The most tokens of one sequence vLLM schedules at once.
AtOnce(s) == IF s.threshold = 0 THEN s.budget ELSE Smaller(s.budget, s.threshold)

(***************************************************************************)
(* The settings keep vLLM within what the model was compiled for, and      *)
(* the sequences of a batch do not take each other's part of a step.       *)
(***************************************************************************)
Fits(m, s) ==
  LET batch == MaxBatchSize(m)
  IN  /\ batch > 0 => s.seqs \in 1 .. batch
      /\ AtOnce(s) <= OrElse(ChunkSize(m), 0, DefaultChunk)
      /\ batch > 1 => AtOnce(s) <= BatchChunk
      /\ batch > 0 /\ s.seqs > 1 => s.budget >= s.seqs * AtOnce(s) /\ s.partial >= s.seqs

(***************************************************************************)
(* What the front end leaves to the clients of an image-text model whose   *)
(* static position is not declared: README.md's limits of it, no video and *)
(* one image, at the place its session had it before.                      *)
(***************************************************************************)
KeepsToTheLimits(m, q) ==
  IsMultimodal(m) =>
    q.media # "other" /\ (IsDynamic(m) \/ q.media \in {"none", "placed", "elsewhere"})

(***************************************************************************)
(* A request is judged by the model of the engine it is for, whichever was *)
(* configured last.  What is let through can be served: of an EAGLE-3      *)
(* model and of a batch qwen3_vl with a declared static position, whatever *)
(* the client sends; of the other image-text models, what keeps to their   *)
(* limits, which validate_request does not look at (another request raises *)
(* in execute_model and ends the engine).  Nothing is turned away that     *)
(* could be served, unless a static position is declared for an artifact   *)
(* that has none.  Where the caller is no engine, the flag of the class    *)
(* answers as well while the hook has only seen models that are all of     *)
(* EAGLE-3 or none of it (validate_request, _validating_for_eagle3,        *)
(* _validate_mobilint_vlm_request_constraints).                            *)
(***************************************************************************)
RequestsJudgedByTheirEngine ==
  \A l \in Llm : phase[l] = "ready" /\ Loads(model[l]) =>
    \A q \in Request :
      /\ ~Refuses(l, q, "engine") /\ (DeclaresStaticBatch(model[l]) \/ KeepsToTheLimits(model[l], q))
           => CanServe(model[l], q)
      /\ Refuses(l, q, "engine") /\ (DeclaresStaticBatch(model[l]) => model[l].split)
           => ~CanServe(model[l], q)
      /\ (\A k \in Llm : phase[k] # "new" => IsEagle3(model[k]) = IsEagle3(model[l]))
           => (Refuses(l, q, "another") <=> IsEagle3(model[l]) /\ ~CanServe(model[l], q))
=============================================================================
