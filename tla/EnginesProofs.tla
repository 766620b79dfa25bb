---------------------------- MODULE EnginesProofs ----------------------------
(***************************************************************************)
(* Proofs about Engines, for any serves, numbers of cards and engines,     *)
(* launchers, workers, traced rank, models and settings asked for: engines *)
(* keep to their own cards, vLLM to the models' sizes, and traces to their *)
(* windows.                                                                *)
(***************************************************************************)
EXTENDS Engines, TLAPS

-----------------------------------------------------------------------------
(* Sizes. *)

LEMMA PositiveIntIsSize ==
  ASSUME NEW sizes \in Sizes, NEW mode
  PROVE  PositiveInt(sizes, mode) \in Nat
<1>. DEFINE keys == {key \in Modes \cup {"any", "default"} : sizes[key] > 0}
<1>1. keys = {key \in DOMAIN sizes : sizes[key] > 0} /\ \A key \in keys : sizes[key] \in Nat
  BY DEF Sizes
<1>2. ASSUME \E key \in keys : keys = {key} PROVE (CHOOSE key \in keys : TRUE) \in keys
  BY <1>2
<1>. HIDE DEF keys
<1>. QED BY <1>1, <1>2 DEF PositiveInt

LEMMA SizesAreNumbers ==
  ASSUME NEW m \in Model
  PROVE  /\ MaxBatchSize(m) \in Nat /\ ChunkSize(m) \in Nat
         /\ EffectiveChunkSize(m) \in Nat \ {0}
         /\ EffectiveChunkSize(m) <= OrElse(ChunkSize(m), 0, DefaultChunk)
         /\ MaxBatchSize(m) > 1 => EffectiveChunkSize(m) <= BatchChunk
<1>1. /\ m.loaderText \in Nat /\ m.loader \in Nat
      /\ m.textBatch \in Sizes /\ m.hfBatch \in Sizes /\ m.textChunk \in Sizes /\ m.hfChunk \in Sizes
  BY DEF Model
<1>2. TextFirst(m, m.textBatch, m.hfBatch) \in Nat /\ ChunkSize(m) \in Nat
  BY <1>1, PositiveIntIsSize DEF ChunkSize, TextFirst, OrElse
<1>3. MaxBatchSize(m) \in Nat
  BY <1>1, <1>2 DEF MaxBatchSize, OrElse
<1>. QED BY <1>2, <1>3, PlatformAssumption DEF EffectiveChunkSize, OrElse, Smaller

\* A part is no larger than the whole.
LEMMA ProductIsLarger ==
  ASSUME NEW a \in Nat, NEW b \in Nat, b > 1
  PROVE  a * b \in Nat /\ a <= a * b
<1>1. PICK c \in Nat : b = 1 + c
  <2>1. b - 1 \in Nat /\ b = 1 + (b - 1)
    OBVIOUS
  <2>. QED BY <2>1
<1>2. a * b = a + a * c /\ a * c \in Nat
  BY <1>1
<1>. QED BY <1>2

-----------------------------------------------------------------------------
(* What the hook leaves. *)

LEMMA SameSettings ==
  ASSUME NEW s \in Settings, NEW t \in Settings,
         s.seqs = t.seqs, s.budget = t.budget, s.threshold = t.threshold, s.partial = t.partial,
         s.prefixes = t.prefixes, s.length = t.length
  PROVE  s = t
  BY DEF Settings

LEMMA RestrictedSettings ==
  ASSUME NEW m \in Model, NEW s \in Settings
  PROVE  /\ Restricted(m, s) \in Settings
         /\ Restricted(m, s).seqs = s.seqs /\ Restricted(m, s).budget = s.budget
         /\ Restricted(m, s).threshold = s.threshold /\ Restricted(m, s).partial = s.partial
         /\ Restricted(m, s).prefixes = (s.prefixes /\ ~IsEagle3(m))
         /\ Restricted(m, s).length = IF m.family \in {"moe", "asr"} THEN Smaller(s.length, LengthLimit) ELSE s.length
<1>. DEFINE prefixes == s.prefixes /\ ~IsEagle3(m)
            length   == IF m.family \in {"moe", "asr"} THEN Smaller(s.length, LengthLimit) ELSE s.length
<1>1. prefixes \in BOOLEAN /\ length \in Nat
  BY PlatformAssumption DEF Settings, Smaller
<1>2. Restricted(m, s) = [s EXCEPT !.prefixes = prefixes, !.length = length]
  BY DEF Restricted
<1>. HIDE DEF prefixes, length
<1>3. /\ Restricted(m, s) \in Settings
      /\ Restricted(m, s).seqs = s.seqs /\ Restricted(m, s).budget = s.budget
      /\ Restricted(m, s).threshold = s.threshold /\ Restricted(m, s).partial = s.partial
      /\ Restricted(m, s).prefixes = prefixes /\ Restricted(m, s).length = length
  BY <1>1, <1>2 DEF Settings
<1>. QED BY <1>3 DEF prefixes, length

LEMMA SeqsOfBatch ==
  ASSUME NEW m \in Model, NEW asked \in Nat
  PROVE  /\ MaxNumSeqs(m, asked) \in Nat
         /\ MaxBatchSize(m) > 0 => MaxNumSeqs(m, asked) \in 1 .. MaxBatchSize(m)
         /\ MaxNumSeqs(m, MaxNumSeqs(m, asked)) = MaxNumSeqs(m, asked)
  BY SizesAreNumbers DEF MaxNumSeqs, Smaller

LEMMA ConfiguredSettings ==
  ASSUME NEW m \in Model, NEW s \in Settings
  PROVE  LET t     == Configured(m, s)
             chunk == EffectiveChunkSize(m)
             whole == MaxBatchSize(m) > 0 /\ MaxNumSeqs(m, s.seqs) > 1
         IN  /\ t \in Settings
             /\ t.seqs = MaxNumSeqs(m, s.seqs)
             /\ t.budget = IF whole THEN chunk * MaxNumSeqs(m, s.seqs) ELSE Smaller(s.budget, chunk)
             /\ t.threshold = IF whole THEN chunk ELSE s.threshold
             /\ t.partial = IF whole THEN Larger(s.partial, MaxNumSeqs(m, s.seqs)) ELSE s.partial
             /\ t.prefixes = Restricted(m, s).prefixes /\ t.length = Restricted(m, s).length
<1>. DEFINE seqs      == MaxNumSeqs(m, s.seqs)
            chunk     == EffectiveChunkSize(m)
            whole     == MaxBatchSize(m) > 0 /\ seqs > 1
            r         == Restricted(m, s)
            budget    == IF whole THEN chunk * seqs ELSE Smaller(r.budget, chunk)
            threshold == IF whole THEN chunk ELSE r.threshold
            partial   == IF whole THEN Larger(r.partial, seqs) ELSE r.partial
            t         == Configured(m, s)
<1>1. t = [r EXCEPT !.seqs = seqs, !.budget = budget, !.threshold = threshold, !.partial = partial]
  BY DEF Configured
<1>2. r \in Settings /\ r.budget = s.budget /\ r.threshold = s.threshold /\ r.partial = s.partial
  BY RestrictedSettings
<1>3. /\ s.seqs \in Nat /\ s.budget \in Nat /\ s.threshold \in Nat /\ s.partial \in Nat
      /\ chunk \in Nat \ {0} /\ seqs \in Nat
  BY SizesAreNumbers, SeqsOfBatch DEF Settings
<1>4. budget \in Nat /\ threshold \in Nat /\ partial \in Nat
  <2>1. chunk * seqs \in Nat
    BY <1>3
  <2>. HIDE DEF chunk, seqs, r, whole
  <2>. QED BY <2>1, <1>2, <1>3 DEF Smaller, Larger
<1>. HIDE DEF budget, threshold, partial, seqs, r, t
<1>5. /\ t \in Settings /\ t.seqs = seqs /\ t.budget = budget /\ t.threshold = threshold /\ t.partial = partial
      /\ t.prefixes = r.prefixes /\ t.length = r.length
  BY <1>1, <1>2, <1>3, <1>4 DEF Settings
<1>. QED BY <1>2, <1>5 DEF budget, threshold, partial, seqs, r, t

LEMMA HookFits ==
  ASSUME NEW m \in Model, NEW s \in Settings
  PROVE  /\ Configured(m, s) \in Settings /\ Restricted(m, s) \in Settings
         /\ Fits(m, Configured(m, s))
         /\ Configured(m, Configured(m, s)) = Configured(m, s)
<1>. DEFINE batch == MaxBatchSize(m)
            chunk == EffectiveChunkSize(m)
            seqs  == MaxNumSeqs(m, s.seqs)
            whole == batch > 0 /\ seqs > 1
            t     == Configured(m, s)
            u     == Configured(m, t)
<1>1. batch \in Nat /\ chunk \in Nat \ {0} /\ LengthLimit \in Nat
  BY SizesAreNumbers, PlatformAssumption
<1>2. /\ s.seqs \in Nat /\ s.budget \in Nat /\ s.threshold \in Nat /\ s.partial \in Nat
      /\ s.prefixes \in BOOLEAN /\ s.length \in Nat
  BY DEF Settings
<1>3. seqs \in Nat /\ (batch > 0 => seqs \in 1 .. batch) /\ MaxNumSeqs(m, seqs) = seqs
  BY <1>2, SeqsOfBatch
<1>4. whole => chunk * seqs \in Nat /\ chunk <= chunk * seqs
  BY <1>1, <1>3, ProductIsLarger
<1>5. /\ t \in Settings /\ t.seqs = seqs
      /\ t.budget = IF whole THEN chunk * seqs ELSE Smaller(s.budget, chunk)
      /\ t.threshold = IF whole THEN chunk ELSE s.threshold
      /\ t.partial = IF whole THEN Larger(s.partial, seqs) ELSE s.partial
      /\ t.prefixes = Restricted(m, s).prefixes /\ t.length = Restricted(m, s).length
  BY ConfiguredSettings
<1>. HIDE DEF t
<1>6. /\ u \in Settings /\ u.seqs = seqs
      /\ u.budget = IF whole THEN chunk * seqs ELSE Smaller(t.budget, chunk)
      /\ u.threshold = IF whole THEN chunk ELSE t.threshold
      /\ u.partial = IF whole THEN Larger(t.partial, seqs) ELSE t.partial
      /\ u.prefixes = Restricted(m, t).prefixes /\ u.length = Restricted(m, t).length
  BY <1>3, <1>5, ConfiguredSettings
<1>. HIDE DEF batch, chunk, seqs, u
<1>7. u = t
  <2>1. u.budget = t.budget /\ u.threshold = t.threshold /\ u.partial = t.partial
    BY <1>1, <1>2, <1>3, <1>5, <1>6 DEF Smaller, Larger
  <2>2. u.prefixes = t.prefixes
    <3>1. t.prefixes = (s.prefixes /\ ~IsEagle3(m)) /\ t.prefixes \in BOOLEAN
      BY <1>5, RestrictedSettings DEF Settings
    <3>2. u.prefixes = (t.prefixes /\ ~IsEagle3(m)) /\ u.prefixes \in BOOLEAN
      BY <1>5, <1>6, RestrictedSettings DEF Settings
    <3>3. (t.prefixes <=> s.prefixes /\ ~IsEagle3(m)) /\ (u.prefixes <=> t.prefixes /\ ~IsEagle3(m))
      BY <3>1, <3>2
    <3>4. u.prefixes <=> t.prefixes
      BY <3>3
    <3>5. t.prefixes \in {TRUE, FALSE} /\ u.prefixes \in {TRUE, FALSE}
      BY <3>1, <3>2
    <3>6. CASE t.prefixes = TRUE
      <4>1. u.prefixes # FALSE
        BY <3>4, <3>6
      <4>. QED BY <4>1, <3>5, <3>6
    <3>7. CASE t.prefixes = FALSE
      <4>1. u.prefixes # TRUE
        BY <3>4, <3>7
      <4>. QED BY <4>1, <3>5, <3>7
    <3>. QED BY <3>5, <3>6, <3>7
  <2>3. u.length = t.length
    BY <1>1, <1>2, <1>5, <1>6, RestrictedSettings DEF Smaller
  <2>. QED BY <2>1, <2>2, <2>3, <1>5, <1>6, SameSettings
<1>8. AtOnce(t) \in Nat /\ AtOnce(t) <= chunk /\ (whole => AtOnce(t) = chunk)
  BY <1>1, <1>2, <1>3, <1>4, <1>5 DEF AtOnce, Smaller
<1>9. Fits(m, t)
  <2>1. AtOnce(t) <= OrElse(ChunkSize(m), 0, DefaultChunk) /\ (batch > 1 => AtOnce(t) <= BatchChunk)
    BY <1>1, <1>8, SizesAreNumbers, PlatformAssumption DEF OrElse, batch, chunk
  <2>2. ASSUME whole PROVE t.budget >= t.seqs * AtOnce(t) /\ t.partial >= t.seqs
    <3>1. seqs * chunk = chunk * seqs
      BY <1>1, <1>3
    <3>2. t.partial >= t.seqs
      BY <2>2, <1>2, <1>3, <1>5 DEF Larger
    <3>. QED BY <2>2, <3>1, <3>2, <1>3, <1>4, <1>5, <1>8
  <2>. QED BY <2>1, <2>2, <1>3, <1>5 DEF Fits, batch
<1>. QED BY <1>5, <1>7, <1>9, RestrictedSettings DEF t, u

-----------------------------------------------------------------------------
(* The invariant of the settings.                                          *)

\* serving is of some model the hook has seen, if any.
ServingIsOfSomeModel ==
  (\E l \in Llm : phase[l] # "new") => \E l \in Llm : phase[l] # "new" /\ serving = IsEagle3(model[l])

PlatformInv ==
  /\ model \in [Llm -> Model] /\ settings \in [Llm -> Settings]
  /\ phase \in [Llm -> {"new", "ready", "refused"}]
  /\ \A l \in Llm : Consistent(model[l])
  /\ \A l \in Llm : phase[l] = "ready" =>
       /\ ~Raises(model[l])
       /\ Fits(model[l], settings[l]) /\ Configured(model[l], settings[l]) = settings[l]
  /\ ServingIsOfSomeModel

LEMMA PlatformInitInv == PlatformInit => PlatformInv
<1>. SUFFICES ASSUME PlatformInit PROVE PlatformInv
  OBVIOUS
<1>1. PICK setup \in Setup : model = setup.model /\ settings = setup.asked
  BY PlatformAssumption DEF PlatformInit
<1>2. model \in [Llm -> {m \in Model : Consistent(m)}] /\ settings \in [Llm -> Settings]
  BY <1>1 DEF Setup
<1>. HIDE DEF Model, Settings
<1>. QED BY <1>2 DEF PlatformInit, PlatformInv, ServingIsOfSomeModel

LEMMA HookKeeps ==
  ASSUME PlatformInv, NEW l \in Llm, NEW prepared \in BOOLEAN, CheckAndUpdateConfig(l, prepared)
  PROVE  PlatformInv' /\ (phase[l] = "ready" => settings' = settings /\ (prepared => phase'[l] = "ready"))
<1>. USE DEF PlatformInv
<1>1. /\ UNCHANGED model /\ serving' = IsEagle3(model[l]) /\ phase' \in [Llm -> {"new", "ready", "refused"}]
      /\ phase'[l] \in {"ready", "refused"} /\ \A k \in Llm : k # l => phase'[k] = phase[k]
  BY DEF CheckAndUpdateConfig
<1>2. model[l] \in Model /\ settings[l] \in Settings
  OBVIOUS
<1>3. ServingIsOfSomeModel'
  BY <1>1 DEF ServingIsOfSomeModel
<1>4. phase[l] = "ready" /\ prepared => phase'[l] = "ready"
  BY DEF CheckAndUpdateConfig
<1>. DEFINE t == settings'[l]
<1>5. /\ settings' = [settings EXCEPT ![l] = t]
      /\ t \in {settings[l], Restricted(model[l], settings[l]), Configured(model[l], settings[l])}
      /\ phase'[l] = "ready" => t = Configured(model[l], settings[l]) /\ ~Raises(model[l])
      /\ ~Raises(model[l]) => t # Restricted(model[l], settings[l]) \/ t \in {settings[l], Configured(model[l], settings[l])}
  BY DEF CheckAndUpdateConfig
<1>6. /\ t \in Settings
      /\ Configured(model[l], settings[l]) = t => Fits(model[l], t) /\ Configured(model[l], t) = t
  BY <1>2, <1>5, HookFits
<1>7. phase[l] = "ready" => settings' = settings
  BY <1>5
<1>8. \A k \in Llm : phase'[k] = "ready" =>
        /\ ~Raises(model[k])
        /\ Fits(model[k], settings'[k]) /\ Configured(model[k], settings'[k]) = settings'[k]
  BY <1>1, <1>5, <1>6
<1>9. settings' \in [Llm -> Settings]
  BY <1>5, <1>6
<1>. QED BY <1>1, <1>3, <1>4, <1>7, <1>8, <1>9

LEMMA PlatformStutters == PlatformInv /\ UNCHANGED platformVars => PlatformInv'
  BY DEF PlatformInv, platformVars, ServingIsOfSomeModel

LEMMA PlatformKeeps == PlatformInv /\ [PlatformNext]_platformVars => PlatformInv'
  BY HookKeeps, PlatformStutters DEF PlatformNext

LEMMA InvJudges == PlatformInv => RequestsJudgedByTheirEngine
<1>. SUFFICES ASSUME PlatformInv, NEW l \in Llm, phase[l] = "ready", Loads(model[l]), NEW q \in Request
              PROVE  /\ ~Refuses(l, q, "engine") /\ (DeclaresStaticBatch(model[l]) \/ KeepsToTheLimits(model[l], q))
                          => CanServe(model[l], q)
                     /\ Refuses(l, q, "engine") /\ (DeclaresStaticBatch(model[l]) => model[l].split)
                          => ~CanServe(model[l], q)
                     /\ (\A k \in Llm : phase[k] # "new" => IsEagle3(model[k]) = IsEagle3(model[l]))
                          => (Refuses(l, q, "another") <=> IsEagle3(model[l]) /\ ~CanServe(model[l], q))
  BY DEF RequestsJudgedByTheirEngine
<1>. DEFINE m == model[l]
            batch == MaxBatchSize(m) > 1
<1>1. /\ Consistent(m) /\ m.position \in {"none", "partly", "full"}
      /\ q.options \in BOOLEAN /\ q.tokens \in BOOLEAN /\ q.media \in Media
      /\ m.split \in BOOLEAN /\ m.dynamic \in BOOLEAN
  BY DEF PlatformInv, Model, Request
<1>2. DeclaresStaticBatch(m) = (m.family = "qwen3_vl" /\ ~m.dynamic /\ m.position # "none" /\ batch)
  BY DEF DeclaresStaticBatch
<1>3. m.split /\ batch => m.position = "full"
  BY DEF Loads
<1>4. CanServe(m, q) <=> (IsMultimodal(m) => TakesMedia(m, q)) /\ (IsEagle3(m) => ~q.options /\ q.tokens)
  BY DEF CanServe
<1>5. TakesMedia(m, q) <=> \/ q.media = "none" /\ ~(m.split /\ batch)
                           \/ m.family = "qwen3_vl" /\ m.dynamic /\ q.media # "other"
                           \/ q.media = "placed"
                           \/ q.media = "elsewhere" /\ ~(m.split /\ batch)
  BY DEF TakesMedia, IsDynamic, HasCompiledPlace
<1>6. KeepsToTheLimits(m, q) <=>
         (IsMultimodal(m) => /\ q.media # "other"
                             /\ \/ m.family = "qwen3_vl" /\ m.dynamic
                                \/ q.media \in {"none", "placed", "elsewhere"})
  BY DEF KeepsToTheLimits, IsDynamic
<1>7. /\ IsMultimodal(m) <=> m.family \in {"qwen2_vl", "qwen3_vl"}
      /\ IsEagle3(m) <=> m.family = "eagle3"
  BY DEF IsMultimodal, IsEagle3
<1>8. Refuses(l, q, "engine") <=>
        \/ DeclaresStaticBatch(m) /\ (m.position = "partly" \/ q.media # "placed")
        \/ IsEagle3(m) /\ (q.options \/ ~q.tokens)
  BY DEF Refuses, ValidatingForEagle3
<1>9. Refuses(l, q, "another") <=> serving /\ (q.options \/ ~q.tokens)
  BY DEF Refuses, ValidatingForEagle3
<1>10. ASSUME \A k \in Llm : phase[k] # "new" => IsEagle3(model[k]) = IsEagle3(model[l])
       PROVE  serving = IsEagle3(m)
  BY <1>10 DEF PlatformInv, ServingIsOfSomeModel
<1>11. IsEagle3(m) => ~m.split
  BY <1>1 DEF IsEagle3, Consistent
<1>12. m.split => m.family = "qwen3_vl" /\ ~m.dynamic
  BY <1>1 DEF Consistent
<1>. HIDE DEF m, batch
<1>. QED BY <1>1, <1>2, <1>3, <1>4, <1>5, <1>6, <1>7, <1>8, <1>9, <1>10, <1>11, <1>12 DEF m

-----------------------------------------------------------------------------
(* Lists of cards. *)

LEMMA ListIsOneGiven ==
  ASSUME NEW given \in Given, Lists(given) # {}
  PROVE  CardList(given) \in Lists(given) /\ CardList(given) # None
<1>1. CardList(given) \in Lists(given)
  BY DEF CardList
<1>. QED BY <1>1 DEF Lists

LEMMA CardListIsSound ==
  ASSUME NEW given \in Given, Acceptable(given), CardList(given) # None
  PROVE  CardList(given) \in Cards /\ Len(CardList(given)) > 0 /\ IsInjective(CardList(given))
<1>. DEFINE list == CardList(given)
<1>1. Lists(given) # {}
  BY DEF CardList
<1>2. list \in Lists(given)
  BY <1>1, ListIsOneGiven
<1>3. IsCardList(list)
  BY <1>2 DEF Acceptable
<1>4. list \in Cards
  BY <1>2, <1>3, LayoutAssumption DEF Lists, Given, IsCardList
<1>5. list # <<>> /\ IsInjective(list)
  BY <1>3 DEF IsCardList
<1>. QED BY <1>4, <1>5 DEF Cards

LEMMA MergedOrNone ==
  ASSUME serve \in Serve
  PROVE  /\ Merged \in Given
         /\ CardList(Merged) = None => CardList(serve.extra) = None
         /\ (\A role \in Role : serve.later[role] = None) => Merged = serve.extra
<1>1. serve.extra \in Given /\ serve.later \in Given
  BY DEF Serve
<1>2. Merged \in Given
  BY <1>1 DEF Merged, Given
<1>3. ASSUME CardList(Merged) = None PROVE CardList(serve.extra) = None
  <2>1. Lists(Merged) = {}
    BY <1>2, <1>3, ListIsOneGiven
  <2>2. \A role \in Role : Merged[role] = None
    BY <2>1 DEF Lists
  <2>3. \A role \in Role : serve.extra[role] = None
    BY <2>2 DEF Merged
  <2>4. Lists(serve.extra) = {}
    BY <2>3 DEF Lists
  <2>. QED BY <2>4 DEF CardList
<1>4. ASSUME \A role \in Role : serve.later[role] = None PROVE Merged = serve.extra
  <2>1. Merged = [role \in Role |-> serve.extra[role]]
    BY <1>4 DEF Merged
  <2>. QED BY <2>1, <1>1 DEF Given
<1>. QED BY <1>2, <1>3, <1>4

-----------------------------------------------------------------------------
(* The invariant of the start. *)

Process == [phase : {"none", "started", "narrowed", "up", "refused"}, visible : Cards,
            checked : BOOLEAN, assigned : Nat \cup {None}, size : Nat, recorded : BOOLEAN,
            cards : SUBSET Nat]

TypeOK ==
  /\ serve \in Serve
  /\ front \in [phase : {"new", "ready", "refused"}, visible : Cards, checked : BOOLEAN, recorded : BOOLEAN]
  /\ engine \in [Rank -> Process]

\* Lists that give every local rank a card of its own.
Enough(visible) == visible = <<>> \/ (IsInjective(visible) /\ Len(visible) >= LocalSize)

\* What the first check leaves for the engines.
Settled ==
  /\ front.recorded /\ Acceptable(serve.extra) /\ Enough(front.visible)
  /\ CardList(serve.extra) = None => front.visible = serve.visible
  /\ CardList(serve.extra) # None => /\ front.visible = CardList(serve.extra)
                                     /\ front.visible # <<>> /\ serve.visible = <<>>

FrontIsSettled ==
  IF front.checked THEN front.phase = "ready" /\ Settled
  ELSE front.phase # "ready" /\ front.visible = serve.visible

\* Nothing but the serve itself can make an engine refuse.
MayRefuse == ~CanPlace \/ \E role \in Role : serve.later[role] # None

LEMMA ServeDecides == serve' = serve => Merged' = Merged /\ MayRefuse' = MayRefuse
  BY DEF Merged, MayRefuse, CanPlace, NpuRoles, NamedRoles

EngineIsRight(r) ==
  /\ engine[r].phase # "none" =>
       /\ front.checked /\ engine[r].checked /\ engine[r].recorded
       /\ engine[r].visible \in {front.visible, <<PhysicalCard(r)>>}
       /\ engine[r].assigned \in {None, PhysicalCard(r)}
  /\ Up(r) => /\ engine[r].cards = {NamedCard(r)} /\ Acceptable(Merged)
              /\ CardList(Merged) # None => r < Len(CardList(Merged))
  /\ engine[r].phase = "refused" => MayRefuse

Inv == TypeOK /\ FrontIsSettled /\ \A r \in Rank : EngineIsRight(r)

LEMMA RankHasCard ==
  ASSUME TypeOK, Settled, NEW r \in Rank
  PROVE  /\ PhysicalCard(r) \in Nat
         /\ front.visible # <<>> => r + 1 \in DOMAIN front.visible
<1>1. front.visible \in Seq(Nat) /\ r \in Nat /\ r < LocalSize
  BY LayoutAssumption DEF TypeOK, Cards, Rank
<1>2. ASSUME front.visible # <<>> PROVE r + 1 \in 1 .. Len(front.visible)
  BY <1>1, <1>2, LayoutAssumption DEF Settled, Enough
<1>. QED BY <1>1, <1>2 DEF PhysicalCard

LEMMA InitInv == Init => Inv
<1>. SUFFICES ASSUME Init PROVE Inv
  OBVIOUS
<1>1. serve \in Serve /\ serve.visible \in Cards
  BY LayoutAssumption DEF Init, Serve
<1>2. Nowhere \in Process
  BY LayoutAssumption DEF Nowhere, Process, Cards
<1>. QED BY <1>1, <1>2 DEF Init, Inv, TypeOK, FrontIsSettled, EngineIsRight, Up, Nowhere

LEMMA PrepareKeeps == Inv /\ Prepare => Inv'
<1>. SUFFICES ASSUME Inv, Prepare PROVE Inv'
  OBVIOUS
<1>. USE DEF Inv, TypeOK
<1>1. serve.extra \in Given /\ serve' = serve /\ engine' = engine
  BY DEF Prepare, Serve
<1>2. CASE front.checked
  <2>1. Allows(serve.extra, front) /\ Exported(serve.extra, front) = front.visible
    BY <1>2 DEF FrontIsSettled, Settled, Allows, Exported
  <2>2. front' = front
    BY <2>1, <1>2 DEF Prepare, FrontIsSettled, Settled
  <2>. QED BY <2>2, <1>1, ServeDecides DEF FrontIsSettled, Settled, EngineIsRight, Up, NamedCard, PhysicalCard
<1>3. CASE ~front.checked
  <2>1. \A r \in Rank : engine[r].phase = "none"
    BY <1>3 DEF EngineIsRight
  <2>2. \A r \in Rank : EngineIsRight(r)'
    BY <2>1, <1>1 DEF EngineIsRight, Up
  <2>3. CASE ~Allows(serve.extra, front)
    <3>1. front' = [front EXCEPT !.phase = "refused", !.recorded = TRUE]
      BY <2>3 DEF Prepare
    <3>. QED BY <3>1, <2>2, <1>1, <1>3 DEF FrontIsSettled
  <2>4. CASE Allows(serve.extra, front)
    <3>1. front' = [phase |-> "ready", visible |-> Exported(serve.extra, front), checked |-> TRUE, recorded |-> TRUE]
      BY <2>4 DEF Prepare
    <3>2. front.visible = serve.visible
      BY <1>3 DEF FrontIsSettled
    <3>3. Acceptable(serve.extra)
      BY <2>4 DEF Allows
    <3>4. CASE CardList(serve.extra) = None
      <4>1. front'.visible = serve.visible /\ Enough(serve.visible)
        BY <3>1, <3>2, <3>4, <2>4, <1>3 DEF Allows, Exported, Enough
      <4>. QED BY <4>1, <3>1, <3>3, <3>4, <3>2, <2>2, <1>1 DEF FrontIsSettled, Settled
    <3>5. CASE CardList(serve.extra) # None
      <4>1. front'.visible = CardList(serve.extra) /\ serve.visible = <<>>
            /\ Len(CardList(serve.extra)) >= LocalSize
        BY <3>1, <3>2, <3>5, <2>4, <1>3 DEF Allows, Exported
      <4>2. CardList(serve.extra) \in Cards /\ Len(CardList(serve.extra)) > 0 /\ IsInjective(CardList(serve.extra))
        BY <1>1, <3>3, <3>5, CardListIsSound
      <4>3. CardList(serve.extra) # <<>>
        BY <4>2
      <4>. QED BY <4>1, <4>2, <4>3, <3>1, <3>3, <3>5, <2>2, <1>1 DEF FrontIsSettled, Settled, Enough
    <3>. QED BY <3>4, <3>5
  <2>. QED BY <2>3, <2>4
<1>. QED BY <1>2, <1>3

LEMMA OneEngineChanges ==
  ASSUME Inv, NEW r \in Rank, NEW e \in Process, UNCHANGED <<serve, front>>,
         engine' = [engine EXCEPT ![r] = e], EngineIsRight(r)'
  PROVE  Inv'
<1>. USE DEF Inv, TypeOK
<1>1. TypeOK'
  OBVIOUS
<1>2. FrontIsSettled'
  BY DEF FrontIsSettled, Settled
<1>3. ASSUME NEW s \in Rank, s # r PROVE EngineIsRight(s)'
  <2>1. engine'[s] = engine[s] /\ EngineIsRight(s)
    BY <1>3
  <2>. QED BY <2>1, ServeDecides DEF EngineIsRight, Up, PhysicalCard, NamedCard
<1>. QED BY <1>1, <1>2, <1>3

LEMMA StartEngineKeeps == ASSUME Inv, NEW r \in Rank, StartEngine(r) PROVE Inv'
<1>. DEFINE v == IF serve.launcher = "splits" THEN <<PhysicalCard(r)>> ELSE front.visible
            a == IF serve.launcher = "assigns" THEN PhysicalCard(r) ELSE None
            e == [engine[r] EXCEPT !.phase = "started", !.checked = front.checked, !.recorded = front.recorded,
                                   !.visible = v, !.assigned = a]
<1>. USE DEF Inv, TypeOK, Process
<1>1. front.checked /\ front.recorded /\ Settled
  BY DEF StartEngine, FrontIsSettled, Settled
<1>2. PhysicalCard(r) \in Nat
  BY <1>1, RankHasCard
<1>3. v \in {front.visible, <<PhysicalCard(r)>>} /\ a \in {None, PhysicalCard(r)}
  OBVIOUS
<1>4. v \in Cards /\ a \in Nat \cup {None}
  BY <1>2, <1>3 DEF Cards
<1>6. engine' = [engine EXCEPT ![r] = e] /\ UNCHANGED <<serve, front>>
  BY DEF StartEngine
<1>. HIDE DEF v, a
<1>5. e \in Process
  BY <1>4
<1>7. engine'[r] = e /\ PhysicalCard(r)' = PhysicalCard(r)
  BY <1>5, <1>6 DEF PhysicalCard
<1>8. e.phase = "started" /\ e.checked /\ e.recorded /\ e.visible = v /\ e.assigned = a
  BY <1>1
<1>9. EngineIsRight(r)'
  BY <1>7, <1>8, <1>6, <1>3, <1>1 DEF EngineIsRight, Up
<1>. QED BY <1>5, <1>6, <1>9, OneEngineChanges

LEMMA ReconfigureKeeps == ASSUME Inv, NEW r \in Rank, Reconfigure(r) PROVE Inv'
<1>. DEFINE e == [engine[r] EXCEPT !.size = 1]
<1>. USE DEF Inv, TypeOK, Process
<1>1. e \in Process /\ engine' = [engine EXCEPT ![r] = e] /\ UNCHANGED <<serve, front>>
  BY DEF Reconfigure
<1>2. engine'[r] = e /\ PhysicalCard(r)' = PhysicalCard(r)
  BY <1>1 DEF PhysicalCard
<1>3. EngineIsRight(r)'
  BY <1>2, <1>1 DEF Reconfigure, EngineIsRight, Up
<1>. QED BY <1>1, <1>3, OneEngineChanges

LEMMA PrepareInEngineKeeps == ASSUME Inv, NEW r \in Rank, PrepareInEngine(r) PROVE Inv'
<1>. DEFINE e == [engine[r] EXCEPT !.visible = Exported(serve.extra, engine[r]), !.checked = TRUE, !.recorded = TRUE]
<1>. USE DEF Inv, TypeOK, Process
<1>1. front.checked /\ engine[r].checked /\ engine[r].recorded /\ engine[r].phase = "started"
  BY DEF PrepareInEngine, EngineIsRight
<1>2. Acceptable(serve.extra)
  BY <1>1 DEF FrontIsSettled, Settled
<1>3. Allows(serve.extra, engine[r]) /\ Exported(serve.extra, engine[r]) = engine[r].visible
  BY <1>1, <1>2 DEF Allows, Exported
<1>4. e = engine[r] /\ engine' = [engine EXCEPT ![r] = e] /\ UNCHANGED <<serve, front>>
  BY <1>1, <1>3 DEF PrepareInEngine
<1>5. engine'[r] = engine[r] /\ PhysicalCard(r)' = PhysicalCard(r) /\ e \in Process
  BY <1>4 DEF PhysicalCard
<1>6. EngineIsRight(r)'
  BY <1>5, <1>4, <1>1 DEF EngineIsRight, Up
<1>. QED BY <1>4, <1>5, <1>6, OneEngineChanges

LEMMA InitDeviceKeeps == ASSUME Inv, NEW r \in Rank, InitDevice(r) PROVE Inv'
<1>. DEFINE v == IF Layout(engine[r]) > 1 /\ engine[r].assigned # None
                 THEN <<engine[r].assigned>> ELSE engine[r].visible
            e == [engine[r] EXCEPT !.phase = "narrowed", !.visible = v]
<1>. USE DEF Inv, TypeOK, Process
<1>1. front.checked /\ engine[r].checked /\ engine[r].recorded /\ engine[r].phase = "started" /\ Settled
  BY DEF InitDevice, EngineIsRight, FrontIsSettled
<1>2. v \in {front.visible, <<PhysicalCard(r)>>}
  BY <1>1 DEF EngineIsRight
<1>3. PhysicalCard(r) \in Nat
  BY <1>1, RankHasCard
<1>4. v \in Cards
  BY <1>2, <1>3 DEF Cards
<1>. HIDE DEF v
<1>5. e \in Process
  BY <1>4
<1>6. engine' = [engine EXCEPT ![r] = e] /\ UNCHANGED <<serve, front>>
  BY DEF InitDevice, v
<1>7. engine'[r] = e /\ PhysicalCard(r)' = PhysicalCard(r)
  BY <1>5, <1>6 DEF PhysicalCard
<1>8. EngineIsRight(r)'
  BY <1>7, <1>6, <1>2, <1>1 DEF EngineIsRight, Up
<1>. QED BY <1>5, <1>6, <1>8, OneEngineChanges

\* An engine's own variable, or the whole list, gives its rank the card of the front end's list.
LEMMA VisibleGivesRankCard ==
  ASSUME TypeOK, Settled, NEW r \in Rank, NEW visible \in {front.visible, <<PhysicalCard(r)>>}, NEW given
  PROVE  /\ CardOfVisible(given, r, visible) = PhysicalCard(r)
         /\ Len(visible) > 1 => r < Len(visible)
         /\ Len(visible) = 1 => visible[1] = PhysicalCard(r)
         /\ visible \in Cards
<1>1. front.visible \in Seq(Nat) /\ r \in Nat /\ r < LocalSize /\ LocalSize \in Nat
  BY LayoutAssumption DEF TypeOK, Cards, Rank
<1>2. PhysicalCard(r) \in Nat
  BY RankHasCard
<1>3. CASE visible = <<PhysicalCard(r)>>
  BY <1>2, <1>3 DEF CardOfVisible, Cards
<1>4. CASE visible = front.visible /\ front.visible = <<>>
  BY <1>4, <1>1 DEF CardOfVisible, PhysicalCard, Cards
<1>5. CASE visible = front.visible /\ front.visible # <<>>
  <2>1. Len(visible) >= LocalSize
    BY <1>5 DEF Settled, Enough
  <2>2. Len(visible) = 1 => r = 0
    BY <2>1, <1>1
  <2>. QED BY <2>1, <2>2, <1>5, <1>1 DEF CardOfVisible, PhysicalCard, Cards
<1>. QED BY <1>3, <1>4, <1>5

LEMMA RankCardIsNamed ==
  ASSUME TypeOK, Settled, NEW r \in Rank, NEW visible \in {front.visible, <<PhysicalCard(r)>>}
  PROVE  RankCard(Merged, r, visible) = NamedCard(r)
<1>1. CASE CardList(Merged) # None
  BY <1>1 DEF RankCard, NamedCard
<1>2. CASE CardList(Merged) = None
  <2>1. front.visible = serve.visible
    BY <1>2, MergedOrNone DEF TypeOK, Settled
  <2>2. RankCard(Merged, r, visible) = PhysicalCard(r)
    BY <1>2, VisibleGivesRankCard DEF RankCard
  <2>. QED BY <2>1, <2>2, <1>2 DEF PhysicalCard, NamedCard
<1>. QED BY <1>1, <1>2

\* The front end's list is the one an engine reads, unless other sources name cards.
LEMMA CheckedHasRankCard ==
  ASSUME TypeOK, Settled, NEW r \in Rank, NEW visible \in {front.visible, <<PhysicalCard(r)>>},
         \A role \in Role : serve.later[role] = None
  PROVE  /\ HasRankCard(Merged, r, visible)
         /\ DeviceNumbers(RankCard(Merged, r, visible), visible) # {}
<1>1. Merged = serve.extra /\ Acceptable(Merged)
  BY MergedOrNone DEF TypeOK, Settled
<1>2. r \in Nat /\ r < LocalSize /\ LocalSize \in Nat /\ front.visible \in Seq(Nat)
  BY LayoutAssumption DEF Rank, TypeOK, Cards
<1>3. RankCard(Merged, r, visible) = PhysicalCard(r)
  <2>1. CASE CardList(Merged) = None
    BY <2>1, VisibleGivesRankCard DEF RankCard
  <2>2. CASE CardList(Merged) # None
    BY <2>2, <1>1 DEF RankCard, PhysicalCard, Settled
  <2>. QED BY <2>1, <2>2
<1>4. HasRankCard(Merged, r, visible)
  <2>1. CASE CardList(Merged) = None
    BY <2>1, <1>1, VisibleGivesRankCard DEF HasRankCard
  <2>2. CASE CardList(Merged) # None
    <3>1. front.visible = CardList(Merged) /\ front.visible # <<>>
      BY <2>2, <1>1 DEF Settled
    <3>2. r < Len(CardList(Merged))
      BY <3>1, <1>2 DEF Settled, Enough
    <3>3. PhysicalCard(r) = CardList(Merged)[r + 1]
      BY <3>1 DEF PhysicalCard
    <3>. QED BY <2>2, <3>2, <3>3, <1>1, VisibleGivesRankCard DEF HasRankCard
  <2>. QED BY <2>1, <2>2
<1>5. DeviceNumbers(PhysicalCard(r), visible) # {}
  <2>1. CASE visible = <<>>
    BY <2>1 DEF DeviceNumbers
  <2>2. CASE visible = <<PhysicalCard(r)>>
    <3>1. 1 \in {j \in DOMAIN visible : visible[j] = PhysicalCard(r)} /\ visible # <<>>
      BY <2>2
    <3>. QED BY <3>1 DEF DeviceNumbers
  <2>3. CASE visible = front.visible /\ visible # <<>>
    <3>1. r + 1 \in {j \in DOMAIN visible : visible[j] = PhysicalCard(r)}
      BY <2>3, RankHasCard DEF PhysicalCard
    <3>. QED BY <3>1, <2>3 DEF DeviceNumbers
  <2>. QED BY <2>1, <2>2, <2>3
<1>. QED BY <1>3, <1>4, <1>5

LEMMA LoadModelKeeps == ASSUME Inv, NEW r \in Rank, LoadModel(r) PROVE Inv'
<1>. DEFINE visible == engine[r].visible
            card    == RankCard(Merged, r, visible)
            opened  == {OpenedCard(n, visible) : n \in DeviceNumbers(card, visible)}
            served  == HasRankCard(Merged, r, visible) /\ DeviceNumbers(card, visible) # {} /\ CanPlace
            e       == IF served THEN [engine[r] EXCEPT !.phase = "up", !.cards = opened]
                       ELSE [engine[r] EXCEPT !.phase = "refused"]
<1>. USE DEF Inv, TypeOK, Process
<1>1. front.checked /\ engine[r].checked /\ engine[r].recorded /\ engine[r].phase = "narrowed" /\ Settled
  BY DEF LoadModel, EngineIsRight, FrontIsSettled
<1>2. visible \in {front.visible, <<PhysicalCard(r)>>} /\ engine[r].assigned \in {None, PhysicalCard(r)}
  BY <1>1 DEF EngineIsRight
<1>3. ~(Layout(engine[r]) <= 1)
  BY <1>1, LayoutAssumption DEF Layout
<1>4. engine' = [engine EXCEPT ![r] = e] /\ UNCHANGED <<serve, front>>
  BY <1>3 DEF LoadModel
<1>5. visible \in Seq(Nat)
  BY <1>1, <1>2, VisibleGivesRankCard DEF Cards
<1>6. card = NamedCard(r)
  BY <1>1, <1>2, RankCardIsNamed
<1>7. PhysicalCard(r)' = PhysicalCard(r) /\ NamedCard(r)' = NamedCard(r) /\ Merged' = Merged
      /\ MayRefuse' = MayRefuse
  BY <1>4, ServeDecides DEF PhysicalCard, NamedCard
<1>8. CASE served
  <2>1. \A n \in DeviceNumbers(card, visible) : OpenedCard(n, visible) = card
    BY <1>5 DEF DeviceNumbers, OpenedCard
  <2>2. opened = {card}
    BY <2>1, <1>8
  <2>3. card \in Nat
    <3>1. CASE CardList(Merged) = None
      <4>1. card = CardOfVisible(Merged, r, visible)
        BY <3>1 DEF RankCard
      <4>2. CardOfVisible(Merged, r, visible) = PhysicalCard(r)
        BY <1>1, <1>2, VisibleGivesRankCard
      <4>3. PhysicalCard(r) \in Nat
        BY <1>1, RankHasCard
      <4>. QED BY <4>1, <4>2, <4>3
    <3>2. CASE CardList(Merged) # None
      <4>1. Merged \in Given
        BY MergedOrNone
      <4>2. Acceptable(Merged) /\ r < Len(CardList(Merged))
        BY <3>2, <1>8 DEF HasRankCard
      <4>3. CardList(Merged) \in Seq(Nat)
        BY <4>1, <4>2, <3>2, CardListIsSound, LayoutAssumption DEF Cards
      <4>4. r \in Nat
        BY LayoutAssumption DEF Rank
      <4>. QED BY <4>2, <4>3, <4>4, <3>2 DEF RankCard
    <3>. QED BY <3>1, <3>2
  <2>. HIDE DEF opened, card
  <2>4. e \in Process /\ e.phase = "up" /\ e.cards = opened /\ e.checked /\ e.recorded
        /\ e.visible = visible /\ e.assigned = engine[r].assigned
    BY <1>8, <1>1, <2>2, <2>3
  <2>5. Acceptable(Merged) /\ (CardList(Merged) # None => r < Len(CardList(Merged)))
    BY <1>8 DEF HasRankCard
  <2>6. engine'[r] = e
    BY <1>4, <2>4
  <2>7. EngineIsRight(r)'
    BY <2>6, <2>4, <2>5, <2>2, <1>6, <1>7, <1>4, <1>2, <1>1 DEF EngineIsRight, Up
  <2>. HIDE DEF e
  <2>. QED BY <2>4, <2>7, <1>4, OneEngineChanges
<1>9. CASE ~served
  <2>1. MayRefuse
    BY <1>9, <1>1, <1>2, CheckedHasRankCard DEF MayRefuse
  <2>2. e \in Process /\ e.phase = "refused" /\ e.checked /\ e.recorded
        /\ e.visible = visible /\ e.assigned = engine[r].assigned
    BY <1>9, <1>1
  <2>3. engine'[r] = e
    BY <1>4, <2>2
  <2>4. EngineIsRight(r)'
    BY <2>3, <2>2, <2>1, <1>7, <1>4, <1>2, <1>1 DEF EngineIsRight, Up
  <2>. HIDE DEF e
  <2>. QED BY <2>2, <2>4, <1>4, OneEngineChanges
<1>. QED BY <1>8, <1>9

LEMMA StartKeeps == Inv /\ [Next]_vars => Inv'
<1>. SUFFICES ASSUME Inv, [Next]_vars PROVE Inv'
  OBVIOUS
<1>1. CASE UNCHANGED vars
  BY <1>1, ServeDecides DEF vars, Inv, TypeOK, FrontIsSettled, Settled, EngineIsRight, Up, PhysicalCard, NamedCard
<1>. QED BY <1>1, PrepareKeeps, StartEngineKeeps, ReconfigureKeeps, PrepareInEngineKeeps,
            InitDeviceKeeps, LoadModelKeeps DEF Next

-----------------------------------------------------------------------------
(* The invariant of the traces. *)

TraceInv ==
  /\ gone \subseteq Worker /\ recorder \in Worker \cup {Nobody, Helper}
  /\ ClaimIsTheRecording

LEMMA TraceInitInv == TracingInit => TraceInv
  BY TracingAssumption DEF TracingInit, TraceInv, ClaimIsTheRecording

LEMMA TraceKeeps == TraceInv /\ [TracingNext]_tracingVars => TraceInv'
<1>. SUFFICES ASSUME TraceInv, [TracingNext]_tracingVars PROVE TraceInv'
  OBVIOUS
<1>. USE TracingAssumption DEF TraceInv, ClaimIsTheRecording
<1>1. ASSUME NEW w \in Worker, Start(w) PROVE TraceInv'
  BY <1>1 DEF Start, MayStart
<1>2. ASSUME NEW w \in Worker, Stop(w) PROVE TraceInv'
  BY <1>2 DEF Stop, Release
<1>3. ASSUME NEW w \in Worker, Shutdown(w) PROVE TraceInv'
  <2>1. CASE w \in running
    BY <1>3, <2>1 DEF Shutdown, Release
  <2>2. CASE w \notin running
    BY <1>3, <2>2 DEF Shutdown
  <2>. QED BY <2>1, <2>2
<1>4. CASE HelperStarts \/ HelperStops
  BY <1>4 DEF HelperStarts, HelperStops
<1>5. CASE UNCHANGED tracingVars
  BY <1>5 DEF tracingVars
<1>. QED BY <1>1, <1>2, <1>3, <1>4, <1>5 DEF TracingNext

LEMMA TraceStepTakesNothing ==
  TraceInv /\ [TracingNext]_tracingVars => (recorder # Nobody /\ recorder' # recorder => recorder' = Nobody)
  BY TracingAssumption DEF TraceInv, ClaimIsTheRecording, TracingNext, tracingVars, Start, MayStart,
     HelperHasTrace, Stop, Shutdown, HelperStarts, HelperStops

-----------------------------------------------------------------------------
(* Theorems. *)

\* Engines run under the settings of the front end, which have settled.
SettingsAreCopied ==
  /\ copied \in [Rank -> Settings \cup {Nothing}]
  /\ \A r \in Rank : engine[r].phase # "none" => phase[Host] = "ready" /\ copied[r] = settings[Host]

HostInv == Inv /\ TraceInv /\ PlatformInv /\ SettingsAreCopied

LEMMA HostInitInv == HostInit => HostInv
<1>. SUFFICES ASSUME HostInit PROVE HostInv
  OBVIOUS
<1>1. Inv /\ TraceInv /\ PlatformInv
  BY InitInv, TraceInitInv, PlatformInitInv DEF HostInit
<1>2. SettingsAreCopied
  BY DEF HostInit, Init, Nowhere, SettingsAreCopied
<1>. QED BY <1>1, <1>2 DEF HostInv

LEMMA HostSteps ==
  [HostNext]_hostVars => [Next]_vars /\ [TracingNext]_tracingVars /\ [PlatformNext]_platformVars
<1>. SUFFICES ASSUME [HostNext]_hostVars
              PROVE  [Next]_vars /\ [TracingNext]_tracingVars /\ [PlatformNext]_platformVars
  OBVIOUS
<1>1. CASE Configuring /\ UNCHANGED <<tracingVars, copied>>
  <2>1. CASE Prepare /\ CheckAndUpdateConfig(Host, front'.phase = "ready")
    <3>1. (front'.phase = "ready") \in BOOLEAN
      OBVIOUS
    <3>. QED BY <1>1, <2>1, <3>1, HostAssumption DEF Next, PlatformNext
  <2>2. ASSUME NEW l \in Llm \ {Host}, CheckAndUpdateConfig(l, TRUE) /\ UNCHANGED vars
        PROVE  [Next]_vars /\ [TracingNext]_tracingVars /\ [PlatformNext]_platformVars
    BY <1>1, <2>2 DEF PlatformNext
  <2>. QED BY <1>1, <2>1, <2>2 DEF Configuring
<1>2. ASSUME NEW r \in Rank, StartingEngine(r) \/ ConfiguringEngine(r), UNCHANGED <<tracingVars, platformVars>>
      PROVE  [Next]_vars
  BY <1>2 DEF StartingEngine, ConfiguringEngine, Next
<1>3. ASSUME NEW r \in Rank, Placing(r), UNCHANGED <<tracingVars, platformVars, copied>>
      PROVE  [Next]_vars
  BY <1>3 DEF Placing, Next
<1>4. CASE Profiling /\ UNCHANGED <<vars, platformVars, copied>>
  BY <1>4 DEF Profiling
<1>5. CASE UNCHANGED hostVars
  BY <1>5 DEF hostVars
<1>. QED BY <1>1, <1>2, <1>3, <1>4, <1>5 DEF HostNext

LEMMA CopiesKeep == HostInv /\ [HostNext]_hostVars => SettingsAreCopied'
<1>. SUFFICES ASSUME HostInv, [HostNext]_hostVars PROVE SettingsAreCopied'
  OBVIOUS
<1>. USE DEF HostInv, SettingsAreCopied
<1>0. /\ Host \in Llm /\ model[Host] \in Model /\ settings[Host] \in Settings
      /\ phase[Host] = "ready" => Configured(model[Host], settings[Host]) = settings[Host]
      /\ engine \in [Rank -> Process]
  BY HostAssumption DEF PlatformInv, Inv, TypeOK
<1>1. CASE Configuring /\ UNCHANGED <<tracingVars, copied>>
  <2>1. CASE Prepare /\ CheckAndUpdateConfig(Host, front'.phase = "ready")
    <3>1. ASSUME phase[Host] = "ready", \E r \in Rank : engine[r].phase # "none"
          PROVE  phase'[Host] = "ready" /\ settings' = settings
      <4>1. front.checked /\ Inv'
        BY <3>1, <2>1, PrepareKeeps DEF Inv, EngineIsRight
      <4>2. front'.checked
        BY <4>1, <3>1, <2>1 DEF Inv, EngineIsRight, Prepare
      <4>3. front'.phase = "ready"
        BY <4>1, <4>2 DEF Inv, FrontIsSettled
      <4>4. CheckAndUpdateConfig(Host, TRUE)
        BY <4>3, <2>1
      <4>. QED BY <4>4, <3>1, <1>0, HookKeeps
    <3>. QED BY <3>1, <1>1, <2>1 DEF Prepare
  <2>2. ASSUME NEW l \in Llm \ {Host}, CheckAndUpdateConfig(l, TRUE) /\ UNCHANGED vars
        PROVE  SettingsAreCopied'
    <3>1. phase'[Host] = phase[Host] /\ settings'[Host] = settings[Host]
      BY <2>2, <1>0 DEF CheckAndUpdateConfig, PlatformInv
    <3>. QED BY <3>1, <1>1, <2>2 DEF vars
  <2>. QED BY <1>1, <2>1, <2>2 DEF Configuring
<1>2. ASSUME NEW r \in Rank, StartingEngine(r), UNCHANGED <<tracingVars, platformVars>>
      PROVE  SettingsAreCopied'
  <2>1. \A s \in Rank : s # r => engine'[s] = engine[s] /\ copied'[s] = copied[s]
    BY <1>2, <1>0 DEF StartingEngine, StartEngine
  <2>2. copied'[r] = settings[Host] /\ phase[Host] = "ready" /\ UNCHANGED <<phase, settings>>
    BY <1>2 DEF StartingEngine, platformVars
  <2>3. copied' \in [Rank -> Settings \cup {Nothing}]
    BY <1>2, <1>0 DEF StartingEngine
  <2>. QED BY <2>1, <2>2, <2>3
<1>3. ASSUME NEW r \in Rank, ConfiguringEngine(r), UNCHANGED <<tracingVars, platformVars>>
      PROVE  SettingsAreCopied'
  <2>1. UNCHANGED <<phase, settings>> /\ phase[Host] = "ready" /\ copied[r] = settings[Host]
    BY <1>3 DEF ConfiguringEngine, platformVars
  <2>2. copied' = copied
    BY <2>1, <1>0, <1>3 DEF ConfiguringEngine
  <2>3. \A s \in Rank : s # r => engine'[s] = engine[s]
    BY <1>3, <1>0 DEF ConfiguringEngine, PrepareInEngine, vars
  <2>. QED BY <2>1, <2>2, <2>3
<1>4. ASSUME NEW r \in Rank, Placing(r), UNCHANGED <<tracingVars, platformVars, copied>>
      PROVE  SettingsAreCopied'
  <2>1. engine[r].phase # "none" /\ \A s \in Rank : s # r => engine'[s] = engine[s]
    BY <1>4, <1>0 DEF Placing, Reconfigure, InitDevice, LoadModel
  <2>. QED BY <2>1, <1>4 DEF platformVars
<1>5. CASE (Profiling /\ UNCHANGED <<vars, platformVars, copied>>) \/ UNCHANGED hostVars
  BY <1>5 DEF hostVars, vars, platformVars
<1>. QED BY <1>1, <1>2, <1>3, <1>4, <1>5 DEF HostNext

LEMMA HostKeeps == HostSpec => []HostInv /\ [][TracingNext]_tracingVars
<1>1. HostInv /\ [HostNext]_hostVars => HostInv'
  BY HostSteps, StartKeeps, TraceKeeps, PlatformKeeps, CopiesKeep DEF HostInv
<1>. QED BY HostInitInv, HostSteps, <1>1, PTL DEF HostSpec

(***************************************************************************)
(* An engine that comes up runs on the card the user named for its rank,   *)
(* whichever way vLLM hands the cards out (export_card_list_for_ranks,     *)
(* narrow_visible_devices_to_rank_card, resolve_rank_card,                 *)
(* runtime_device_number).                                                 *)
(***************************************************************************)
THEOREM AlwaysOpensItsCard == HostSpec => []OpensItsCard
<1>1. Inv => OpensItsCard
  BY DEF Inv, EngineIsRight, OpensItsCard
<1>. QED BY <1>1, HostKeeps, PTL DEF HostInv

LEMMA NamedCardsAreDistinct ==
  ASSUME Inv, NEW r \in Rank, NEW s \in Rank, r # s, Up(r), Up(s)
  PROVE  NamedCard(r) # NamedCard(s)
<1>. USE DEF Inv, TypeOK
<1>1. Settled /\ r \in Nat /\ s \in Nat /\ r < LocalSize /\ s < LocalSize /\ LocalSize \in Nat
  BY LayoutAssumption DEF EngineIsRight, Up, FrontIsSettled, Rank
<1>2. CASE CardList(Merged) # None
  <2>. DEFINE list == CardList(Merged)
  <2>1. list \in Seq(Nat) /\ IsInjective(list)
    BY <1>2, CardListIsSound, MergedOrNone DEF EngineIsRight, Cards
  <2>2. r < Len(list) /\ s < Len(list)
    BY <1>2 DEF EngineIsRight
  <2>. HIDE DEF list
  <2>3. r + 1 \in DOMAIN list /\ s + 1 \in DOMAIN list /\ r + 1 # s + 1
    BY <2>1, <2>2, <1>1
  <2>4. list[r + 1] # list[s + 1]
    BY <2>1, <2>3 DEF IsInjective
  <2>. QED BY <2>4, <1>2 DEF NamedCard, list
<1>3. CASE CardList(Merged) = None
  <2>1. front.visible = serve.visible
    BY <1>1, <1>3, MergedOrNone DEF Settled
  <2>2. CASE serve.visible = <<>>
    BY <2>2, <1>3, <1>1 DEF NamedCard
  <2>3. CASE serve.visible # <<>>
    <3>1. IsInjective(serve.visible) /\ r + 1 \in DOMAIN serve.visible /\ s + 1 \in DOMAIN serve.visible
      BY <2>1, <2>3, <1>1, RankHasCard DEF Settled, Enough
    <3>2. r + 1 # s + 1
      BY <1>1
    <3>3. serve.visible[r + 1] # serve.visible[s + 1]
      BY <3>1, <3>2 DEF IsInjective
    <3>. QED BY <3>3, <2>3, <1>3 DEF NamedCard
  <2>. QED BY <2>2, <2>3
<1>. QED BY <1>2, <1>3

(***************************************************************************)
(* No two engines of a host share a card (README, "Data Parallel": engine  *)
(* r takes the r-th card).                                                 *)
(***************************************************************************)
THEOREM CardsAlwaysDistinct == HostSpec => []CardsAreDistinct
<1>1. Inv => CardsAreDistinct
  <2>. SUFFICES ASSUME Inv, NEW r \in Rank, NEW s \in Rank, r # s, Up(r), Up(s)
                PROVE  engine[r].cards \cap engine[s].cards = {}
    BY DEF CardsAreDistinct
  <2>1. engine[r].cards = {NamedCard(r)} /\ engine[s].cards = {NamedCard(s)}
    BY DEF Inv, EngineIsRight
  <2>. QED BY <2>1, NamedCardsAreDistinct
<1>. QED BY <1>1, HostKeeps, PTL DEF HostInv

(***************************************************************************)
(* What the front end checked no later check refuses, unless the serve     *)
(* itself names cards elsewhere or spans some.                             *)
(***************************************************************************)
THEOREM AcceptedIsAlwaysServed == HostSpec => []AcceptedIsServed
<1>1. Inv => AcceptedIsServed
  BY DEF Inv, EngineIsRight, FrontIsSettled, MayRefuse, AcceptedIsServed
<1>. QED BY <1>1, HostKeeps, PTL DEF HostInv

(***************************************************************************)
(* qbruntime records for exactly the worker that claims the trace, however *)
(* starts, failing stops and shutdowns follow one another                  *)
(* (MbltTracer.start, stop; shutdown).                                     *)
(***************************************************************************)
THEOREM ClaimAlwaysTheRecording == HostSpec => []ClaimIsTheRecording
<1>1. TraceInv => ClaimIsTheRecording
  BY DEF TraceInv
<1>. QED BY <1>1, HostKeeps, PTL DEF HostInv

(***************************************************************************)
(* No start takes over a window that is open (MbltTracer.start).           *)
(***************************************************************************)
THEOREM WindowsNeverTakenOver == HostSpec => WindowsAreNotTakenOver
<1>1. TraceInv /\ [TracingNext]_tracingVars
      => [recorder # Nobody /\ recorder' # recorder => recorder' = Nobody]_tracingVars
  BY TraceStepTakesNothing
<1>. QED BY <1>1, HostKeeps, PTL DEF HostInv, WindowsAreNotTakenOver

(***************************************************************************)
(* Whatever was asked for and however often the hook runs, vLLM schedules  *)
(* within the model's sizes, and by the same settings in the front end and *)
(* in every engine (check_and_update_config).                              *)
(***************************************************************************)
THEOREM LimitsAlwaysFit == HostSpec => []LimitsFitTheModel
<1>1. HostInv => LimitsFitTheModel
  BY DEF HostInv, PlatformInv, SettingsAreCopied, LimitsFitTheModel
<1>. QED BY <1>1, HostKeeps, PTL

(***************************************************************************)
(* A request is judged by the model of the engine it is for, whichever was *)
(* configured last (validate_request, _validating_for_eagle3).             *)
(***************************************************************************)
THEOREM RequestsAlwaysJudgedByTheirEngine == HostSpec => []RequestsJudgedByTheirEngine
<1>1. HostInv => RequestsJudgedByTheirEngine
  BY InvJudges DEF HostInv
<1>. QED BY <1>1, HostKeeps, PTL
=============================================================================
