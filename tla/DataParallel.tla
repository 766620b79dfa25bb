----------------------------- MODULE DataParallel -----------------------------
(***************************************************************************)
(* Data parallel serving on one host: an engine process per NPU card.  The *)
(* front end checks which cards the engines use and exports them in the    *)
(* environment; vLLM starts each engine with a copy of that environment;   *)
(* the engine narrows it to its own card and places its model there.  An   *)
(* environment is the cards QBRUNTIME_VISIBLE_DEVICES lists (none: the     *)
(* variable is not set) and the marker of a checked assignment.            *)
(***************************************************************************)
EXTENDS Integers, FiniteSets, Sequences, Functions

CONSTANTS
  None,
  Single,      \* a dev_no that is one card and not a list
  Size,        \* data_parallel_size
  LocalSize,   \* data_parallel_size_local
  Role,        \* the prefixes of the placement kwargs
  Unprefixed,  \* the empty one: the role of a model placed as a whole
  Serves       \* how serving may be started: the records Serve below

Rank == 0 .. LocalSize - 1

Cards == Seq(Nat)
Given == [Role -> {None, Single} \cup Cards]

(***************************************************************************)
(* extra: the dev_no of each role in --model-loader-extra-config, which    *)
(* the front end reads; later: those of the sources only load_model        *)
(* merges, which win.  configured: the roles whose targets the model's     *)
(* config has; given: those whose targets the kwargs name, once load_model *)
(* has spread the shared ones of a multimodal model over its roles;        *)
(* targets: the devices a role's targets name, where there are any.  vLLM  *)
(* 0.11 splits the variable for the engines, 0.32 assigns each rank its    *)
(* card in the config and makes a rank of a dense model an engine of its   *)
(* own; another launcher leaves the variable as it is.                     *)
(***************************************************************************)
Serve == [extra : Given, later : Given,
          configured : SUBSET Role, given : SUBSET Role, targets : [Role -> SUBSET Nat],
          visible : Cards, launcher : {"splits", "assigns", "leaves"}, dense : BOOLEAN]

ASSUME LayoutAssumption ==
  /\ LocalSize \in Nat \ {0} /\ Size \in Nat /\ Size >= LocalSize /\ Size > 1
  /\ Unprefixed \in Role /\ Serves \subseteq Serve
  /\ None \notin Cards /\ Single \notin Cards /\ None # Single

VARIABLES
  serve,     \* how this one was started
  front,     \* the front end: its environment, whether the layout is recorded
  engine     \* the engine process of each local rank

vars == <<serve, front, engine>>

-----------------------------------------------------------------------------
(* data_parallel_card_list *)

Lists(given) == {given[role] : role \in {r \in Role : given[r] # None}}

IsCardList(list) == list # Single /\ list # <<>> /\ IsInjective(list)

Acceptable(given) ==
  /\ \A list \in Lists(given) : IsCardList(list)
  /\ \A l, m \in Lists(given) : l = m

CardList(given) == IF Lists(given) = {} THEN None ELSE CHOOSE list \in Lists(given) : TRUE

(* export_card_list_for_ranks, for an environment [visible, checked] *)

\* Mutant: the marker is not looked at.
AllowsUnchecked(given, env) ==
  /\ Acceptable(given)
  /\ \/ /\ CardList(given) = None
        /\ env.visible = <<>> \/ (IsInjective(env.visible) /\ Len(env.visible) >= LocalSize)
     \/ CardList(given) # None /\ Len(CardList(given)) >= LocalSize /\ env.visible = <<>>

Allows(given, env) ==
  /\ Acceptable(given)
  /\ \/ env.checked
     \/ /\ CardList(given) = None
        /\ env.visible = <<>> \/ (IsInjective(env.visible) /\ Len(env.visible) >= LocalSize)
     \/ CardList(given) # None /\ Len(CardList(given)) >= LocalSize /\ env.visible = <<>>

Exported(given, env) ==
  IF env.checked \/ CardList(given) = None THEN env.visible ELSE CardList(given)

-----------------------------------------------------------------------------
Nowhere == [phase |-> "none", visible |-> <<>>, checked |-> FALSE, assigned |-> None,
            size |-> Size, recorded |-> FALSE, cards |-> {}]

Init ==
  /\ serve \in Serves
  /\ front = [phase |-> "new", visible |-> serve.visible, checked |-> FALSE, recorded |-> FALSE]
  /\ engine = [r \in Rank |-> Nowhere]

\* _prepare_data_parallel in the front end; vLLM may call the hook again.
Prepare ==
  /\ front.phase \in {"new", "ready"}
  /\ front' = IF Allows(serve.extra, front)
              THEN [phase |-> "ready", visible |-> Exported(serve.extra, front), checked |-> TRUE, recorded |-> TRUE]
              ELSE [front EXCEPT !.phase = "refused", !.recorded = TRUE]
  /\ UNCHANGED <<serve, engine>>

\* vLLM's device_id_to_physical_device_id.
PhysicalCard(rank) == IF front.visible = <<>> THEN rank ELSE front.visible[rank + 1]

\* vLLM starts the process of a rank.
StartEngine(r) ==
  /\ front.phase = "ready" /\ engine[r].phase = "none"
  /\ engine' = [engine EXCEPT ![r] =
       [@ EXCEPT !.phase = "started", !.checked = front.checked, !.recorded = front.recorded,
                 !.visible = IF serve.launcher = "splits" THEN <<PhysicalCard(r)>> ELSE front.visible,
                 !.assigned = IF serve.launcher = "assigns" THEN PhysicalCard(r) ELSE None]]
  /\ UNCHANGED <<serve, front>>

BecomesIndependent == serve.launcher = "assigns" /\ serve.dense

\* vLLM 0.32's reconfigure_for_independent_dp_rank.
Reconfigure(r) ==
  /\ BecomesIndependent
  /\ engine[r].phase = "started" /\ engine[r].size # 1
  /\ engine' = [engine EXCEPT ![r].size = 1]
  /\ UNCHANGED <<serve, front>>

\* The config hook in the engine process.
PrepareInEngine(r) ==
  /\ engine[r].phase = "started" /\ engine[r].size > 1
  /\ engine' = [engine EXCEPT ![r] =
       IF Allows(serve.extra, @)
       THEN [@ EXCEPT !.visible = Exported(serve.extra, engine[r]), !.checked = TRUE, !.recorded = TRUE]
       ELSE [@ EXCEPT !.phase = "refused"]]
  /\ UNCHANGED <<serve, front>>

\* Mutant: the layout of the config alone, which a rank of its own has lost.
ConfiguredSize(e) == e.size

\* data_parallel_layout, its size.
Layout(e) == IF e.size > 1 THEN e.size ELSE IF e.recorded THEN Size ELSE 1

\* init_device: narrow_visible_devices_to_rank_card.
InitDevice(r) ==
  /\ engine[r].phase = "started" /\ (BecomesIndependent => engine[r].size = 1)
  /\ engine' = [engine EXCEPT ![r] =
       [@ EXCEPT !.phase = "narrowed",
                 !.visible = IF Layout(engine[r]) > 1 /\ engine[r].assigned # None
                             THEN <<engine[r].assigned>> ELSE engine[r].visible]]
  /\ UNCHANGED <<serve, front>>

\* The kwargs load_model merges.
Merged == [role \in Role |-> IF serve.later[role] # None THEN serve.later[role] ELSE serve.extra[role]]

\* resolve_rank_card: whether there is a card, and which.
HasRankCard(given, rank, visible) ==
  /\ Acceptable(given)
  /\ CardList(given) # None => /\ rank < Len(CardList(given))
                               /\ Len(visible) = 1 => visible[1] = CardList(given)[rank + 1]
  /\ CardList(given) = None /\ Len(visible) > 1 => rank < Len(visible)

CardOfVisible(given, rank, visible) ==
  IF Len(visible) = 1 THEN visible[1] ELSE IF visible # <<>> THEN visible[rank + 1] ELSE rank

RankCard(given, rank, visible) ==
  IF CardList(given) # None THEN CardList(given)[rank + 1] ELSE CardOfVisible(given, rank, visible)

\* runtime_device_number: the positions of a card among the visible ones.
DeviceNumbers(card, visible) ==
  IF visible = <<>> THEN {card} ELSE {i - 1 : i \in {j \in DOMAIN visible : visible[j] = card}}

\* qbruntime renumbers the visible cards from 0.
OpenedCard(number, visible) == IF visible = <<>> THEN number ELSE visible[number + 1]

\* npu_roles: the roles the config or the kwargs name; they replace the unprefixed one.
NamedRoles ==
  {role \in Role \ {Unprefixed} : role \in serve.configured \cup serve.given \/ Merged[role] # None}

NpuRoles == IF NamedRoles = {} THEN {Unprefixed} ELSE NamedRoles

\* place_model_kwargs_on_card: with roles, targets of the caller must name theirs, and the
\* targets of a role must not span cards.
CanPlace ==
  /\ NamedRoles # {} => Unprefixed \notin serve.given
  /\ \A role \in NpuRoles : Cardinality(serve.targets[role]) <= 1

\* Without data parallel the kwargs stay as given: a list of cards, or the first.
CardsAsGiven(given, visible) ==
  LET list == IF Acceptable(given) /\ CardList(given) # None THEN Range(CardList(given)) ELSE {0}
  IN  {OpenedCard(n, visible) : n \in {n \in list : visible # <<>> => n < Len(visible)}}

\* load_model, with _place_on_data_parallel_card.
LoadModel(r) ==
  LET visible == engine[r].visible
      card    == RankCard(Merged, r, visible)
      numbers == DeviceNumbers(card, visible)
  IN  /\ engine[r].phase = "narrowed"
      /\ engine' = [engine EXCEPT ![r] =
           IF Layout(engine[r]) <= 1
           THEN [@ EXCEPT !.phase = "up", !.cards = CardsAsGiven(Merged, visible)]
           ELSE IF HasRankCard(Merged, r, visible) /\ numbers # {} /\ CanPlace
           THEN [@ EXCEPT !.phase = "up", !.cards = {OpenedCard(n, visible) : n \in numbers}]
           ELSE [@ EXCEPT !.phase = "refused"]]
      /\ UNCHANGED <<serve, front>>

Next ==
  \/ Prepare
  \/ \E r \in Rank : \/ StartEngine(r) \/ Reconfigure(r) \/ PrepareInEngine(r)
                     \/ InitDevice(r) \/ LoadModel(r)

Spec == Init /\ [][Next]_vars

-----------------------------------------------------------------------------
Up(r) == engine[r].phase = "up"

(***************************************************************************)
(* No two engines open the same card, whoever narrows the variable and     *)
(* wherever the cards are named (export_card_list_for_ranks to             *)
(* runtime_device_number).                                                 *)
(***************************************************************************)
CardsAreDistinct ==
  \A r, s \in Rank : r # s /\ Up(r) /\ Up(s) => engine[r].cards \cap engine[s].cards = {}

\* The card the user named for a rank, or its number.
NamedCard(r) ==
  IF CardList(Merged) # None THEN CardList(Merged)[r + 1]
  ELSE IF serve.visible # <<>> THEN serve.visible[r + 1] ELSE r

(***************************************************************************)
(* An engine that comes up runs on the card the user named for its rank,   *)
(* and on no other, although the variable means another list in the front  *)
(* end than in the engine (resolve_rank_card, runtime_device_number).      *)
(***************************************************************************)
OpensItsCard == \A r \in Rank : Up(r) => engine[r].cards = {NamedCard(r)}

(***************************************************************************)
(* What the front end has checked is not refused later: neither by the     *)
(* hook when it runs again, on variables the first run has set, nor by an  *)
(* engine, but for what the hook never looks at: cards named by sources    *)
(* only load_model merges; targets that span cards; and, on a model of     *)
(* several roles, targets that do not name theirs, which every engine then *)
(* refuses (place_model_kwargs_on_card).                                   *)
(***************************************************************************)
AcceptedIsServed ==
  front.checked /\ CanPlace /\ (\A role \in Role : serve.later[role] = None)
    => front.phase # "refused" /\ \A r \in Rank : engine[r].phase # "refused"
=============================================================================
