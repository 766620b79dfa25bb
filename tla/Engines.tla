-------------------------------- MODULE Engines --------------------------------
(***************************************************************************)
(* The engine processes of a host: the front end's hook checks the cards,  *)
(* as DataParallel says, and fits the settings, as Platform says; vLLM     *)
(* starts each engine with a copy of both, where the hook runs again; and, *)
(* once its engine is up, a process traces as NpuTracing says.  A trace is *)
(* the affair of a process, so that of one rank's process is followed.     *)
(***************************************************************************)
EXTENDS DataParallel, NpuTracing, Platform

CONSTANTS
  Traced,    \* a rank
  Host,      \* the LLM served data parallel; the others are served alone
  Launches   \* the serves and setups that go together

ASSUME HostAssumption ==
  /\ Traced \in Rank /\ Host \in Llm
  /\ Launches \subseteq Serves \X Setups

VARIABLE copied   \* the settings each engine process was started with, or Nothing

Nothing == <<>>

hostVars == <<vars, tracingVars, platformVars, copied>>

HostInit ==
  /\ \E launch \in Launches : /\ serve = launch[1]
                              /\ model = launch[2].model /\ settings = launch[2].asked
  /\ Init /\ TracingInit /\ PlatformInit
  /\ copied = [r \in Rank |-> Nothing]

\* check_and_update_config in the front end, for the engines and for another LLM.
Configuring ==
  \/ Prepare /\ CheckAndUpdateConfig(Host, front'.phase = "ready")
  \/ \E l \in Llm \ {Host} : CheckAndUpdateConfig(l, TRUE) /\ UNCHANGED vars

StartingEngine(r) ==
  /\ phase[Host] = "ready" /\ StartEngine(r)
  /\ copied' = [copied EXCEPT ![r] = settings[Host]]

\* check_and_update_config in an engine process, which may have become one of its own.
ConfiguringEngine(r) ==
  /\ engine[r].phase = "started"
  /\ IF engine[r].size > 1 THEN PrepareInEngine(r) ELSE UNCHANGED vars
  /\ copied' = [copied EXCEPT ![r] =
       IF engine'[r].phase = "refused" THEN @ ELSE Configured(model[Host], @)]

Placing(r) == Reconfigure(r) \/ InitDevice(r) \/ LoadModel(r)

Profiling == Up(Traced) /\ TracingNext

HostNext ==
  \/ Configuring /\ UNCHANGED <<tracingVars, copied>>
  \/ \E r \in Rank : /\ StartingEngine(r) \/ ConfiguringEngine(r)
                     /\ UNCHANGED <<tracingVars, platformVars>>
  \/ \E r \in Rank : Placing(r) /\ UNCHANGED <<tracingVars, platformVars, copied>>
  \/ Profiling /\ UNCHANGED <<vars, platformVars, copied>>

HostSpec == HostInit /\ [][HostNext]_hostVars

-----------------------------------------------------------------------------
(***************************************************************************)
(* Whatever was asked for and however often the hook runs, vLLM schedules  *)
(* within the model's sizes, and by the same settings in the front end and *)
(* in every engine (check_and_update_config, resolve_model_max_batch_size, *)
(* resolve_effective_npu_prefill_chunk_size).                              *)
(***************************************************************************)
LimitsFitTheModel ==
  /\ \A l \in Llm : phase[l] = "ready" => Fits(model[l], settings[l])
  /\ \A r \in Rank : engine[r].phase # "none" => copied[r] = settings[Host]
=============================================================================
