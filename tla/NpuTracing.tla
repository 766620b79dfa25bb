------------------------------ MODULE NpuTracing ------------------------------
(***************************************************************************)
(* Event traces of one process.  qbruntime records one trace at a time and *)
(* has no notion of who asked for it; each worker has an MbltTracer, which *)
(* keeps track of that with a flag of its own and a claim they share, and  *)
(* looks at the handle of a benchmark helper that traces too.  Start and   *)
(* stop hold a lock, so each is one step.                                  *)
(***************************************************************************)
CONSTANTS
  Nobody,     \* no tracer
  Helper,     \* mblt_model_zoo's benchmark helper
  Worker      \* the workers a process has, at a time or one after another

ASSUME TracingAssumption == Nobody \notin Worker /\ Helper \notin Worker /\ Nobody # Helper

VARIABLES
  running,    \* the workers whose tracer is_running
  active,     \* _ACTIVE_TRACER
  recorder,   \* who started what qbruntime records
  gone        \* the workers that were shut down

tracingVars == <<running, active, recorder, gone>>

TracingInit == running = {} /\ active = Nobody /\ recorder = Nobody /\ gone = {}

\* The helper's handle: it has one while it records.
HelperHasTrace == recorder = Helper

\* Mutant: only the worker's own flag is looked at.
IsNotRunning(w) == w \notin running

MayStart(w) == w \notin running /\ active = Nobody /\ ~HelperHasTrace

\* profile(is_start=True), if the backend starts.
Start(w) ==
  /\ w \notin gone /\ MayStart(w)
  /\ recorder' = w /\ active' = w /\ running' = running \cup {w}
  /\ UNCHANGED gone

(***************************************************************************)
(* stop, once qbruntime was asked to write: the log is gone whether it     *)
(* could or not, and so are the flag and the claim (finally).              *)
(***************************************************************************)
\* Mutant: the claim is given up only if the log was written.
ReleaseIfWritten(w, written) ==
  IF written THEN running' = running \ {w} /\ active' = (IF active = w THEN Nobody ELSE active)
  ELSE UNCHANGED <<running, active>>

Release(w, written) == running' = running \ {w} /\ active' = IF active = w THEN Nobody ELSE active

\* profile(is_start=False); it raises if the log was not written.
Stop(w) ==
  /\ w \notin gone /\ w \in running
  /\ recorder' = Nobody
  /\ \E written \in BOOLEAN : Release(w, written)
  /\ UNCHANGED gone

\* shutdown: a trace left running is stopped, and what stop raises is logged.
Shutdown(w) ==
  /\ w \notin gone /\ gone' = gone \cup {w}
  /\ IF w \in running
     THEN recorder' = Nobody /\ \E written \in BOOLEAN : Release(w, written)
     ELSE UNCHANGED <<running, active, recorder>>

\* The helper traces while nobody else does.
HelperStarts == recorder = Nobody /\ recorder' = Helper /\ UNCHANGED <<running, active, gone>>

HelperStops == recorder = Helper /\ recorder' = Nobody /\ UNCHANGED <<running, active, gone>>

TracingNext ==
  \/ \E w \in Worker : Start(w) \/ Stop(w) \/ Shutdown(w)
  \/ HelperStarts
  \/ HelperStops

TracingSpec == TracingInit /\ [][TracingNext]_tracingVars

-----------------------------------------------------------------------------
(***************************************************************************)
(* The claim and the flags say what qbruntime records, after failing stops *)
(* and shutdowns too: a claim without a recording would block every later  *)
(* window, a recording without a claim would be taken over, and one whose  *)
(* worker is gone would be lost (MbltTracer.start, stop; shutdown).        *)
(***************************************************************************)
ClaimIsTheRecording ==
  /\ active = IF recorder \in Worker THEN recorder ELSE Nobody
  /\ running = IF recorder \in Worker THEN {recorder} ELSE {}
  /\ recorder \notin gone

(***************************************************************************)
(* Nobody's window is cut short by another's start: a recording ends       *)
(* before the next begins (MbltTracer.start).                              *)
(***************************************************************************)
WindowsAreNotTakenOver ==
  [][recorder # Nobody /\ recorder' # recorder => recorder' = Nobody]_tracingVars
=============================================================================
