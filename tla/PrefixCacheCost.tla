--------------------------- MODULE PrefixCacheCost ---------------------------
(***************************************************************************)
(* PrefixCacheCostModel of mblt_worker.py: which matched snapshots are     *)
(* worth loading and which finished ones worth saving, from the prefill    *)
(* times calibrated when the model is loaded and from the times loads and  *)
(* dumps took since.                                                       *)
(*                                                                         *)
(* Times are whole numbers of a small unit, and a moving average rounds    *)
(* down to it.  An estimate that is no whole number is kept as a fraction: *)
(* comparisons are exact.                                                  *)
(***************************************************************************)
EXTENDS Integers, FiniteSets

CONSTANTS
  CacheId,                  \* the slots loads and dumps are measured on
  NoId,                     \* cache_id None, the one slot of a non-batch model
  Batch,                    \* whether the compiled model serves a batch
  KvBlockSize, MaxSeqLen,
  Time,                     \* the times an operation may be measured to take
  LeastTime, MostTime,
  AutoThreshold,            \* auto_threshold_enabled
  MinHit,                   \* manual_min_hit_tokens, 0 for None
  HostOffload,              \* host_offload
  MarginNum, MarginDen,     \* margin
  AlphaNum, AlphaDen        \* ewma_alpha

ASSUME TimeAssumption ==
  /\ LeastTime \in Nat /\ MostTime \in Nat /\ Time \subseteq LeastTime .. MostTime
  /\ AlphaNum \in Nat /\ AlphaDen \in Nat \ {0} /\ AlphaNum <= AlphaDen
  /\ MarginNum \in Nat \ {0} /\ MarginDen \in Nat \ {0}

ASSUME CostAssumption ==
  /\ KvBlockSize \in Nat \ {0} /\ MaxSeqLen \in Nat \ {0} /\ MinHit \in Nat
  /\ {AutoThreshold, HostOffload, Batch} \subseteq BOOLEAN
  /\ IsFiniteSet(CacheId) /\ CacheId # {}

VARIABLES
  prefill,      \* prefill_ms_by_tokens
  load,         \* load_ms_by_cache_id
  dump,         \* dump_ms_by_cache_id
  calibrating   \* whether _calibrate_prefix_cache_prefill_costs is running

vars == <<prefill, load, dump, calibrating>>

\* A dict without entries, and with entry k set to v.
Empty == [k \in {} |-> 0]
With(f, k, v) == [i \in DOMAIN f \cup {k} |-> IF i = k THEN v ELSE f[i]]

Tokens == 1 .. MaxSeqLen

\* The prompt lengths calibrated, one to eight blocks.
BucketTokens ==
  LET fits == {KvBlockSize * n : n \in {1, 2, 4, 8}} \cap Tokens
  IN  IF fits = {} THEN {MaxSeqLen} ELSE fits

-----------------------------------------------------------------------------
(* Estimates.                                                              *)

MovingAverage(previous, sample) ==
  (previous * (AlphaDen - AlphaNum) + sample * AlphaNum) \div AlphaDen

Observed(f, k, time) ==
  With(f, k, IF k \in DOMAIN f THEN MovingAverage(f[k], time) ELSE time)

\* The bucket n tokens fall in: the first at or above n, else the last.
Bucket(n) ==
  CHOOSE b \in DOMAIN prefill :
    IF \E t \in DOMAIN prefill : n <= t
    THEN n <= b /\ \A t \in DOMAIN prefill : n <= t => b <= t
    ELSE \A t \in DOMAIN prefill : t <= b

\* prefill_ms, as the time ms over the number of tokens per.
PrefillMs(n) == [ms |-> prefill[Bucket(n)] * n, per |-> Bucket(n)]

\* The value with i - 1 values of f below it, counting every key.
Nth(f, i) ==
  CHOOSE v \in {f[k] : k \in DOMAIN f} :
    /\ Cardinality({k \in DOMAIN f : f[k] < v}) < i
    /\ i <= Cardinality({k \in DOMAIN f : f[k] <= v})

\* statistics.median, times two.
TwiceMedian(f) ==
  LET n == Cardinality(DOMAIN f) IN Nth(f, (n + 1) \div 2) + Nth(f, n \div 2 + 1)

\* Twice _cache_io_ms.
TwiceCacheIo(f, c) ==
  IF c \in DOMAIN f THEN 2 * f[c]
  ELSE IF NoId \in DOMAIN f THEN 2 * f[NoId]
  ELSE TwiceMedian(f)

\* Whether a transfer, twice its time given, beats a prefill by the margin.
Beats(twice, prefillMs) ==
  twice * prefillMs.per * MarginDen < 2 * prefillMs.ms * MarginNum

-----------------------------------------------------------------------------
(* Decisions.                                                              *)

ShouldTakeOver(n) == n > 0 /\ n >= MinHit

\* should_load, if loads took what f says.
AcceptsLoad(f, n, c) ==
  /\ ShouldTakeOver(n)
  /\ AutoThreshold /\ f # Empty /\ prefill # Empty =>
       Beats(TwiceCacheIo(f, c), PrefillMs(n))

ShouldLoad(n, c) == AcceptsLoad(load, n, c)

\* Mutant: a prefix of the snapshot costs no more to prefill than all of it.
EstimateOfAll(n) == {PrefillMs(n)}

\* What max_prefill_ms is the highest of.
PrefixEstimates(n) ==
  {PrefillMs(n)} \cup
  {[ms |-> prefill[t], per |-> 1] :
     t \in {b \in DOMAIN prefill : b <= n /\ b >= MinHit}}

\* A measured dump stands in for loads.
TransferTimes == IF load # Empty THEN load ELSE dump

ShouldKeep(n) ==
  /\ ShouldTakeOver(n)
  /\ AutoThreshold /\ TransferTimes # Empty /\ prefill # Empty =>
       \E c \in DOMAIN TransferTimes, e \in PrefixEstimates(n) :
         Beats(2 * TransferTimes[c], e)

ShouldSave(n) == HostOffload /\ ShouldKeep(n)

-----------------------------------------------------------------------------
(* Measuring.                                                              *)

CostInit ==
  /\ prefill = Empty /\ load = Empty /\ dump = Empty
  /\ calibrating = AutoThreshold

\* The next bucket is measured: the median of two samples.
CalibrateBucket(time) ==
  /\ calibrating
  /\ \E t \in BucketTokens \ DOMAIN prefill :
       /\ \A b \in BucketTokens \ DOMAIN prefill : t <= b
       /\ prefill' = Observed(prefill, t, time)
  /\ UNCHANGED <<load, dump, calibrating>>

\* All buckets are measured, one failed, or calibration is off.
EndCalibration ==
  /\ calibrating
  /\ calibrating' = FALSE
  /\ UNCHANGED <<prefill, load, dump>>

\* _restore_snapshot loads what should_load accepted.
Load(c, time) ==
  /\ ~calibrating
  /\ \E n \in Tokens : ShouldLoad(n, c)
  /\ load' = Observed(load, c, time)
  /\ UNCHANGED <<prefill, dump, calibrating>>

\* Snapshots are saved if that is worth it; a request that loses the one slot of a
\* non-batch model is dumped whatever it costs.
Dump(c, time) ==
  /\ ~calibrating
  /\ Batch => \E n \in Tokens : ShouldSave(n)
  /\ dump' = Observed(dump, c, time)
  /\ UNCHANGED <<prefill, load, calibrating>>

CostNext ==
  \/ EndCalibration
  \/ \E time \in Time : CalibrateBucket(time)
  \/ \E time \in Time, c \in CacheId : Load(c, time) \/ Dump(c, time)

CostSpec == CostInit /\ [][CostNext]_vars

-----------------------------------------------------------------------------
Estimates(f, keys) ==
  DOMAIN f \subseteq keys /\ f \in [DOMAIN f -> LeastTime .. MostTime]

\* Every estimate stays within the times that can be measured.
CostTypeOK ==
  /\ Estimates(prefill, BucketTokens)
  /\ Estimates(load, CacheId) /\ Estimates(dump, CacheId)
  /\ calibrating \in BOOLEAN

(***************************************************************************)
(* A snapshot is kept exactly if some load of it could be accepted: some   *)
(* number of its tokens on some slot, whose load was measured or not.      *)
(* Before any load has been measured, the loads are taken to last as long  *)
(* as the dumps did.  Keeping less would throw away prefixes a later load  *)
(* would have used; keeping more would pay for dumps nobody reads.         *)
(***************************************************************************)
KeepIsExact ==
  \A n \in Tokens :
    ShouldKeep(n) <=>
      \E k \in 1 .. n, c \in CacheId : AcceptsLoad(TransferTimes, k, c)
=============================================================================
