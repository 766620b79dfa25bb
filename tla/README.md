# Verification of vllm-mblt

vllm-mblt is a vLLM plugin that serves language models on Mobilint NPUs. vLLM's
engine plans each step and the plugin's worker runs it. What is hard about the
worker is that it keeps a second account of every request: vLLM decides from
block hashes which prefix of a request is computed already, while the KV of that
prefix lives in cache objects bound to NPU slots, one per request, which the
worker copies, takes over, saves and drops. A wrong decision there raises no
error: the model answers from another request's KV.

This directory holds TLA+ modules of that code, TLC configurations that
model-check them, and TLAPS proofs. Names follow the source; source paths are
relative to the repository.

## The system

| component | source | state | operations | who calls it |
| --- | --- | --- | --- | --- |
| runtime cache manager | `vllm_mblt/runtime_cache.py` | snapshots, their index, the LRU of finished ones, block owners, slot maps | observe, store, remove, choose, verify, mark finished, evict; assign, release, reset slots | worker |
| request caches | `vllm_mblt/request_cache.py` | (in transformers-mblt) cache objects, the owner of each NPU slot | new, holds_slot, relocate, prepare | worker |
| worker, requests and prefixes | `vllm_mblt/mblt_worker.py` | `req_states`, `_slot_caches` | `_execute_scheduled_step`: finalize, admit, continue, load, settle, start, forward, sample | vLLM engine core |
| worker, prefix cache cost model | same | measured prefill, load and dump times | should_load, should_take_over, should_keep_snapshot, should_save_snapshot, observe, calibrate | worker |
| worker, forward and prompt logprobs | same | the pieces of a forward, `next_prompt_logprob_pos`, the logprobs in progress | chunked forward, microsteps, accumulate, pop, replay | worker |
| worker, vision inputs | same, `encoder_cache.py` | encoder outputs by content, least recently used first, and their bytes | `_encode_vision_items`: look up, wait, batch, deliver; get, put, clear | worker, vLLM (`reset_encoder_cache`) |
| EAGLE-3 runner | `vllm_mblt/eagle3_runtime.py` | its own copy of each request's text, its cache with the draft state | execute: add, resume, prefill, round | worker |
| scheduler, block pool | vLLM (external) | queues, block tables, hashes | schedule, preempt, free, update_from_output | engine core |
| platform | `vllm_mblt/mblt_platform.py` | vLLM's configuration; a flag of the class, whether the engine configured last serves EAGLE-3 | check_and_update_config, validate_request | vLLM start-up, API server |
| tracer | `vllm_mblt/tracing.py` | a flag per worker, the claim of the process, qbruntime's recorder | start, stop | `worker.profile`, `worker.shutdown` |
| data parallel | `vllm_mblt/data_parallel.py` | the cards and the marker in an environment, the recorded layout, the idle pace | export_card_list_for_ranks, narrow_visible_devices_to_rank_card, resolve_rank_card, runtime_device_number, pace | platform hook, worker |
| sampling | `vllm_mblt/sampling.py`, `_make_sampling_metadata` | none (one call) | forward_host: search by top-k, by top-p, fall back, draw | vLLM's sampler |
| MoE, vision and speech models | `vllm_mblt/moe_runtime.py`, `vllm_mblt/models/` | none of their own | pre-processing, forward | worker |
| plugin registration, host threads | `vllm_mblt/__init__.py`, `host_threads.py` | environment defaults | register | vLLM start-up |

The engine is one thread (async scheduling is turned off by the platform), so the
interleavings are not of threads but of requests: the loops of one step over many
requests, the steps of requests that alternate on a slot, and requests that come
long after the one whose KV they find. The hazards are listed with their lines in
`PROJECT.json`; in short:

- **Aliasing.** A finished request's cache *is* its snapshot, and a request that
  takes a snapshot over runs on that very object.
- **Two accounts.** The scheduler's `num_computed_tokens` and the length of the
  request's cache; a snapshot's label and what its cache holds.
- **Recycled names.** Physical block numbers and placeholder tokens are reused for
  other contents.
- **Order inside a step.** Rows are prepared one by one and run together; finished
  requests must go before new ones get slots; a snapshot must be settled before a
  bind.
- **Preemption and abort**, which bring a request back with other blocks, or
  remove it between any two steps.
- **Eviction under use.** An image found in the encoder cache may be evicted by
  another image of the same step before its prompt is built.
- **One variable, several meanings.** `QBRUNTIME_VISIBLE_DEVICES` lists the host's
  cards in the front end, one card in an engine, and renumbers them in both.
- **One recorder, several owners** of the traces of a process, some of whose stops
  fail.
- **A hook that runs again**, on what it wrote before, for several engines of one
  process and in every engine process.
- **Proof from few tokens.** The sampler decides from the most likely tokens what
  vLLM decides from all, at ties and sums where the two may differ.

## Modules

| module | models |
| --- | --- |
| `PrefixMatch` | the pure matching functions of `runtime_cache.py` |
| `PrefixWalk` | `choose_prefix_snapshot` loop by loop, over `PrefixMatch` |
| `RuntimeCache` | the methods of `MbltRuntimeCacheManager`, each an operator from a manager record to a manager record |
| `RuntimeCacheProofs` | lemmas about these methods, for all constants and any manager |
| `RuntimeCacheManager` | that manager under any sequence of calls |
| `RequestCaches` | `RequestCacheSlots` and what it relies on transformers-mblt for (external): cache objects and the owner of each slot |
| `Scheduler` | what the worker sees of vLLM's scheduler (external) |
| `WorkerCaches` | the worker's cache handlers, composed of `RuntimeCache` and `RequestCaches` |
| `WorkerCachesProofs` | lemmas about these handlers, for all constants and any sound worker |
| `MbltWorker` | the engine: the scheduler's decisions and `_execute_scheduled_step`, action by action |
| `MbltWorkerProofs` | theorems about it, for all constants |
| `IsolatedRequests` | the abstract specification that `MbltWorker` implements |
| `PrefixCacheCost` | `PrefixCacheCostModel` with what feeds it: calibration, loads, dumps |
| `PrefixCacheProofs` | theorems about the manager, the walk of its index and the cost model, for all constants |
| `StepForward` | the forward of one step, an infer at a time, and prompt logprobs |
| `StepForwardProofs` | theorems about it, for all constants |
| `EchoedPrompts` | the abstract specification that `StepForward` implements |
| `Eagle3Runner` | the EAGLE-3 runner under vLLM's scheduler |
| `Eagle3RunnerProofs` | theorems about it, for all constants |
| `GeneratedText` | the abstract specification that `Eagle3Runner` implements |
| `EncoderOutputCache` | the host cache of encoder outputs |
| `VisionInputs` | `_encode_vision_items` over that cache, loop by loop |
| `DataParallel` | which card each engine of a host opens |
| `NpuTracing` | the traces of one process |
| `Platform` | how the hook fits vLLM's settings to a model, and which requests are refused |
| `Engines` | the three above: engines that are configured, start, then trace |
| `EnginesProofs` | theorems about them, for all constants |
| `HostSampling` | the greedy flags of a batch and `HostTopKTopPSampler` |
| `HostProofs` | theorems about what the host does around the model, `VisionInputs` and `HostSampling`, for all constants |
| `MC*` | instances for TLC |

`RuntimeCache`, `RequestCaches`, `Scheduler` and `WorkerCaches` are written as
operators on records because the code is: one handler of the worker calls many
methods of the manager and of the caches in a row, and a step of the model is such
a handler with every call it makes. `RuntimeCacheManager` and `MbltWorker` turn
them into actions.

### State and actions of MbltWorker

`w` is the worker: `w.rc` the manager, `w.kv` the caches, `w.req` the `req_states`,
`w.active` the `_slot_caches`. `sched` is vLLM's scheduler, `p` the
`SchedulerOutput` being planned or run, and `step` what the worker has left of it.
A step of the engine is

    ScheduleRunning | PreemptLast | ResumePreempted | ScheduleNew ...  (planning)
    Dispatch
    FinalizeFinished ...      finished_req_ids, a set: in any order
    AdmitNew ...              scheduled_new_reqs
    ContinueCached ...        scheduled_cached_reqs
    StartRow ...              num_scheduled_tokens, in order
    Forward                   batch models; a non-batch row runs in StartRow
    Sample                    the sampler, then update_from_output

with `Abort` between steps. A cache holds, in the model, the embeddings its KV was
computed from; the code never sees these, so whether a cache holds the right ones
is a property and not an assumption. An image is an embedding of its own, hidden
from the matching behind the placeholder token id exactly as in the code.

Left open (nondeterministic): the choice among equally long matches (insertion
order in the code), what the cost model answers (any sets of token counts
worth loading and worth keeping, chosen anew where it is asked; `PrefixCacheCost`
has the estimates), the order of `finished_req_ids`, the tokens sampled, arrivals
and aborts. Python's reference counting is `Collect`: the owner table of
transformers-mblt refers to caches weakly, so a cache nobody refers to leaves its
slot without being saved.

Of vLLM's scheduler the model keeps first-come queues, the token budget and chunk
size, allocation from the free queue, block hashes and prefix hits (a hit leaves
one token to compute), preemption of the last running request and its return with
`num_computed_tokens` from the hits. Block hashes are not passed to the worker by
the vLLM versions the plugin supports, so the worker matches by physical block
number (`hashes = None`); `PrefixWalk` also covers the matching by hash. Some vLLM
versions skip prefix hits for prompt-logprob requests; the model lets them happen,
as the worker's bypass is written for them. Aborts of requests never scheduled are
left out: the worker has no state for them.

### The other modules

The other parts are modelled apart from `MbltWorker`, because their questions do
not need each other's state:

- `PrefixCacheCost`: `prefill`, `load` and `dump` are the model's three dicts;
  `CalibrateBucket`, `Load` and `Dump` are the places that observe, each guarded by
  the decision that leads there. Times are integers, averages rounded down (so an
  average of times in a range stays in it, as in floating point), comparisons exact.
  The environment variables that switch calibration off are the choice to end it
  at any time.
- `StepForward`: `MbltWorker` runs a row's forward in one step; here
  `NormalPiece` and `Microstep` are single infers, `Collect` the loop that turns
  logits into prompt logprobs, and `Return` the end of the step. The logits after a
  token are represented by the tokens they were computed from. What
  `_runtime_output_logits_mode` makes of the artifact is open at every call, so a
  row may be run for all its logits and come back with fewer: `Replay` is the
  fallback, which runs the prompt again on the row's own cache and restores its
  length. If the answer never changes, the fallback is not reached. Its batched
  variant, which `execute_model` does not call, is left out. A request
  may start on a prefix hit or restart from further back, never from further than
  it had computed: vLLM does not read its prefix cache for requests that want
  prompt logprobs. Requests each have their cache to themselves, which `MbltWorker`
  shows (`NoCacheIsShared`, `RowsKeepTheirSlots`).
- `Eagle3Runner`: vLLM's account of a request (`text`, `computed`, `status`) beside
  the runner's (`requests`). `Begin` applies finished, new and cached requests,
  `RunRow` is the loop over scheduled rows, `UpdateFromOutput` is vLLM cutting what
  a round settled. `num_computed_tokens` of the runner is left out, as it is set
  from the SchedulerOutput before every use. The platform serves one EAGLE-3
  sequence at a time and refuses `min_tokens`, which would let vLLM go on past a
  stop token; the runner itself, and the model, serve several.
- `VisionInputs`: `Begin` is a step's features, those of all its new requests
  joined as the code joins them; `Skip`, `Hit`, `Repeat` and `Wait` are the four
  ways through the lookup loop, `Take` and `EncodeBatch` build and run a batch (all
  of one kind, images or videos, before the other, in the order of their first items:
  `KindNow`), `Deliver` is `encode_batch` handing out one output and caching it, and
  `BuildPrompts` the scatter that demands an output for every feature. An exception
  out of the encoder (`Raise`) ends the engine core, so nothing follows it. The
  joined output of a batch is split by placeholder counts in the code; the model
  takes the pieces as each item's own (the counts are those the processor computed
  from the same grids). `put` is modelled with its replacement of a key although
  `EncodesOnlyWhatIsMissing` shows that the worker never gets there.
- `DataParallel`: an environment is the list of visible cards and the marker of a
  checked assignment. `Prepare` and `PrepareInEngine` are the configuration hook in
  the front end and in an engine, `InitDevice` the narrowing, `LoadModel` the
  resolution of the card, its renumbering and the placement. How vLLM starts
  engines is external: it may split the variable, assign each rank a card (and turn
  the ranks of a dense model into engines of their own, which no longer know of data
  parallelism), or leave the variable alone. `CanPlace` is when
  `place_model_kwargs_on_card` does not raise: each NPU role (the one without a
  prefix, or the prefixed ones the config or the kwargs name) stays on one card, and
  on a model of several roles no target leaves its role open. `additional_config` is
  a dict, as by default. `IdleStepPacer`, which sleeps
  between idle steps, is a matter of time and left out.
- `NpuTracing`: start and stop hold a lock and are one step each. A start that fails
  or is refused records nothing; a stop that cannot write the log loses the log and
  ends the recording. The benchmark helper of mblt_model_zoo, which traces through
  the same recorder, starts only while nobody records (external). The workers of a
  process may follow one another or coexist.
- `Platform`: an LLM object of the process has a `model` (its family, and every place
  its core mode, batch size and chunk size may be given in) and `settings`, which
  `CheckAndUpdateConfig` changes as often as vLLM calls it; `phase` says whether the
  hook went through or raised, and `serving` is `_serving_eagle3`. Sizes are numbers
  per core mode, 0 for an entry that is missing or unusable; a list of strings or a
  Boolean in their place is such an entry. `Refuses` is `validate_request`, which
  changes nothing: called from a method of the engine, or by a caller without the
  engine's configuration. A request's `media` is what of its images and videos the
  worker tells apart: `"none"`, one image that is `"placed"` where the artifact was
  compiled for, `"elsewhere"`, or `"moved"` from where its session had it, several
  `"images"`, a `"video"`, or an `"other"` modality. What the worker raises for inside
  `execute_model` is what `CanServe` excludes (`TakesMedia`: the checks of
  `_validate_mobilint_vlm_request_constraints`), and `Loads` says which artifacts it
  loads. That dynamic vision takes no grid past its limit is in `VisionInputs`, where
  the encoder raises for one; the processor clamps grids to that limit. Settings the
  hook forces to a constant are left out.
- `Engines`: `Configuring` is the hook in the front end, for the engines served data
  parallel (`Host`) and any other LLM object of the process; `StartingEngine` gives an
  engine process a copy of the settings (`copied`), on which `ConfiguringEngine` runs
  the hook again; `Placing` and `Profiling` are the worker's part. The trace of one
  rank's process (`Traced`) is followed.
- `HostSampling`: a row's logits are its tokens' weights (exp at the row's
  temperature), natural numbers, so that sums are exact; `Rounding` is how far
  vLLM's own sums may be off, and the reference keeps any set of tokens this allows.
  `SearchTopK` and `SearchTopP` are a pass over the most likely tokens, `DrawAll`
  the fallback to vLLM's mask, and `draw` the list a row is drawn from. The uniform
  variate is not an action: `DrawsAsReference` counts, for every token, the
  variates that pick it. Penalties, bad words and reported logprobs, which treat the
  logits row by row, are left out.

## Runs

| run | module | question | states |
| --- | --- | --- | --- |
| `prefix_walk` | `MCPrefixWalk` | does the indexed walk find what a direct comparison would, and only usable KV? | 1.7 M |
| `manager` | `MCRuntimeCacheManager` | is the manager consistent under any calls? | 12 k |
| `batch` | `MCMbltWorker` | does a batch model answer each request as if it were alone? | 275 k |
| `single` | `MCMbltWorker` | the same for a non-batch model, with images, recycled blocks and prompt logprobs; and does every request end? | 191 k |
| `prefix_cost` | `MCPrefixCacheCost` | is exactly what may be loaded later worth keeping? | 59 k |
| `step` | `MCStepForward` | do pieces, microsteps and replays give every row its logits and every prompt position its logprobs? | 608 k |
| `sampling` | `MCHostSampling` | is each row drawn as vLLM would, from its own parameters? | 8 k |
| `eagle3` | `MCEagle3Runner` | do rounds give the text that one token at a time would? | 409 k |
| `encoder` | `MCVisionInputs` | is every prompt built from its own images, each encoded once? | 635 k |
| `engines` | `MCEngines` | does each engine open its card, does what vLLM schedules fit the model, are requests judged by the right model, and does each trace keep its window? | 247 k |
| `resample` | `MCMbltWorker` | (violated, finding 1) | |
| `warning` | `MCMbltWorker` | (violated, finding 2) | |

Bounds, and why they are enough for these questions:

- `prefix_walk`: every request and snapshot of four or five tokens over two text
  tokens and two images, in blocks of two, with and without hashes, fingerprints,
  explicit embeddings and the same session, on equal, swapped and partly equal
  block tables, next to a second snapshot. Two blocks give the boundary inside and
  between blocks; two snapshots give the choice.
- `manager`: three requests, three slots on two cards, caps 0 to 2, resizing. All
  cycles of assign, release, store, finish and evict among three requests.
- `batch`: four requests on two slots in blocks of two. Two prompts are a
  conversation and its next turn, a third leaves it after a block, and one shares
  nothing. Prompts take two chunks, answers two tokens, three requests may be
  aborted. Twelve cache objects, two for each request and four more, are enough for any
  step of the code: `CacheAssumption` says so of every instance, and the proofs show
  that `FreeCache` always finds one.
- `single`: three blocks for requests of two blocks each, so that blocks are
  recycled as first blocks of other contents and requests preempt one another. The
  prompts differ only in their image, which placeholder ids hide.
- `prefix_cost`: prompts of up to five tokens over buckets of one, two and four
  (estimates are scaled inside a bucket, between buckets and past the last), three
  slots (two middle values and a true median), a minimum hit inside the buckets,
  and loads much cheaper and much dearer than a prefill.
- `step`: as a batch and one row after the other; prompts of four, one and one
  tokens, of which the first two want logprobs; chunks of three tokens, pieces of
  two, two answers each. A prompt of four has chunks of several pieces and a last
  chunk that crosses into the answer; one of a single token has no position to
  score.
- `sampling`: a vocabulary of seven, top-p passes over one and two tokens and top-k
  passes over twice the largest k and one, then twice that. Alone: every descending
  row of weights up to three with ties of up to three tokens, which reach past the
  first pass, for every top-k up to three and four values of top-p, and a tie that no
  pass sees the end of. Rows with ties of three also next to a row that widens the
  passes, one searched by top-p alone and one at temperature 0.
- `encoder`: any step of up to three of eleven features: an image sent twice as two
  objects, other content and another modality under its identifier, one without a
  grid, one larger than the budget, one past the encoder's limit, one the encoder
  raises for, an audio, and one without data. The budget holds one large or two to
  three small outputs, a batch two items.
- `engines`: two local ranks of three, two roles, and lists of cards that are too
  short, too long, name a card twice or are empty, wherever cards can be named; a
  configured role, and targets that span cards or name no role, where only the first
  sources name cards; all launchers; two workers that trace. Two LLM objects, an
  EAGLE-3 model served data parallel beside a plain one, with each of those ways of
  serving; and, with one way of serving, sizes given anywhere, for one, two or all
  core modes or as a default, smaller and larger than the chunk limits of two and
  the batches of three, all model families, all ways an artifact and its declaration
  may differ, next to a plain or an EAGLE-3 model, and settings below, at and above
  the limits.
- `eagle3`: a request that ends at the model length, one that ends at `max_tokens`
  and one whose prompt fills the model length; rounds accept up to two draft
  tokens, chunks are of three, two preemptions (`MaxPreemptions`), aborts at any
  time. Each text may go on in two ways that depend on it, so a token chosen after
  the wrong text shows.

Deadlock is checked in all runs but `prefix_cost` and `engines`. In `prefix_cost`
loads and dumps that are all refused measure nothing more (a slow measured load can
make the cost model refuse loads for good: only accepted loads are measured). In
`engines` a refused start is the end of it. In the worker's runs `AllServed` is the
only way to stop, so a scheduler and a worker that wait for each other, or an
`assign_slot` that would raise, show as deadlocks; so does, in `eagle3`, the error
for an exhausted request, and in `encoder` a prompt with an image that has no
output.

What the properties say:

- `AnswersAsIfAlone` (refinement of `IsolatedRequests`): logits are always computed
  from a prefix of the request's own tokens, and a token is sampled only from those
  of all of them. This is the worker's contract; the invariants say why it holds.
- `CacheHoldsOwnTokens`, `SnapshotsAreHonest`, `NoCacheIsShared`: which KV a cache
  holds, what a snapshot may advertise, and that no two owners share a cache.
- `RowsKeepTheirSlots`, `SlotsFollowRequests`: between a row's preparation and the
  joint forward nothing takes its slot, cache or length; live requests and held
  slots correspond, and a new request always finds a slot.
- `SnapshotsAreReclaimable`: nothing holds KV for ever.
- `OnlyLiveKVIsSaved`: without host offload no finished request's KV is ever dumped
  by a bind (issue #40 of the repository).
- `LivePrefixIsNeverIncomplete`: the worker's own warning does not fire; it fails in
  `warning`.
- `KeepIsExact`: `should_keep_snapshot`, computed from the cheapest slot and the
  dearest prefix, says yes exactly if `should_load` could accept some prefix on some
  slot, where loads not measured yet are taken to last as long as the dumps did: no
  snapshot a load would use is dropped, none is saved in vain.
- `RowsRunWhole`, `TableFollowsPosition`, `EchoesPrompts` (refinement of
  `EchoedPrompts`): pieces continue where the last one ended, logprobs are complete
  up to `next_prompt_logprob_pos`, and the step that returns a first token returns
  the logprobs of the whole prompt, each position computed from exactly the tokens
  before it.
- `RunnerFollowsText`, `ExhaustedIsFinished`, `TextAsGenerated` (refinement of
  `GeneratedText`): the runner's copy of a request is vLLM's, a round that cannot
  go on is one vLLM ends too, and a text never differs from one decoded token by
  token.
- `PromptsGetTheirOwnImages`, `EncodesOnlyWhatIsMissing`: batching, repeats and the
  cache are invisible in the prompts, and a step encodes each item once.
- `CountIsExact`, `EvictsLeastRecentlyUsed`: the byte count kept by hand is what the
  entries take and within the budget; what goes was last used before all that stays
  (against a history of uses the code does not have).
- `CardsAreDistinct`, `OpensItsCard`, `AcceptedIsServed`: an engine that comes up
  runs on the card named for its rank and no other does; what the front end checked
  is refused neither by the hook's later runs nor by an engine, but for what the hook
  does not read: sources that only `load_model` merges, targets that span cards, and
  unprefixed targets on a model of several roles. The latter two every engine refuses
  (see "Gaps met while modelling").
- `ClaimIsTheRecording`, `WindowsAreNotTakenOver`: flags and claim say what is being
  recorded, after failing stops and shutdowns too, and no start cuts another's
  window short.
- `LimitsFitTheModel`: whatever was asked for and however often the hook runs, vLLM
  schedules no more sequences, and no more tokens of one, than the model was compiled
  for, leaves every sequence of a batch its part of a step, and does so by the same
  settings in the front end and in every engine.
- `RequestsJudgedByTheirEngine`: whichever engine was configured last,
  `validate_request` judges by the one a request is for. To an EAGLE-3 model and to a
  batch Qwen3-VL with a declared static position it lets nothing through that would
  end the engine in `execute_model`. Of other image-text models it looks at nothing,
  so there the property is about clients that keep to the limits the repository's
  README states (src/README.md:121-126: `KeepsToTheLimits`); a request beyond them
  does end the engine (see "Gaps met while modelling"). It refuses nothing the model
  could serve, unless a static position is declared for an artifact that has none.
  The class's flag answers as well, for a caller that has no engine, as long as the
  hook has seen one kind of model.
- `DrawsAsReference`: the tokens a search keeps are the very ones of vLLM's mask
  however its ties and rounding turn out (with a top-p alone, as many of each
  weight), and each is drawn by as many variates as its weight.
- `RowsKeepTheirTemperature`: although two flags over the batch decide how rows are
  sampled, a row at temperature 0 gets its best token, one with a top-k of 1 a best
  token (of equally good ones, any, next to random rows), and any other a drawn one.
- `EveryRequestEnds` (in `MbltWorker` and in `Eagle3Runner`): under weak fairness
  of the engine's step. The engine core calls `step` in a loop for as long as it has
  requests, so the fairness is the loop's; arrivals and aborts are not fair.
  `MbltWorker` writes it out: either the engine is again and again without requests
  (`HasRequests` is that loop's condition), or it steps again and again. This is
  WF of the engine's step wherever the step is possible whenever there are requests,
  which the check for deadlock shows; TLC would take long to evaluate ENABLED of a
  step this large.

Each property has a mutant in `PROJECT.json`: an operator beside the one it alters,
marked "Mutant", under which TLC finds the property violated.

## Findings

1. `resample` - `_should_sample_after_step` compares the end of the step with the
   prompt only. A request preempted after generating tokens and recomputed in
   chunks is sampled before all its tokens are in its cache; vLLM appends the token
   as its next one. `eagle3_runtime.py` follows the opposite rule. It needs
   preemption, which the block pool excludes for batch models (blocks for one
   request more than the batch) but not for a non-batch model whose `max_num_seqs`
   was left at vLLM's default. `AnswersAsIfAlone` is therefore checked where
   resumed requests fit one chunk of recomputation or are not preempted.
2. `warning` - the live-prefix-incomplete warning is documented as a bug signal,
   but fires when a request preempted in its first block resumes on a block another
   request has filled meanwhile. Nothing is wrong then: the worker loads or
   recomputes the rest.

### Gaps met while modelling

Two places where what the front end lets through is refused later. No line of the
repository says it is caught earlier, so they are no findings; the properties except
them by name.

- `validate_request` looks at images only for a batch Qwen3-VL with a declared static
  position (mblt_platform.py:468-492). To a Qwen2-VL, or a static Qwen3-VL that is
  not such, a client may send a video, several images, or an image at another place
  than its session's first one; another modality, to a dynamic Qwen3-VL too, is stopped
  by vLLM's processor at best. `_validate_mobilint_vlm_request_constraints` raises for
  each of these inside `execute_model` (mblt_worker.py:867-932), and the
  engine ends, with all its requests.
- The hook checks the cards the caller names, not the targets. Targets of one role
  that span cards, and `target_cores` or `target_clusters` without a role on a model
  of several roles, are accepted by the front end and raise in every engine's
  `load_model` (data_parallel.py:330-347; the latter is asserted by
  tests/test_data_parallel.py:413-415).

## Proofs

All theorems hold for every value of the constants that the assumptions named in
the modules admit. Those are about shapes (a block has a token, a prompt is not
empty, finitely many requests and blocks, limits are positive) and about `None`,
which stands for Python's `None` and must be none of the records it is compared
with (`NoneAssumption`, `RecordAssumption`). Some say more: `CacheAssumption` gives
the model enough names for cache objects, and `StepAssumption` that a batch model
is not scheduled more sequences than it has slots, which the platform sees to
(`LimitsFitTheModel`); `ContentAssumption`, `PrefixAssumption` and
`PrefixesAssumption` say what token ids, embeddings and image identities tell of the
content, and which prefixes a snapshot may hold. `SamplingAssumption` asks of a row
that its logits are not all minus infinity and that its `top_p` is above 0 and at
most 1, as vLLM's parameters are.

| module | theorem | states |
| --- | --- | --- |
| `PrefixCacheProofs` | `TypeCorrect`, `SlotsAlwaysConsistent`, `LruAlwaysOfSnapshots`, `IndexAlwaysCurrent` | invariants of the manager |
| | `FinishAlwaysRespectsCap`, `AlwaysEvictsOldestFirst` | its action properties |
| | `StaleIsNeverUsable` | `NothingUsableIsStale`, of the manager |
| | `WalkAlwaysAgrees`, `WalkAlwaysSound` | both invariants of the walk of the index |
| | `EstimatesInRange`, `KeepAlwaysExact` | invariants of the cost model |
| `MbltWorkerProofs` | `InvAlways` | the inductive invariant of engine and worker |
| | `AlwaysTypeOK`, `AlwaysCacheHoldsOwnTokens`, `AlwaysSnapshotsAreHonest`, `NeverSharesACache`, `AlwaysRowsKeepTheirSlots`, `AlwaysSlotsFollowRequests`, `AlwaysSnapshotsAreReclaimable` | every invariant that `batch` and `single` check |
| | `AlwaysOnlyLiveKVIsSaved` | the action property of `batch` |
| | `AnswersAreThoseAlone`, `UnpreemptedAnswersAreThoseAlone` | the refinement of `IsolatedRequests`, under a condition each |
| `StepForwardProofs` | `RowsAlwaysRunWhole`, `TableAlwaysFollowsPosition`, `PromptsAreEchoed` | invariants, and the refinement of `EchoedPrompts` |
| `Eagle3RunnerProofs` | `AlwaysFollowsText`, `ExhaustedAlwaysFinished`, `GivesWhatIsPromised` | invariants, and the refinement of `GeneratedText` |
| `HostProofs` | `AlwaysTheirOwnImages`, `AlwaysEncodesOnlyWhatIsMissing`, `CountAlwaysExact`, `AlwaysEvictsLeastRecentlyUsed` | everything that `encoder` checks |
| | `AlwaysDrawsAsReference`, `AlwaysRowsKeepTheirTemperature` | everything that `sampling` checks |
| `EnginesProofs` | `AlwaysOpensItsCard`, `CardsAlwaysDistinct`, `AcceptedIsAlwaysServed`, `ClaimAlwaysTheRecording`, `WindowsNeverTakenOver`, `LimitsAlwaysFit`, `RequestsAlwaysJudgedByTheirEngine` | everything that `engines` checks |

### The manager and the cost model

The methods of the manager are operators on managers, so the argument is made once
per method, in `RuntimeCacheProofs`: each maps well-typed managers to well-typed
managers and keeps slots matched, the LRU ordered and the index current. The proof
of a step of `RuntimeCacheManager` or of a handler of the worker then only names the
methods it calls. `SlotsMatch` is inductive together with the types: a slot is
chosen among the free ones, which needs that a least one under `ChooseFreeSlot`'s
order exists (`LeastByNonempty`), and releasing a slot needs that the two maps are
inverse. `LruIsOfSnapshots` needs that moving a request to the end keeps the order
total, and that eviction removes a set closed under it; with the number of those
below each place of a finite total order (`AgesCount`) the same lemmas give how many
are left and which.

`TypeOK` of the cost model is inductive: a weighted average of two times in a range
stays in it, also rounded down. `KeepIsExact` is not about steps but about all
estimates of that type. If a load of some prefix `k` is accepted, `k` is estimated by
its own bucket, which is either the bucket of the whole snapshot (then the whole
snapshot is estimated no lower) or one within it, whose own time is among those
`PrefixEstimates` takes. Conversely the estimate and the slot that make the snapshot
worth keeping are those of a load that would be accepted. The median of the measured
slots, which stands for an unmeasured one, is never below the cheapest.

### Matching and the walk of the index

A match narrows a number of tokens in three steps (blocks, ids or embeddings,
images). Each step gives no more than it is given, no less for more, and nothing for
any number if it gives nothing for some (`TokenMatchIs`, `PastEmbedsIs`,
`EmbedMatchIs`, `ImageMatchIs`), hence so does the match at a depth of the index
(`DepthMatchIs`). That the nodes of the walk agree follows:

- `StaleIsNeverUsable`: what one block already proves stale matches nothing at the
  node where the walk would use it.
- `WalkAlwaysAgrees`: `WalkInv` says of each snapshot how deep the walk has seen it
  (`SeenTo`), that no better match than `bestTokens` was found of it down to there,
  that the best one's is not above it, and that it is in `stale` exactly if it was
  seen at all and is stale for the request. A walk that has ended has seen each
  snapshot as deep as it shares blocks with the request, and there the match is the
  direct one (`CompatibleAsWalked`: the number of blocks `compatible_tokens` needs is
  where its rounding hides).
- `WalkAlwaysSound`: `ContentAssumption` says what ids, embeddings and identities
  tell of the content: equal ids name equal embeddings, but for images; known and
  equal identities name equal images; explicit embeddings are the content's. The
  match allows a position of an image only where the identities are
  (`ImagesAllow`), so what is verified agrees with the content position by position.

`ContentAssumption` also says that ids known past an embedded prompt are the
content's. `_cache_token_ids` takes the prompt's ids and the outputs', and the tests
give an embedded prompt ids of its own length. If vLLM gives an embedded prompt no
ids at all, they are the outputs' alone, and where enough of them are known
`prompt_embed_compatible_tokens` compares them shifted by the prompt's length; the
theorem does not speak of that case, and in the instance such ids are not known.

### The worker

`WorkerCachesProofs` says of each handler what it does to a sound worker, and
`MbltWorkerProofs` that scheduler, plan, step and worker fit together. `Inv` is
preserved by every action:

- `SchedInv` and `PlanInv`: the queues hold each request of their status once; the
  plan covers the running requests from the front, takes up where each stood, and
  leaves every running request something to compute. That a request of the plan is
  new only after nobody was preempted in this step is vLLM's order of planning, and
  the worker relies on it: it gives slots to new requests without looking for those
  preempted.
- `StepInv` and `LogitsInv`: what is left of a step is of its plan, and rows have
  run exactly when they started (or all, in a batch).
- `CachesInv`: of the caches, whatever the step has done so far.
  - `Sound`: each used cache is one live request's or one snapshot's (`Owned`), is on
    the slot its owner may use or off the NPU (`Placed`, `Slotted`, `Marked`), holds
    a prefix of the tokens its owner knows (`Holds`), and a snapshot's label does not
    go beyond it (`Honest`). The matching enters here: a match is by token ids,
    block numbers and multimodal identity, and that ids and identity agree implies
    that the embeddings do (`WorkerCaches`' `Prefixes` and `ImageSpans`).
  - `Acting`: an entry of `_slot_caches` is of a live request, on its cache and slot.
    A finished request's entry must be gone before its cache becomes a snapshot's.
  - `OwnerOk`: transformers-mblt's owner of a slot is the worker's or nobody. This is
    why the worker's settling of a slot saves what a bind would otherwise overwrite.
  - `Tidy`: a cache nobody refers to is unused. This bounds the caches, and is what
    `FreeCache` needs at four places.
- `LiveInv`: the worker knows the requests the scheduler runs, but for those it is
  yet to admit and with those it is yet to finalize.
- `RowInv`: a row that was started and has not run is on its slot, with the KV of
  the tokens it starts from (`Poised`): no row of the step started later takes it.
  It is the part that is hardest to see in the code, where the slot of a row is
  settled, loaded into and bound before the next one's.
- `SettledInv`: any other request's cache has the KV of exactly the tokens counted.
  It fails inside a step, when a request has been continued with fewer tokens and its
  row has not been started; `RowInv` bridges this.

`CacheHoldsOwnTokens`, `NoCacheIsShared` and the others are parts of `Inv` or follow
at once, `SlotsFollowRequests` by counting: requests hold distinct slots of a batch,
and no more than `MaxSeqs` run, so one is free for a new one.

That `MbltWorker` implements `IsolatedRequests` is not a theorem: finding 1 refutes
it. `AnswersAreThoseAlone` proves it wherever `SampledRowsRanOnAllTokens` holds, the
very property that `resample` finds violated, so this is all that can go wrong with
a request's answers; `Inv` shows that logits are always of a prefix of the request's
own tokens. `UnpreemptedAnswersAreThoseAlone` proves it without preemption: then a
request that has been answered computes one token in each step, its last
(`CaughtUp`), and so is sampled only where its model ran on all of them. A batch
model is not preempted as long as the block pool has what vLLM gives it.

### The forward of a step and prompt logprobs

`RowsRunWhole` and `TableFollowsPosition` speak of moments of a step; `Inv` says for
every infer where a row stands: its cache holds what was run (`RowInv`), the logits
kept are those from its start on, and none is missing that a position of the prompt
needs unless the row is to be replayed (`KeptInv`), no position is skipped between
what was given and where a row starts (`PositionInv`), the table is filled below
`pos` with the right tokens and empty from there on (`TableInv`), and complete
logprobs are in the table, on their way or given (`AnswerInv`). The last is what the
refinement of `EchoedPrompts` needs: the step that samples a first token is the one
that found the table complete.

### The EAGLE-3 runner

The two invariants are not inductive: both compare the runner with vLLM between
steps, and a step changes them one row at a time. `Inv` says it for every state: an
entry stands (`StandsAt`) at vLLM's text with the tokens that still wait to be
appended (`Pending`), an entry is exhausted only if that text has ended, a cache has
been fed all of it but the root, and waiting tokens could have come one by one
(`OneByOne`). The rest of `Inv` is what the scheduler's rows may rely on: a new
request's text is its prompt, a continued one is known to the runner. A round is the
heart of the argument (`RoundIsSound`): the cap `_run` gives a round, which counts the
root once more, makes a round exhausted exactly if its text ends (`EndedAfter`), and
no earlier token ends it. So vLLM cuts nothing (`NothingIsCut`), and each step of
vLLM's text is one the promise allows.

### Vision inputs

That every feature has its output when prompts are built is not inductive: `Inv` says
where a feature without one is (`Underway`): not looked at yet, awaiting the encoder,
or among the repeats of a key whose feature awaits it. That outputs are the right
ones needs that an entry of the cache holds what the encoder gives for every feature
of its key, and that repeats share the key they wait for; of the cache itself only
that eviction drops entries. That nothing is encoded twice needs more (`OnceInv`): no
two of the features waiting have one key (`LoneKeys`), the cache holds none of their
keys (`AwaitedAreMissing`), and what was handed out in the first loop is held still
(`HandedOutIsHeld`), which ends with the first `put`.

`CountIsExact` compares a number with a sum over a sequence, a fold. How the sum
changes when an entry goes from the middle or is added at the end is shown by
induction over the length; the library's induction takes an operator, which the
provers cannot instantiate, so it is done over sets of naturals (`NatSetInduction`,
from the library's theorem that `Nat` is well-founded). For `EvictsLeastRecentlyUsed`
the entries are shown to stand in the order of the history of uses.

### Sampling

`SamplingInv` is about each row by itself, whatever the others: the searches left to
it are large enough for its `top_k` (`TopKSizesAreSizes`; they are chosen for the
largest of the batch), and what it is drawn from is right for it (`RightDraw`). The
argument is in the lemmas on which a search's decision rests:

- `TopIs`, `NotLighter`: what `topk` gives is a list of different tokens, each at
  least as likely as any not before it. By counting, no place of one such list is
  lighter than the same place of another, longer or shorter, so the weights at a
  place are the same however ties fall (`SameWeights`).
- `SameTops`: a list that has seen every tie of its k-th entry has, after top-k, the
  weights of the sorted vocabulary after top-k, which goes on with zeros. So all sums
  are the same too (`SameSums`).
- `OneCut`, `MaskCutsAsSearch`: if no sum is within the rounding of the cutoff, all
  roundings cut at one place, the search's. `NucleusIsAtLeast`, `KeptIsAtLeast`: if
  that place does not split a tie, what is kept are the tokens of at least some
  weight, whichever list they come from. Together they make `SearchIsMask`: the
  reference has one mask, and the search keeps its tokens. Each of the two conditions
  of `_top_k_nucleus` is needed in one of the lemmas.
- `MassCounts`: a mass is the number of its tokens' units, so it does not depend on
  their order. With it, a search by `top_p` alone that covers it keeps the first
  tokens of a sorted vocabulary that continues its list (`TopGoesOn`), cut as an exact
  mask cuts it (`NucleusIsMask`).
- `DrawnByWeight`: the variates for which `_inverse_cdf` picks an entry are as many
  as it weighs.

`RowsKeepTheirTemperature` adds that with a `top_k` of 1 the best tokens are kept by
any list and by any mask (`FirstKeepsBest`, `MasksAreBest`).

### Engines

The theorems on cards follow from one invariant: once the front end has checked, its
list gives every rank a card of its own (`Settled`), and an engine sees that list or
the one card of it that is its own (`EngineIsRight`). Whichever way it comes by its
card is then the same one, and all checks of later steps pass. Distinctness follows
from `OpensItsCard` because the named lists are injective.

`LimitsAlwaysFit` and `RequestsAlwaysJudgedByTheirEngine` rest on lemmas about the
hook. What it leaves fits the model and is a fixed point of the hook (`HookFits`), so
once an LLM is ready its settings never change, and a copy of them does not either;
whether the hook raises for a model does not depend on the settings. The flag is
always that of some model the hook has seen (`ServingIsOfSomeModel`), which is what
the fallback of `validate_request` needs. The default chunk size is assumed to be no
larger than the limit for batches.

### Only model-checked

- `EveryRequestEnds`, in `MbltWorker` and in `Eagle3Runner`: liveness under fairness,
  and the ENABLED it rests on, are out of the prover's reach. So is the absence of
  deadlock.

Every other property of the passing runs is a theorem, `AnswersAsIfAlone` under the
conditions above. No module declares a RECURSIVE operator. The types of the manager
and of the cost model are proved and not checked by a run besides.

## Not modelled

- model definitions, image and audio pre-processing and plugin registration, which
  keep no state;
- settings the platform's hook forces to a constant: the executor, async scheduling,
  the block size, the multimodal processor cache of Qwen3-ASR, pinned memory;
- a Mixture-of-Experts model's caches, which always use slot 0 of their own object;
- the pacing of idle data parallel steps, and how well the cost model's averages
  follow the machine: both are about time;
- errors raised out of `execute_model`, after which the engine core ends;
- `StepForward` and `MbltWorker` in one module: `StepForward` takes from `MbltWorker`
  that a row has its cache to itself and starts where the worker counted
  (`NoCacheIsShared`, `RowsKeepTheirSlots`, both proved), `MbltWorker` from
  `StepForward` that a row that ran has run on all its tokens (`RowsRunWhole`, proved).
