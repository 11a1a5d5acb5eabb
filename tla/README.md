# Inferneo in TLA+

Inferneo is an inference engine for language models: continuous batching over a
paged KV cache, with prefix caching, chunked prefill, preemption by
recomputation, an offline API and an asynchronous server. This directory holds a
specification of its core, the TLC runs that check it on small instances, and
proofs checked by TLAPS. Line numbers refer to the source in `src/inferneo`.

    tlc -workers 2 -config MCSchedulerPressure.cfg MCScheduler
    tlapm KVCacheManagerProofs.tla

## 1. The system

| part | code | state it keeps | operations |
|---|---|---|---|
| block pool | `kv/block_pool.py` | LRU free queue, reference counts, hash on each block, hash index | `allocate`, `free`, `get_cached_block`, `cache_block` |
| KV cache manager | `kv/block_manager.py`, `kv/hashing.py` | block table and hash chain of each request | `get_computed_blocks`, `allocate_slots`, `free` |
| request | `engine/request.py` | tokens, computed-token count, status | `append_output_token`, `check_stop` |
| scheduler | `engine/scheduler.py`, `engine/interfaces.py` | waiting and running lists, newly finished ids | `add_request`, `abort`, `schedule`, `update_from_output` |
| engine | `engine/engine.py` | scheduler, runner, detokenizers | `add_request`, `abort_request`, `step` |
| model runner | `executor/torch_runner.py` | its own copy of each resident request, seeded generators, KV tensors | `execute`, `init_kv_cache` |
| attention | `attention/sdpa_backend.py`, `flashinfer_backend.py` | the KV tensors | `build_metadata`, `forward` |
| CUDA graph decode | `executor/cuda_graph.py` | one captured graph per batch-size bucket, static buffers, page metadata | `run` |
| sampler | `sampling/sampler.py` | none (generators belong to the runner) | `sample` |
| async engine | `engine/async_engine.py` | inbox, aborts, queue per id, event loop, error | `generate`, `abort`, `start`, `shutdown`, the engine thread |
| offline front | `engine/llm.py` | its engine outlives the call | `LLM.generate` |
| server | `server/*.py` | per call: tick, detokenizer, chunks sent | `completions`, `chat_completions`, `_collect`, the two streams |
| tokenizer | `tokenizer/tokenizer.py` | window of the incremental detokenizer | `decode` |
| input processing | `inputs/*.py` | none | prompt with an image: placeholder tokens, and a row per token |
| statistics | `metrics/stats.py` | counters, rolling windows | `record_step`, `snapshot` |
| models | `models/*.py` | weights | forward pass |

How they interact. HTTP handlers are coroutines that call `AsyncEngine.generate`;
it shares an inbox, a list of aborts and a table of queues with one engine
thread, which drains the first two under a lock, calls `InferneoEngine.step`, and
sends outputs back through `call_soon_threadsafe`. A step is
`Scheduler.schedule` -> `TorchModelRunner.execute` -> `Scheduler.update_from_output`.
The scheduler asks the manager for blocks, the manager the pool. The runner learns
what to compute from the block tables and positions in the scheduler's output, and
what to forget from its finished and preempted ids.

What is hard.

- *Sharing.* A block may be referenced by several requests, be parked with valid
  content, be revived, or be evicted; labels are put on before the content is
  written; two requests may compute the same block at the same time.
- *Scarcity.* An allocation may fail after a lookup has already taken references;
  a running request that gets no block evicts the last admitted one, maybe itself,
  while the loop is walking the list; priorities evict too. A preempted request
  starts over, so progress is not obvious.
- *Copies.* The runner keeps a second copy of each request's tokens, a scheduled
  entry freezes a block table, and ids may be reused.
- *Concurrency.* Clients arrive, hang up and are cancelled while the engine thread
  drains, steps, dispatches and possibly dies; statistics are written by one thread
  and read by others.
- *Batches.* The rows of a step share one tensor, one set of static graph buffers
  and one set of filter switches; a row must not feel its neighbours, nor what an
  earlier batch left behind.
- *Text.* Tokens are fragments of characters; a stream sends text piecewise, before
  it is known what follows.

The hazards, each at its line with the properties that watch it, are listed in
`PROJECT.json`.

## 2. The modules

    BlockPool  <-EXTENDS-  KVCacheManager  <-EXTENDS-  Scheduler  <-EXTENDS-  Engine
                                                          |
                                            GenerationService (implemented by)

    AsyncEngine     Detokenizer <-EXTENDS- ApiServer
    PartialSums  <-EXTENDS-  PagedDecode, Sampler, StatsCollector
    OfflineLLM

The proofs are in modules of their own, and each knows what the one below it has
proved (`<-` reads "is extended by"):

    SequenceLemmas <- BlockPoolProofs <- KVCacheManagerProofs <- SchedulerProofs
    SchedulerProofs <- EngineProofs
    SequenceLemmas <- AsyncEngineProofs
    SequenceLemmas <- KernelProofs      (PagedDecode, Sampler)
    SequenceLemmas <- FrontProofs       (OfflineLLM, Detokenizer, ApiServer, StatsCollector)

Each layer drives the actions of the layer below, and each layer below is also a
specification of its own, with every order of calls its callers could make. Three
refinements are checked as properties, and proved.

- The manager implements `PoolSpec` (run `kv_manager`) and the scheduler implements
  `KVSpec` (run `scheduler_pressure`). The mapping is the identity on the
  variables of the lower module, since the upper one drives these very variables;
  what the checks show is that the upper module never calls an operation outside
  its contract (no double free, no allocation beyond what is free, a table only
  covers existing tokens) and so keeps every property of the lower one.
- The scheduler implements `GenerationService`, what callers of the engine may rely
  on (`ImplementsService` in Scheduler: INSTANCE with the request's state, its
  question and its output as the mapping). The service has no queue, block, chunk or
  preemption: output grows by a token until the first one that ends the request,
  which is then over for that reason, and what was given stands.

**BlockPool.** `free`, `refCount`, `blockHash`, `cached` are `_free`, `ref_count`,
`block_hash` and `_cached`. One action per method. `usage()` reads only.

**KVCacheManager.** `table`, `hashed` and `tokens` are `_req_blocks`, the length of
`_req_hashes`, and `all_token_ids`. A method is a loop of pool operations, and each
turn of a loop is a step (`LookupHit`, `DropLastHit`, `RegisterBlock`,
`ReleaseBlock`), because each can change what the next finds. `hits`, `toFree` and
`unhashed` are the locals of those loops. `Settled` says that no loop is half
done; the next call waits for it. `hash_block` chains hashes, so a hash stands for
the whole prefix; it is modelled as that prefix, which assumes that Python's
64-bit `hash()` does not collide on the prefixes in use.

**Scheduler.** `phase`, `idx`, `budget`, `preempted`, `scheduled` are the locals of
`schedule()` and `update_from_output()`; every loop iteration is an action:
`PreemptForPriority` (phase 0), `ScheduleRunning` / `PreemptForBlocks` (phase 1),
`LookupPrefix` / `Admit` / `AdmitFails` (phase 2), then `UpdateChunk` /
`UpdateSampled` / `CheckStop` / `SkipAborted`. The sampled token is any token.
`waiting` is a set, since the code sorts it before each read and arrivals differ.
`RuntimeError` is the phase `crashed`.

**Engine.** Adds the runner: `resident` is `_states`, `embeds` is `_prompt_embeds`,
`draws` counts what a seeded generator has produced, and `kv` is what each slot of
the KV tensors holds. What is fed at a position is a *row*: the embedding of a token,
or of an image patch where the prompt has a placeholder (`Splice`). The key and value
of a token depend on all rows up to it, so a slot is modelled as that prefix, and
"attention reads the right memory" becomes a comparison of prefixes. `ExecuteStep`
is the early return of `step()` or all of `execute()`; a pure decode step goes
through a graph, which is fed token ids only, or eagerly (graphs are optional).
`image` is a ghost: the engine forgets which image a request came with, and that is
what the run `image_cache` is about. Requests with images have fresh ids, as the
front ends give them.

**PagedDecode.** The slots that each row of a step writes and each query token reads,
computed three ways: the SDPA reference, FlashInfer's page metadata, and a graph
replay. `buffers` and `plans` are the static tensors of `CUDAGraphDecodeRunner`; they
outlive a step, so a smaller batch finds there what a larger one left. What the
captured kernels do (`Replay`) is read off these buffers and not off the batch.

**Sampler.** `SampleRow` is one row of `Sampler.sample` as a set of possible tokens,
whose noise decides, and the tokens its logprobs name. It takes the whole batch,
because `.any()` over it switches the filters on. Logits are integers and their
exponentials (`Exp`, any monotone function) whole numbers; equal logits are sorted in
any order. The mass that top-p is compared with is a float32 `cumsum - probs`
(`sampler.py:134`), which for a peaked row reaches 1.0 before its tokens are used up. So
top_p counts whole parts (`Whole` of them are 1.0), and where the exact mass is within
one part of top_p (`Undecided`) the test comes out either way (`sorts`). The reference
it is checked against (`FilterIsNucleus`) has neither sort nor switch, and is exact up
to that part.

**Detokenizer, ApiServer.** Tokens are lists of byte fragments (`lead` and `cont`
make one character; special tokens are empty; words may begin with a space). `Delta`
and `Fed` are `IncrementalDetokenizer.decode`; `Cut` is the loop over stop strings
that both fronts have. ApiServer is one call: `Post` (schema, conversion,
`SamplingParams`, length), then per output of the engine a chunk, the response, or
the discovery that the client has gone. Its engine is what `StreamIsExact` of
AsyncEngine promises.

**OfflineLLM.** `LLM.generate` called again and again on one engine, with requests that
finish in any order. A call raises for one of four reasons (`raises`): a list of
parameters of the wrong length, before anything is added; a prompt the engine refuses,
after those before it are added; a step that raises (the scheduler's RuntimeError or
anything from the runner), at any point of the loop; an output that is not of this
call. Whatever was in the engine stays there for the next call.

**StatsCollector.** Two threads, each reading the clock in one step and taking the
lock in the next. `history` and `reported` are ghosts of every step and every latency
ever recorded.

**AsyncEngine.** Calls of `generate()` as clients with a program counter; the
engine thread with one (`thread`); event loops with their scheduled callbacks. On
one loop nothing runs between two awaits (`LoopFree`), but the engine thread does,
and the lock is the `LockFree` guard. The engine behind the thread is what the
Scheduler promises: a step serves some unfinished requests, ends some, or raises.

Mutants: the operators whose comment starts with "Mutant" are plausible bugs of
the definition that follows; every property of a passing run is violated by at
least one of them, which shows that the property speaks about the code.

## 3. The runs

| run | what it shows | bounds |
|---|---|---|
| `kv_manager` | exact free list, index inverse to labels, LRU eviction, counts equal holders, sharing only of equal prefixes; refines `PoolSpec` | 2 requests of up to 3 tokens, 3 one-token blocks, 2 token values |
| `scheduler_pressure` | nothing lost or leaked through preemption, abort, refusal; each step executable, within limits, running requests first; blocks that stay half full between calls are private; no crash, no failing assert; refines `KVSpec` and `GenerationService` | 3 requests, 3 blocks of two tokens, budget 4 |
| `scheduler_progress` | every request ends, under block pressure and priorities together; an eviction for priority pays off at once; slots and budget are kept | 3 requests, 2 priorities, 3 one-token blocks, 2 slots, budget 3 |
| `engine` | the runner stays in sync, a step reads only its own rows, cached blocks hold what their hash says, no leaked resident state or image rows | 2 ids, 3 submissions, text and image prompts, 3 blocks of two tokens |
| `async_stream` | exact streams and no orphaned work, through hang-ups, a crash and shutdown | 2 calls, 3 outputs each |
| `async_answer` | calls come to an end while the thread runs; a crash wakes every registered call | 2 calls, 2 outputs |
| `parts` | the three paths of the attention agree; the filters, and that neighbours cost a row no more than rounding; text and end of every stream and response; batches return their own results or leave what their exception says; snapshots are exact | see below |
| `prefill_cap` | *violated*: the prefill cap does not hold for running requests | 1 request |
| `small_pool` | *violated*: the remedy named by the RuntimeError leads to endless restarts | 1 request, 4 blocks |
| `seeded_draws` | *violated*: a seeded request that was preempted repeats a draw | 2 ids, 3 blocks |
| `image_cache` | *violated*: a request reads keys and values of another request's image | 2 requests, 2 images |
| `async_crash_race` | *violated*: a call on its way in during a crash waits forever | 2 calls |

Why these bounds are enough to be interesting. Three blocks that fit one request
of full length and not two make preemption, self-preemption and refused
admissions reachable, and revival and eviction of cached blocks happen between
them; prompts that share their first block make hits, and a prompt of an exact
number of blocks makes the case in which everything is cached. A budget below the
length of a recomputed prompt makes prefill chunks. With blocks of two tokens a request
holds a partial block between calls, and with fewer slots than requests, and a budget
for all of them, only the slots keep the third request out. Three submissions under two
ids reuse an id. Two clients are enough for every pairwise race between calls, as
the shared state is keyed by id and each loop iteration of the thread treats one
entry.

The `engine` run has one image: with two, the finding of `image_cache` is all it would
show. One image and text are enough for what else can go wrong with rows: lost in a
preemption, kept too long, or cut wrong where a recomputed chunk runs past the prompt.

`parts` puts five modules that share no state into one run; a behaviour exercises one
of them, the others stay at their initial state. Attention: two steps, of every decode
batch of up to four rows and three lengths and of mixes of chunks, over buckets 1, 2, 4,
blocks of two slots; two steps are enough, because a replay overwrites or keeps
each buffer entry as a function of the last one only. Sampler: every combination of
temperature, top-k, top-p, min-p and penalty, with a seed or logprobs, over three tokens
and four shapes of logits, beside five neighbours that turn on some switch or none;
the exponential of a logit is a power of two, and rounding one part in a hundred.
Server: outputs of up to five tokens of five kinds, which covers a window that
slides twice, and four lists of stop strings; request bodies with one field at,
beside and past each bound. Offline: three calls of up to two prompts, so that a
call can fail, its successor inherit, fail too or be rid of it, and the third be clean.
Statistics: three records against a window of one tick.

Bounds by name: `MaxSubmissions` caps `add_request` calls, `MaxModelLen` the
length of a request (also in the code), `MaxOutputs` the tokens of a call in
AsyncEngine and `MaxTokens` in ApiServer, `MaxSteps` the steps of PagedDecode,
`MaxPrompts` and `MaxCalls` the offline batches, `MaxClock` and `MaxRecords` the
statistics; `MaxRefs`, for a run of BlockPool on its own, the references to a block.
`Quiescent` in the MC modules is the stuttering of an engine thread with nothing left
to do, so that deadlock checking stays on; `parts` turns it off, since its calls are
answered and its inputs used up. In `scheduler_pressure`
request ids are symmetric; in `scheduler_progress`, whose property is temporal,
they are submitted in a fixed order instead (`FirstUseInOrder`), which is the same
reduction without the symmetry that TLC cannot use there. `OneAdmission` in
MCKVCacheManager keeps one lookup pending at a time, as the scheduler does.

Fairness. `WF_vars(EngineNext)` in the scheduler: the thread loop (or the loop of
`LLM.generate`) steps as long as there is unfinished work. In AsyncEngine the
engine thread and the event loops run (weak fairness); a call goes on if its loop
and the lock are free again and again (strong fairness), because both are
released every round; and every unfinished request is served again and again,
which is `RequestsFinish` of the scheduler. Clients need not arrive, hang up,
abort or shut down anything.

### What the violated runs say about the code

- `prefill_cap`: `config.py:39` calls `long_prefill_token_threshold` a cap on the
  prompt tokens of a request in one step. Phase 2 applies it; phase 1, which
  continues the prompt, does not (`scheduler.py:100`).
- `small_pool`: for a prompt that does not fit the pool, `scheduler.py:145` advises
  to reduce `max_num_batched_tokens`. With a smaller budget the request is admitted
  by its first chunk, runs out of blocks, preempts itself and is admitted again,
  forever.
- `seeded_draws`: a resumed request gets a freshly seeded generator
  (`torch_runner.py:310`), so its output depends on whether others made it lose its
  blocks, against `sampler.py:9-10`.
- `image_cache`: the placeholders of every image are the same token, and the hash of
  a block sees tokens only (`hashing.py:16`). A second request with another image and
  the same words hits the first one's blocks and computes with its image, against
  `hashing.py:4-5`.
- `async_crash_race`: `generate()` checks the error at line 121 and registers its
  queue at line 129. A crash handled in between misses it, and the call hangs,
  against the comment at `async_engine.py:99-100`.

Observations that the models support and no run states as a violation, because the
repository promises nothing about them or too little to be held to it:

- rows of a batch are not quite independent. `any(top_p < 1)` has every row tested
  (`sampler.py:130-135`), also those whose top_p is 1.0. Behind the first token of the
  logits 20, 0, 0 the float32 `cumsum - probs` is 1.0, so `preceding >= top_p` drops the
  rest, which the row keeps when it is alone. `test_batched_rows_independent`
  (`tests/unit/test_sampler.py:53`) has greedy rows only, where this does not show.
  `NeighboursTakeOnlyRounding` says what holds: nothing else is lost, and what is lost is
  lighter than the rounding;
- an id used by two calls at once lets the refused call abort the other's request, and
  a late abort of a finished call ends a new call with the same id; with two event
  loops results are scheduled on the loop bound last;
- a streamed answer is not cut at `stop` strings, a response and `LLM.generate` are;
  with several overlapping stop strings the cut depends on their order;
- an incomplete character at the very end of an output is held back and never sent;
- `total_prompt_tokens` counts processed minus generated tokens: recomputed tokens
  count again, and the last chunk of each prompt counts one less;
- a graph replay is fed token ids only (`torch_runner.py:329`): a prompt whose last
  token were a placeholder, recomputed alone in a pure decode step, would lose its image
  row. The processor ends every prompt with an image in text, so the prompts of the run
  do too, and the theorems about the memory assume it (`TokensTellRows`);
- after a batch refused half way, or a step that raised, the next `LLM.generate` runs the
  leftover requests with its own. It raises again, `KeyError` if nothing else; only a call
  that comes as far as the `KeyError` leaves the engine clean, having lost its own
  results.

## 4. What is proved

For every value of the constants, checked by TLAPS:

| theorem | says |
|---|---|
| `PoolTypeCorrect`, `FreeQueueCorrect`, `IndexCorrect`, `EvictionLazy` (BlockPoolProofs) | `PoolSpec => []PoolTypeOK`, `[]FreeIffUnreferenced`, `[]IndexMatchesLabels`, and `EvictionIsLazy` |
| `EvictionLru` (BlockPoolProofs) | `PoolSpec => EvictionIsLru` |
| `KVTypeCorrect`, `RefCountsCorrect`, `TablesCorrect`, `LabelsCorrect` (KVCacheManagerProofs) | `KVSpec => []KVTypeOK`, `[]RefCountsMatchHolders`, `[]NoRepeatedBlock`, `[]LabelIsOwnPrefix` |
| `SharingCorrect`, `PartialBlocksPrivate` (KVCacheManagerProofs) | `KVSpec => []SharingMeansSamePrefix`, `[]UnhashedBlocksArePrivate` |
| `ManagerImplementsPool` (KVCacheManagerProofs) | `KVSpec => PoolSpec` |
| `SchedulerTypeCorrect`, `QueuesCorrect`, `HoldersCorrect`, `EntriesCorrect` (SchedulerProofs) | `Spec => []TypeOK`, `[]QueuesMatchStatus`, `[]OnlyRunningHoldBlocks`, `[]ScheduledIsExecutable` |
| `LimitsCorrect`, `RunningFirst`, `EvictionPays` (SchedulerProofs) | `Spec => []StepWithinLimits`, `[]RunningServedFirst`, `[]PriorityEvictionPaysOff` |
| `NoCrash` (SchedulerProofs) | `Spec => [](PoolHoldsOne => NeverCrashes)` |
| `SchedulerImplementsManager` (SchedulerProofs) | `Spec => KVSpec` |
| `SchedulerImplementsService` (SchedulerProofs) | `Spec => ImplementsService` |
| `EngineImplementsScheduler` (EngineProofs) | `EngineSpec => Spec` |
| `EngineTypeCorrect`, `RunnerInSyncCorrect`, `NoLeak`, `WritesDisjoint` (EngineProofs) | `EngineSpec => []EngineTypeOK`, `[]RunnerInSync`, `[]NoResidentLeak`, `[]WritesAreDisjoint` |
| `ForwardReadsOwnPrefix`, `CacheIsValid` (EngineProofs) | `EngineSpec => [](TokensTellRows => ReadsOwnPrefix)`, `[](TokensTellRows => CachedContentIsValid)` |
| `AsyncTypeCorrect`, `NoOrphansCorrect` (AsyncEngineProofs) | `Spec => []TypeOK`, `[]NoOrphanedWork` |
| `StreamsExact` (AsyncEngineProofs) | `Spec => [](OwnIds /\ SameLoop => StreamIsExact)` |
| `PathsAlwaysAgree`, `GraphsAlwaysFit` (KernelProofs) | `DecodeSpec => []PathsAgree`, `[]GraphsFit` |
| `FilterKeepsNucleus`, `NeighboursCostOnlyRounding` (KernelProofs) | `SamplerSpec => []FilterIsNucleus`, `[]NeighboursTakeOnlyRounding` |
| `BatchCorrect` (FrontProofs) | `LLMSpec => []BatchReturnsItsResults` |
| `AnswerCorrect`, `DropNoticed`, `BadValueIsTheClients` (FrontProofs) | `ServerSpec => []AnswerIsExact`, `[]DropIsNoticed`, `[]NoServerError` |
| `SnapshotsExact` (FrontProofs) | `StatsSpec => SnapshotIsExact` |

The pool's invariants are checked in the run of the manager, which drives every
operation of the pool; `EvictionIsLazy` is left to the proof, and `PoolTypeOK`,
`NoRepeatedBlock` and the scheduler's `TypeOK` are steps of the proofs: these have no
run of their own. By the four implications between
specifications, what is proved of a layer holds in every layer above it: the
engine's pool, for one, has an exact free list.

*Assumptions.* Those the modules declare: at least one block; "no hash" is not a
hash; a positive block size and length bound; prompts that `add_request` accepts;
hashes are prefixes (so they do not collide); a budget of at least one block, which
`config.py:59` validates, and at least one slot; `max_tokens` at least 1; the rows of
an image are not tokens, and no image is None; finitely many request ids, without which a number of holders
(or one pass over the aborts) means nothing. Of the parts around the engine: a row of a
decode step has a block table with the pages of its tokens, and these fit the length
bound the graph's buffers are sized for (`BatchRow`; the manager's tables are like
that); sampling parameters are in the ranges `SamplingParams` validates, and the
exponential grows with the logit; the float32 mass that is compared with top_p is less than
one part (of `Whole`, any number) off the exact one, and comes out the same for a row in any
batch, while the comparison with min_p is exact; a step processes at least as many tokens as it
samples, and reports no more latencies than that (`StatsAssumption`). Nothing is
assumed of the vocabulary of the detokenizer: any token may be any piece of text.

*Hypotheses.* Three theorems say more than their specification alone grants, and the
runs show what happens without the hypothesis.

- `PoolHoldsOne`, `NumBlocks * BlockSize >= MaxModelLen - 1`: the pool holds one
  request of full length, less its last token, which is never computed. With a smaller
  pool `schedule()` may raise its RuntimeError, or restart a request forever (run
  `small_pool`).
- `TokensTellRows`, for the two memory theorems. The cache finds rows again by their
  tokens, so the tokens must tell the rows: there is one image, or all prompts are text
  (`TextTellsRows`: nothing else is then asked); every prompt ends in text, as the
  processor makes it; and no prompt is continued in another by a placeholder. The last
  part is needed because the token `<image>` can also be sampled: after the shorter
  prompt it is fed as an embedding, and the longer prompt would find that block in the
  place of its image's. With two images the statement is false (run `image_cache`). The
  instance of the run `engine`, with text and one image, meets the hypothesis.
- `OwnIds` and `SameLoop`: every call has an id of its own and all run on one event
  loop. The server draws a random id for each request and runs on one loop. Without
  them the stream is not exact (see the observations above). That no work is orphaned
  needs neither.

*The pool.* The inductive invariant `PoolInv` is the conjunction of the first three
properties. No conjunct is inductive alone: handing out the front of the queue
clears exactly the labels of the blocks taken, which is right only if the queue has
no repetitions, and reviving a parked block finds it in the queue only if every
unreferenced block is there. `EvictionLru` is an action property of the queue; each
operation is shown to do two things, to take blocks only from behind those that stay
if it evicts (`GoesFirst`) and to keep the rest in order, ahead of what it adds
(`StayInOrder`).

*The manager.* `KVInv` adds three facts to the invariants of the run.
`ChainWithinTable`: the blocks hashed, and those about to be, lie within the table
and stand for tokens that exist. `TailUnlabelled`: what lies beyond the hashed
blocks has no label. `SharedIsLabelled`: a block with two holders, or a holder and
a pending release, has one. The last is the crux. Registering a block puts a label
on a block in a table; that is harmless only if nobody else holds it, and nobody
does, because the block had no label and a second holder can only have come by a
lookup, which needs one. The two sharing theorems then follow from the invariant
alone: two holders of a block see one label, which is the prefix of both
(`LabelIsOwnPrefix`), and prefixes of different positions differ in length.
Each step is first shown to be a step of the pool (`PoolStep`), so that `PoolInv`
is carried over and not proved again; then there is one lemma per operation
(`LookupHitInv`, `AllocateSlotsInv`, ...). `HandedBack` is what a popped table and
a failed allocation have in common. `SequenceLemmas` holds the facts about
sequences (append, concatenate, take, drop, reverse, remove: what happens to the
range and to injectivity) that all of it cites.

*The scheduler.* `SchedInv` has a part for each thing one phase of `schedule()` leaves
for a later one to rely on. `RequestsInv` is true in every phase: a queued request
starts from nothing, a running one has a token to compute, a live one has room for
another. `HitsInv` and `AdmitInv` carry a lookup to the admission it was made for:
the references are those of the request at the top, which can still be admitted,
and leave it a token to compute. `EntriesInv` and `EntriesExecutable` speak of the entries,
with `Unprocessed` marking how far `update_from_output` has come. `BudgetInv` replaces
the sum of the chunks by a running total that exists, so that no recursion is
needed. `LoopInv` says where the two loops are: in phase 1 entry i is that of the i-th
running request, which holds because preemption takes from the end of the list
the loop is walking. `ServedInv` gives `RunningServedFirst`. `VictimsInv` and
`EvictionInv` follow the slot that phase 0 frees: it stays free, and the request
it was freed for stays on top and keeps its claim, until that request has
it; the one thing that may interfere is a preemption for blocks, after which nobody
is admitted. Then there is one lemma per action. That the assert and the
RuntimeError are unreachable is counted out at the end: a lone running request
that gets no block would hold the whole pool, since only running requests hold
blocks and a table has no repetitions (`InjectiveLength`).

*The service.* A step of the scheduler changes at most one request in a way the
service can see (`SubmitStep`, `AbortStep`, `SampleStep`, `CheckStep`); all others are
stutters. What is not obvious is that a token is appended only to an output that
nothing has ended. `GenerationInv` says it: unless it is just being checked, the last
token of a live request did not end it, whatever preemption happened since.

*The engine.* Every step of `EngineSpec` is one of the scheduler, so `SchedInv` comes
for free. `LayoutInv` is about where the entries write. Two requests may share a block,
so it must be shown that no entry writes a shared one: a shared block is labelled,
what is labelled is hashed, and what is hashed has been computed by its holder or is in
an entry of the step (`HashedIsComputed`), so every entry writes beyond it. An entry
keeps its shape even if its request is aborted under it (`EntriesShape`): its tokens
are there, and if it samples, they are all there are.
`RunnerInv` is about the second copy: what the runner has of a request that goes on is
its computed tokens (`SyncInv`); the notices name nobody who goes on, except one
readmitted in the same step as new, whose state is built afresh (`NoticesInv`); and
what it still has of one that is over is in a notice to come (`LeakInv`).

*The memory.* `_cache_full_blocks` labels a block when it is scheduled, before its
content is written, and another request may find it by that label in the same call. So
"a labelled block holds what its label says" is false in between. `WillHold` is the
promise that is true throughout: a slot holds v, or the entries of the step in
preparation will write v there and nothing else. `MemoryInv` says that of the
labelled blocks, of the running requests' computed tokens, and of the entries; executing
a step redeems all promises at once, because its entries write disjoint slots.

What a slot holds are rows, and what a label names are tokens. `RowsOf` gives the rows
that a sequence of tokens tells, and `WillHold` promises those. That what an entry feeds
is its request's own row, and that this is the one its tokens tell (`EagerRow`,
`OwnRowLemma`), needs `RowsInv`: a request with an image has the rows it was submitted
with, also after a preemption, because only a notice of its end drops them and no
notice names it before. A graph, which is fed tokens, loses no image row: a row of a
pure decode step feeds the last token, which is text (`LastRow`).

*The async engine.* `RequestsInv` is about the way in: a request is in the inbox once
and only after its call put it there, the engine has nothing of it until it is taken
from there, and it never comes back; while the aborts are drained the inbox is
empty, because the thread holds the lock. From
it follows that an abort is always behind its request, which is `NoOrphanedWork`.
`StreamInv` is about the way back: the route from the engine thread to each waiting call
is open (`RoutesInv`), and the outputs on it, in its three parts, are exactly those
between what the call received and what its request produced, in order, with nothing
after the final one (`WaysInv`). The property names the places on the way that hold
the call's outputs and does not filter them into a sequence.

*Recursion and induction.* The library states induction for operators, which the
provers cannot instantiate. `SequenceLemmas` begins with both principles for sets and
functions (`SetInduction`, `Recursion`), from the well-foundedness of finite subsets; what
follows uses them for running totals (`Sums`), buckets (`Doubled`), flattened
sequences, the order a sort gives, and the loop over stop strings (`Cuts`). So the
models write recursion as a function on an interval or through `FlattenSeq`.

*The kernels' addresses.* A page plan lists all rows' pages in one array, with running
totals for where each begins. `PlanLemma` says that row i's stretch of it is row i's
table, from monotone totals and the concatenation they cut; `PlannedLemma` that the
slots computed from it are the reference's, the last page included. A replay reads
buffers, of which only the first b entries and a front part of `indices` were written
for this batch; `PaddedLemma` and `ReplanLemma` show that nothing behind them is read.
`DecodeTypeOK` carries the sizes of the buffers through any history of batches, which
is also `GraphsFit`.

*The sampler.* That a tie-breaking sort exists is proved first (`OrderExists`), by
induction over sets of tokens. `TopIsKept`: the first token of the order survives each
filter, so some token is left. `NucleusLemma` compares the filters with the reference:
the tokens sorted before t include all those above it and are among those level with
it or above, so a count or a mass of the sorted prefix lies between those of `Above`
and `Level`, and min-p looks at the same maximum before and after the cuts.
What top-p drops is a set of ranks of which only the bounds are known (`DropOK`): never the
first, almost top_p before each, not much more before any that stays.
What a row owes its neighbours then needs only that a switch turned on by another row is
without effect for this one but for that set (`KeptIsOwn`: k is the vocabulary, m is 0), and
that the fast path, taken when all rows are greedy, gives what the long one would
(`GreedyOwn`, `FastLogits`). A row with a top_p of its own makes the same test alone. One
without loses tokens whose ranks are in the set; none of them stands before the least of
these ranks, and what does has almost all of the mass, so the lost ones share what is left
(`LostLemma`).

*The offline front.* `IdsInv`: ids are fresh, so no output is of two requests. `BatchInv`:
what is live or finished during a call is what it inherited and what it added, and so is
what a call that raises leaves behind. A call
that returns looked up the place of every output, so it had inherited nothing, and as
many distinct outputs as prompts, sorted by distinct places, are one per prompt in order
(`SortedBack`).

*Text.* `FedLemma` is the window of the detokenizer: decoding the last few tokens, with and
without the new one, and taking the difference gives the same text as decoding all
tokens from the start, once what is held back no longer ends in half a character. It
rests on how the decoding of a concatenation splits (`CharsConcat`, `CharsEnds`: only the
two bytes at the seam can join; `StrippedLemma`: only the very first piece loses its
space). `Fits` says where the window stands, and `ServerInv` adds that the chunks sent
concatenate to the text decoded (`ChunksLemma`) and that the stream's last chunks are
the final ones, `CutLemma` that a response is cut at the first of the stop strings.
`DropInv` counts outputs since the client left against the remainder of the tick.

*The statistics.* The engine thread's clock only goes forward, though the reader's may be
older, so all that was recorded is in the order of its times (`Ordered`). A window is always
the last part of it (`LastOf`): what it lost is too old by the later of the two clocks,
what it holds is not by the engine thread's (`Tracks` in `StatsInv`). Evicting from a last
part leaves a last part (`EvictsLast`), and the one that nothing old is left in is the
one that `Recent` takes from the whole record (`RecentLemma`): these are the entries a
snapshot adds up and ranks. `RankedLemma` shows that the sort behind the percentiles is
one.

*Only model-checked.* All liveness, which the proof system does not support:
`RequestsFinish` of the scheduler, `WaitersAnswered` and `CrashWakesRegistered` of the async engine. The
five violated runs are counterexamples and need no proof.

## 5. What is not modelled

- Numbers: tensor arithmetic, masks, model weights and their loading (`models/`). In the
  scheduler the sampled token is any token; in Sampler the logits are small
  integers. That `topk` is asked for no more logprobs than the vocabulary has is
  assumed.
- Memory sizing, warm-up and device choice of the runner; how many blocks there are is
  a constant. The instances have three blocks where `init_kv_cache` wants four: scarcity
  is the point, and nothing depends on the number.
- Vision tower, image decoding, prompt templates: only which row stands at
  which position.
- Hash collisions: `hash()` is taken to be injective on what it is given. The code
  accepts the risk of a 64-bit collision.
- HTTP parsing, the dashboard, health, model and metrics pages, the command line, the
  Prometheus text, tracing: I/O and formatting. The rates of a snapshot are left out
  (they divide by a real time span); the sums and percentiles they come from are in.
- A prompt list in a completion request: the server serves its first entry only.

## 6. Plan

1. (done) BlockPool, KVCacheManager, Scheduler, Engine, AsyncEngine and their runs;
   the proofs of BlockPool and KVCacheManager.
2. (done) GenerationService and the refinement; image rows and graph decode in Engine;
   PagedDecode, Sampler, Detokenizer, ApiServer, OfflineLLM, StatsCollector.
3. (done) Proofs: the scheduler with its two refinements, the engine and its memory, the
   streams and orphans of AsyncEngine.
4. (done) Proofs: LRU eviction; the attention paths, graphs and sampler; the offline
   front, the server's calls with their text, the statistics.
5. (done) Proofs: the memory with an image, on the invariant that a readmitted request
   still has the rows it was submitted with.
