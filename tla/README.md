# ds4rs: a TLA+ model of the expert caches, the attention memory and the C engines

ds4rs runs DeepSeek-V4-Flash, a mixture-of-experts model of 43 layers with 256
routed experts each, on one consumer GPU. What decides whether its output is
right is, apart from arithmetic, bookkeeping: *which expert weights are where*
(GPU, RAM, memory-mapped file) while several threads move them; *which rows of
the KV memory a query reads* after prefills, single-token steps, speculation,
restored payloads and conversations have all written to the same buffers; *which
buffer row a kernel reads* when one scratch serves all layers; and *which bits of
a quantised block* meet which element of the other operand in a vector kernel.
This directory models all four: the Python engine (`inference/`), the Rust engine
(`src/`), and the C engines that carry most of the repository's lines
(`third/ds4`, the parts of `third/llama.cpp` that are in the tree, `csrc/`). TLC
checks the models; TLAPS proves, for all parameters, what matters most about the
L1 cache, both modes of the expert cache, the attention memories of both engines,
the worker pool, the sessions, speculation, payloads and generations of ds4, its
expert-grouped prefill, and the hot experts and the matrix products of llama.cpp.

Paths below are relative to the repository root.

## 1. The system

### Components, their state and their operations

| component | state | operations | what is hard about it | what makes it correct | status |
|---|---|---|---|---|---|
| `GpuSLRU` (`inference/expert_cache.py` 475-619), the L1 cache of expert weights | two ordered dictionaries, `protected` and `probation`, with capacities | `get`, `put_force`, `put_force_protected`, `evict_half`, `clear` | promotions demote, demotions can overflow the other segment; a warmup inserts where nothing else does; victims are chosen around the current layer and step | no expert twice; no segment over capacity; nothing leaves without the caller knowing | modelled and proved |
| `ExpertCache`, archive mode (same file), with its two prefetch threads | the L1 cache, the `Expert` objects of the model, `_step_protected_keys`, `_prefetch_pending`, `_iq2xs_prefetch_pending`, the executor's queue | per-layer load of activated experts, asynchronous prefetch, promotion of what arrived, batch prefetch, step start and end | sets changed under different locks; results arrive in any order; protection against capacity; failing transfers | no redundant transfer, nothing in use is evicted, every announced prefetch is withdrawn, no computation with weights outside the cache | partly modelled, safety proved |
| `MixedQuantExpertPool` (`inference/rust_cpu_expert.py`) with four CPU threads and one uploader | `_gpu_cache`, `_gpu_freq`, `_prefetch_pending`, `_raw_cache`, `_cache`, two executors' queues | layer dispatch (GPU or CPU for each routed pair), lazy parsing and release of raw tensors, uploads with eviction and out-of-memory retry, admission and prediction | dictionaries shared by threads without a lock; an eviction between two look-ups; futures that raise | every routed pair contributes to the layer; capacity; the announced uploads are exactly the queued ones; a layer ends | partly modelled, safety proved |
| Python attention (`Attention`, `Compressor`, `Indexer` in `inference/model.py`) | sliding-window ring, compressed blocks, compressor state | forward at position 0 (prefill) and later (decode), warmups | buffers never reset between sequences; rotation of the ring; overlap of blocks; abandoned warmups | each query gathers exactly its window and the complete blocks of its own sequence; decoding and prefill agree | partly modelled, proved |
| Rust attention (`kv_cache.rs`, `compressor.rs`, `indexer.rs`, `layer.rs`, `generate.rs`, `bin/ds4_cli.rs`) | the same, plus `current_seqlen` and the generator's `position` | the same, plus later turns at a positive position, `/clear`, failing calls | two code paths of the compressor (kernel, CPU), the truncated cache view, a failure in the middle of a forward | as above | partly modelled, proved |
| `CpuSLRU`, FP4 mode, disk tier, cache persistence, warmup calibration (`expert_cache.py`) | RAM cache, files | `get`, `put`, save, load, warmup | a restart that loads a state for other capacities | capacity, loaded state equals saved state where it fits | planned |
| `ThreeLevelCache` and its users (`cache.rs`, `expert.rs`, `prefetch.rs`) | LFU GPU slots, hot and cold RAM by bytes, an index of files | `get`, `put`, `rebalance`, `resize`, `adapt`, `scan_index` | capacities that change while the tiers are full; sizes in bytes | size fields equal the contents, each tier within capacity, an expert in one RAM tier only | planned |
| `GpuLFU`, `CountMinSketch`, `WTinyLFU` (`expert_cache.py` 44-466) | - | - | - | - | not modelled: nothing constructs them |
| `CpuExpertRunner`, gates, transformer numerics, kernels (`cpu_expert.py`, `kernel.py`, `layer.rs`, `gate.rs`, `cpu_expert/`, `tilelang/`) | weights | matrix arithmetic | floating point | numerical agreement | not modelled: the models choose routed experts and attended blocks nondeterministically |
| expert stores (`l3_pool.py`, `iq2xs_archive.py`, `gguf*.py`, `gguf.rs`, `weight.rs`) | read-only memory maps | read | - | offsets | not modelled: one read is one step |
| generation drivers and sampling (`generate.py`, `generate.rs`) | position, history | the token loop | order of the calls | the calls themselves are actions of the modules above | as part of the modules |
| ds4 worker pool (`third/ds4/ds4.c` 600-800) | `g_pool`: generation, `n_rows`, `done`, two condition variables, one mutex | start, publish a loop, take, run a share, count, collect, shut down | lost wake-ups, spurious ones, a worker that is late for the loop before | a loop returns when all its rows have been run, each once, and nobody is inside it | modelled and proved |
| ds4 session, speculation, payloads, generation (`ds4.c`) | checkpoint of tokens, ring of raw rows, compressed blocks, compressor state, counts, logits | sync, eval, speculative eval, invalidate, rewind, save, load, progress callback, greedy generation on the CPU and on Metal | five ways out of a refused draft, a ring that wraps, chunks that cut blocks, calls that fail half way | behind a valid checkpoint the graph is the one its tokens leave; speculation emits what plain decoding would, or what a batch may take for it | partly modelled, safety and refinement proved |
| ds4 forward pass (`ds4.c`, CPU and Metal) | scratch buffers, KV buffers, hidden states that are swapped | decode, four CPU prefill programs, Metal decode, batch prefill, two-token and verifying passes, fused or not | one buffer serves every layer and lane; workers need scratch of their own; which rows a batch reads is decided by three tests | every kernel reads the rows its caller meant | data flow modelled |
| ds4 routed experts and sampler (`ds4.c`) | counting-sorted pairs; sorted candidates | prefill grouped by expert; temperature, `top_k`, `top_p`, `min_p` | offsets shared by three parallel loops; empty, tied and full candidate lists | every routed pair summed once; a drawn token is in the nucleus | partly modelled, the sums proved |
| matrix product of llama.cpp (`sgemm.cpp`) | chunk counter, two barriers | tilings of the plain, RVV, AVX, ARM and POWER classes, shared by threads | block sizes that must come out even, remainders, jobs taken without the counter | every element computed once | partly modelled, safety proved |
| hot experts of llama.cpp's DeepSeek4 (`llama-deepseek4-hot.cpp`, `deepseek4.cpp`) | profile, per-layer tensors, reserved bytes, upload queue, remap tables | load profile, place, allocate, copy, split picks | failing buffers and copies, sentinels and dummies of both halves | every pick is contributed once | partly modelled, safety proved |
| quantised dot products (`quants_x86.c`, `quants_generic.c`, `ggml-common.h`, `ggml-quants.c`, `ds4.c`) | - | 23 block types, scalar, AVX2 and NEON, one row and two | shuffles and tables in an order of their own | the vector kernel pairs each element with the same weight as the scalar one | partly modelled |
| IQ2_XS quantiser and kernels (`csrc/`) | neighbour tables; shared words and scales of a block | build tables, pack on the CPU and by sixteen GPU threads; dp4a, tile, AVX kernels, dequantiser | parity of signs, points off the grid, a barrier | a packed block decodes to what was chosen | partly modelled |
| quantisation and conversion programs, chat encoding, GGUF loader and tokenizer of ds4, tests and benchmarks | files | offline, read-only or textual | - | - | not modelled |

### How they interact

`generate` runs one inference thread. Per token and per MoE layer it asks the
expert cache to load what the gate activated, computes on the GPU what is there
and on the CPU what is not, and announces prefetches for the next layer.
Executor threads perform these transfers and leave the results in shared sets
and dictionaries; the inference thread collects them at a later layer's start.
The attention of each layer writes rows to the KV memory as it goes, and reads
them back through index lists computed from the position alone. Nothing in the
KV memory says which conversation a row belongs to: that the indices only reach
rows of the present one is a property of the whole history of calls.

The C engines repeat this in other forms. A `ds4_session` keeps its tokens
next to the graph they left, so that a sync can continue a common prefix;
speculation runs the graph ahead and puts its frontier back. Its CPU path is a
program of loops over the worker pool (`ds4_parallel_for`), its Metal path a queue
of kernels; the experts end in the dot products of quantised rows, which `csrc/`
also produces. llama.cpp's DeepSeek4 graph calls `llamafile_sgemm` and, with a
profile, the hot expert subsets.

`PROJECT.json` lists the hazards at their lines, with the property that covers
each or the reason why none does; section 5 describes what was met beyond it.

## 2. The modules

| module | models | used by |
|---|---|---|
| `RecencyOrder` | `collections.OrderedDict` as an LRU queue: a sequence of distinct keys (external code) | `SegmentedLRU` |
| `SegmentedLRU` | the methods of `GpuSLRU` as operators on a cache value `[prot, prob]` | `GpuSLRU`, `ExpertCache` |
| `BoundedCache` | abstract: what a weight cache promises, whatever its policy | refined by `GpuSLRU` |
| `GpuSLRU` | the L1 cache under any sequence of calls | `MCExpertCache`, `ExpertCache_proofs` |
| `ExpertCache` | the archive mode: inference thread, prefetch threads, L1 cache | `MCExpertCache`, `MCExpertCacheDeep`, `ExpertCache_proofs` |
| `MixedQuantExpertPool` | the mixed-quantisation mode: inference thread, CPU threads, uploader | `MCMixedQuantExpertPool`, `MixedQuantExpertPool_proofs` |
| `LatentAttention` | KV memory of the Python engine | `MCLatentAttention`, `LatentAttention_proofs` |
| `RustAttention` | KV memory of the Rust engine | `MCRustAttention`, `RustAttention_proofs` |
| `ParallelFor` | abstract: a loop over rows that begins, runs every row and returns | refined by `ThreadPool` |
| `ThreadPool` | the worker pool of `ds4.c` | `MCThreadPool`, `ThreadPool_proofs` |
| `Ds4Compressor` | one compressor lane: states, overlap, blocks | `Ds4Graph` |
| `Ds4Graph` | the KV memory of a graph: ring, lanes, capacities, frontier | `Ds4Session`, `Ds4Generate` |
| `Ds4Session` | `ds4_session` and its API | `Ds4Engine` |
| `GreedyStream` | abstract: a generation emits the greedy continuation of its prompt | refined by `Ds4Engine` |
| `Ds4Generate` | `ds4_engine_generate_argmax` on both backends | `Ds4Engine` |
| `Ds4Engine` | a client with a session or of generations | `MCDs4Engine`, `Ds4Engine_proofs` |
| `Ds4Dataflow` | values, buffer rows, instructions of a forward pass | the next four |
| `Ds4CpuLayers`, `Ds4MetalLayers`, `Ds4MetalBatch` | the programs of the CPU path, of Metal decoding and of Metal batches | `Ds4Forward` |
| `Ds4Forward` | the machine that runs a program in any interleaving | `Ds4Kernels` |
| `RoutedExperts`, `Sampler` | prefill by expert; choice of a token | `Ds4Kernels` |
| `TinyBlas`, `HotExperts` | `llamafile_sgemm`; the hot/cold split | `Ds4Kernels` |
| `QuantBlocks`, `QuantDots` | layouts as the scalar kernels read them; the vector kernels | `Ds4Kernels` |
| `Iq2xsQuantizer` | the quantiser of `csrc/` | `Ds4Kernels` |
| `Ds4Kernels` | one of these computations from one of its inputs | `MCDs4Kernels`, `Ds4Kernels_proofs` |
| `DataFacts_proofs` | lemmas: quotients and remainders, least positions, induction by least counterexample, queues without repetition | the other proof modules but `ThreadPool_proofs` |
| `ExpertCache_proofs` (with the L1 cache's), `MixedQuantExpertPool_proofs`, `LatentAttention_proofs`, `RustAttention_proofs`, `ThreadPool_proofs`, `Ds4Engine_proofs`, `Ds4Kernels_proofs` | the theorems, section 4 | |

`SegmentedLRU` holds no variables, so that the proofs about its operators and
the composition in `ExpertCache` speak of the same definitions. Definitions
named `Something_Variant` are the definition that follows them with one
plausible bug; `PROJECT.json` pairs each with the property that detects it.

### GpuSLRU

The state is `slru`, whose `prot` and `prob` are the two dictionaries, oldest key first;
`returned` is what the last insertion handed to its caller and `call` its kind.
Each public method is an action, enabled for every key, every current layer and
every step set a caller could pass. GPU tensors are carried by their key. Both
capacities are positive, as the lower bound of eight slots in
`adjust_window_for_vram` guarantees.

### ExpertCache

The inference thread is a program counter: `StepStart` (`on_step_start`),
`LoadActivated` (`_load_activated_experts` with `on_layer_start`'s promotion, the
look-ups and the prefetch of the next layer), `Forward` or `ForwardMiss`
(`MoE.forward`), `BatchCheckPending` and `BatchSubmit` (the two lock sections of
`prefetch_experts_batch`), `NextLayer`, `StepEnd`. A prefetch thread is `Take`,
`Publish` or `Abort`, and `Discard` (its `finally`). One action is what one lock
section does, or a stretch of the inference thread that meets no shared state.
`check_memory_pressure` (`generate.py:724`) is not a step of the model: what it empties when memory
runs short are the shard metadata and CUDA's pool of free blocks (`expert_cache.py:1817`), none of which is
state of the cache. The gate's choice, the access frequencies that decide whether a prefetch is
worth it, and free VRAM are nondeterministic. `loaded` is the set of experts
whose `Expert` object holds GPU weights, which the code keeps independently of
the cache.

### MixedQuantExpertPool

`Load` begins `_load_activated_experts`. Its loops run key by key, so that the
uploader works between their look-ups: `Admit` is `record_gpu_access` for one expert and
`UploadAdmitted` the `_async_upload` that may follow; `Predict` fixes the budget and the candidates of
`predictive_prefetch` for up to `PrefetchLayers` layers, `Foresee` and `UploadPredicted` look one of
them up and announce it, and `Loaded` returns. `asks` are the keys still to come. `Dispatch` and
`Compute` are the two look-ups that `MoE.forward` and `compute_ffn_gpu` make for a pair, `LayerDone` is the last
`future.result()`, when all that was submitted has returned or raised (`AllResolved`). A CPU thread walks through `_load_raw` and
`get_rust_weights` with one step per access to `_raw_cache` (`LoadCheck`,
`LoadRead`, `LoadParse`, `Build`, `FreeCheck`, `Delete`, then `Finish` or
`Raise`), since no lock protects it. The uploader evicts when it takes a key and inserts after the
transfer; `OutOfMemory` drops half of the cache and retries once. `Init` is any
cache the warmup can have left, any raw tensors that include the cache's (those of an expert it
evicted again stay behind) and any of the given frequency files. Frequency counts saturate at two, the admission
threshold; the ranks that choose victims and predictions are nondeterministic.

### LatentAttention and RustAttention

A KV row is represented by *what it was computed from*: the conversation and
position. A compressed block is the set of rows pooled into it, each tagged as
the block's own or its overlap half, and the position its RoPE encodes. An action
is one layer's attention within a forward; `seen` records what one of its
queries gathered. The queries of one call do not affect one another, so
recording one, nondeterministically chosen, loses nothing. The Indexer's
ranking is an arbitrary choice of `index_topk` visible blocks; the compressor and
the KV memory it keeps to compute the ranking are not modelled.

`LatentAttention` adds the warmups of `main`, which may be abandoned in any
layer (`except: pass`), and conversations that each begin at position 0.
`RustAttention` adds `/clear` (which only sets the position to 0), a second
prompt forwarded at a positive position, `copy_into_at`'s refusal in the middle of
a forward, the columns past the filled part that `get_full_cache` does not
return (`Outside`), and layers whose prefill is grouped by a kernel
(`GroupKernels`) and so saves no compressor state.

### ThreadPool

`main` is where the caller is in `ds4_parallel_for`, `worker[w]` where a worker is
in `ds4_worker_main`; the shared variables are the fields of `g_pool`. One action
is what happens under the mutex between two waits, or a share of the rows.
`covered` counts how often each row of the present loop has been run.
`WorkerSpurious` and `MainSpurious` are the wake-ups POSIX permits; nothing relies
on them. The generation counts modulo `Generations` (2^32 in the code).

### Ds4Graph, Ds4Session, Ds4Generate, Ds4Engine

As in `LatentAttention`, a row is what it was computed from, here the whole prefix
of tokens, so that a row of another future of the same conversation is told
apart. `Misread` compares what a query of a batch or of a decoded token reads from
the ring (`RawSpan`) and the lanes with its window and blocks. In `Ds4Session` a
call is one step where nothing can come between, and several where commands may
fail one by one or a progress callback lets the client in. The logits are the
tokens they were computed from and `Greedy` their argmax, by which is meant the
argmax of a one-token decode over the rows the session holds. A batch may rank another token first
(`RowTops`): "it may pick a different greedy token when batched reductions perturb
nearly-tied logits" (`ds4.c:17022-17028`, and 13500-13502). `NearTies(t)` is the set of tokens it may
so pick after t, and `BatchAgreed` the number of drafts a batch may then find agreed. `Strict` and
`MaxDrafts` say for each call whether the exact verifier was asked for (`--quality`,
`DS4_MTP_STRICT` without `DS4_MTP_BATCH_VERIFY`) and how many drafts it may make: the environment and the caller
choose them, the model does not. That the rows themselves carry the rounding of the kernel that wrote them
is left out. The drafter proposes arbitrary
tokens, so that every number of accepted drafts occurs. `sound` tells
whether the graph still is the checkpoint's: the ways in which the code loses that
(a rewind past a block, a torn payload, a frontier that could not be put back) are
actions like any other, and clear it. `Ds4Generate` follows both
`generate_raw_swa_cpu`, whose raw rows slide, and `generate_metal_graph_raw_swa`,
whose rows are in a ring. `RawCap` is computed as in the code, with its padding (`RawAlign`), its ceiling
(`RawMax`, 8192) and its floor. `PrefillCap` is one constant, where a generation on Metal derives the
chunk from its prompt (`ds4.c:15117`), at most that long.

### Ds4Forward and the programs

A value is `<<stage, sublayer, token>>`; a cell is a row of a named buffer, of a
layer, token or worker where the code has one. A kernel is an instruction with the
cells it reads and writes: it yields its stage's value if every operand is the
value the stage is computed from, and `Junk` otherwise, which spreads. A program is
a sequence of regions, each with a list of instructions for every thread; the
threads of a region run in any interleaving and the next region starts when all
are through, as `ds4_parallel_for` guarantees (`ThreadPool`) and as Metal's queue
orders its kernels. Of the CPU prefill, the variant that turns each row inside the token loop is left out
(prompts of more than 4096 tokens or `DS4_NO_BATCHED_ROPE`, `ds4.c:7349`), and so is
`kv_cache_finish_prefill_states` (8081), whose result is `StateAfter` in `Ds4Compressor`. `LayersExact` says that the logits at the end are those of the last token, so
that a row read after its buffer was reused, in another lane, layer or worker,
shows.

### RoutedExperts, Sampler, TinyBlas, HotExperts

Each is a small machine over its own variables. `RoutedExperts` sorts the pairs of a
batch by counting and runs its parallel loops one element at a time; an output row
records the pairs summed into it. `Sampler` works on integer weights and a draw out of
`Draws`. In `TinyBlas` an element of C counts the panels of k summed into
it, and threads share the chunk counter and barriers; `Uncovered` names the inputs for
which the code itself leaves elements out (section 5), and `least` is the number of columns below which a
float class is handed back to the caller: 2, but 4 on ARM and VXE and 8 with ARM's half floats
(`sgemm.cpp:3725, 3733, 3855, 3873`). The offsets and the order of the grouping in
`RoutedExperts` are stated by what the prefix sum and the cursors of `ds4.c:5659-5669`
add up to, and the check of an expert out of range (5654) never fails, since the selections are of
experts. `HotExperts` loads a
profile, places layers on devices in turn, copies subsets where buffers and sources permit, and
lets every pick go down both paths of the graph, of which nothing can be read before its buffer has
been uploaded. The graph asks `ready_for_dispatch` itself (`deepseek4.cpp:551`), so that the
revalidation after the uploads only frees what could not be used. A layer whose source tensor cannot be read
(`ok_all`, 472-488) and `DS4_HOT_DEVICE` (189) are left out.

### QuantBlocks, QuantDots, Iq2xsQuantizer

`QuantBlocks` says, for each of the types, which bits of which field, which scale
and which offset the scalar kernel takes for element i: this is the reference.
`QuantDots` is the same for the vector kernels, written in the order of their
registers and lanes, with what each lane multiplies: one step is one iteration
over the blocks of a row, odd last blocks included. `DotsExact` compares the two.
`Iq2xsQuantizer` builds the index and neighbour tables and packs one block,
sub-blocks in turn on the CPU or a thread for each on the GPU with the barrier
before thread 0 writes what is shared; floating-point choices are arbitrary.

## 3. The runs

| run | instance | properties | shows |
|---|---|---|---|
| `expert_cache` | 2 layers x 3 experts, 3 + 1 slots, up to 2 activated experts, batch prefetch on, 2 threads, 2 steps; or the methods of the L1 cache in any order | `TypeOK`, `ComputedFromCache`, `SlruTypeOK`, `SegmentsDisjoint`, `WithinCapacity`, `ImplementsBoundedCache` | a forward pass on the GPU only uses experts the cache holds; whether driven by the generation or by any sequence of calls, the L1 cache stays consistent and implements the abstract cache |
| `expert_cache_batch` | the same | `BatchSubmitsOnce`, violated | between the two lock sections of `prefetch_experts_batch` a worker publishes an expert, and the batch submits it again although it has arrived |
| `expert_cache_decode` | 3 x 3, 5 + 1 slots, 1 activated expert, no batch prefetch (`DecodeNext`), 2 threads, 2 steps | `NoRedundantTransfer`, `StepProtected`, `PromotedOnAccess`, `PrefetchCompletes` | without the batch prefetch no transfer is redundant; the step's experts are not evicted; only accesses promote; prefetches complete |
| `mixed_pool` | 2 x 2, capacity 1, 1 token, prediction for 2 layers, 3 frequency files, 2 CPU threads and the uploader | `TypeOK`, `OutputComplete`, `WithinCapacity`, `AnnouncedExactly` | in decoding no contribution is lost, uploads respect the budget and their bookkeeping is exact |
| `mixed_pool_ends` | 1 x 2, 2 tokens, 1 frequency file | `LayerEnds` | a layer ends even when threads collide |
| `mixed_pool_prefill` | 2 x 2, 2 tokens | `OutputComplete`, violated | two tokens that share an uncached expert make two threads collide in `_raw_cache`, and one contribution is dropped |
| `latent_attention` | ratios 0, 3 (overlapping, indexed), 2; window 4; 12 positions; 3 sequences | `TypeOK`, `ContextExact`, `DecodeMatchesPrefill` | the Python engine's queries gather exactly their context, whatever earlier sequences left behind |
| `rust_attention` | ratios 0, 2 (overlapping), 2 (overlapping, kernel), 3; window 4; 8 positions; 2 conversations of up to 2 turns | `TypeOK`, `DecodeWindowExact`, `PrefillExact`, `DecodeBlocksExact` | the Rust engine's queries gather exactly their context in the first turn of a conversation, within the domains stated below |
| `rust_attention_turns` | the same | `TurnsContinue`, violated | a later turn does not gather the window that precedes its queries |

| `ds4_threads` | 4 threads, loops of up to 5 rows, 2 the least shared, generation modulo 3 | `TypeOK`, `NoStragglers`, `ImplementsParallelFor`, `CallReturns` | no worker is inside a loop that has returned, each row is run once, each call returns; no deadlock |
| `ds4_engine` | 2 layers (ratio 3 overlapping, ratio 6), window 2, chunks of 6, ring of 8, context 11; 2 conversations that part at the sixth token; up to 3 drafts; up to two troubles in a behaviour; strict and other calls, near ties | `TypeOK`, `SessionExact`, `AttentionExact`, `SpeculationExact`, `PayloadExact`, `ImplementsGreedyStream`, `CallEnds` | a session's graph is its checkpoint's, queries read exactly their context, speculation accepts the greedy tokens or, unless it is strict, near ties of a batch, payloads are consistent, generations are greedy, calls return |
| `kernels` | forward passes over 3 layers (ratios 0, 2, 3) and 8 tokens, 4 CPU prefill programs with 2 workers and 6 Metal schedules, fused or not; vocabulary of 3; 798 matrix products; 5 hot profiles; rows of 2 and 3 blocks; quantiser with 2 sub-blocks and a grid of 4 points | `LayersExact`, `RoutedOnce`, `SampledFromNucleus`, `TilesOnce`, `HotColdOnce`, `DotsExact`, `PackedExact` | each computation of the C engines gives what it is meant to from every input and interleaving; none gets stuck |

The violated properties each state what a comment of the code promises; the
findings in `PROJECT.json` quote it.

### Bounds, and why they are enough

* *Caches.* Fewer slots than experts, with both segments at least one slot, so
  that hits in both segments, promotion with and without demotion, insertion
  with and without eviction, and every entry spared all occur.
  `expert_cache_decode` uses the smallest cache for which the code turns the step
  protection on. Two threads suffice for a collision; a third would repeat one.
  Two steps let a prefetch of one step be promoted in the next.
* *Pool.* Two layers, so that prediction and the last layer are both met; two
  experts, more than the capacity; one forward pass, starting from every cache
  the warmup can leave. CPU threads are symmetric; symmetry is used for the
  safety run only.
* *Attention.* Positions range over two windows (Rust) or three (Python) and several blocks,
  prompts over every length from the shortest: below, at and above the window
  and the ratio, with every remainder. The ratios are scaled down, keeping one
  that divides the window and one that does not. Two or three conversations let
  every buffer hold rows of an earlier one. `MaxSeqLen` bounds a conversation;
  positions past the real `max_seqlen` are out of the models.
* *Worker pool.* With three workers, one can be late while two others have
  begun the next loop. Loops of 0 to 5 rows over 4 threads include the serial
  ones, threads without rows and a cut last share. The proof covers the rest.
* *ds4 engine.* The ring of 8 wraps in a context of 11 and is larger than a
  window with a chunk, as the code computes it; the chunk of 6 cuts blocks of 3
  evenly and unevenly; the conversations part in the middle of a block. Prompts of
  one chunk and of one and a half are synced; evaluation and speculation reach every length
  beyond. A session that has lost `sound` is only rebuilt, loaded into or
  invalidated, since what else it computes is wrong by construction. Two troubles (a
  failing command, a torn load, a rewind) may happen in a behaviour, which the
  sequential fallback after a failed replay needs to fail in turn; none
  happens while a payload exists except in loading it, and a payload whose load
  has failed is dropped.
* *Forward pass.* Three layers, without lane, with an overlapping and with a plain lane, so
  that each buffer is reused by a different kind of layer; a ring of 6 under 8
  tokens wraps; batches of 2 to 4 meet each test on position, length and
  capacity.
* *Products.* Row counts, widths and thread counts around every block boundary of
  each class, with more threads than jobs. The float class of POWER tiles by 256,
  more than any matrix of the run, so that only its remainders are exercised; the
  tiled quantised class is.
* *Quantised rows.* Two and three blocks, for an even and an odd last block; the
  layouts themselves are of full size.
* *Quantiser.* Sub-blocks have one group of two elements in place of two of eight:
  a sub-block with one group on and one off the grid is therefore not exercised.
  Two sub-blocks share one byte of scales, as in the code.

Deadlock is not checked where the system really stops: generation ends after
its last step (`MaxSteps`, `MaxForwards`) or at `MaxSeqLen`. `ds4_threads`, `ds4_engine`, and `kernels`, where only a
finished computation may stand still (`Finished`), check it.

### Fairness

Executor threads are scheduled by the operating system: weak fairness on each
thread's steps (`ExpertCache`, `MixedQuantExpertPool`). In
`MixedQuantExpertPool` the inference thread does not stop in the middle of a layer, so
the steps inside a layer are weakly fair; loading another layer, and in
`ExpertCache` every step of the inference thread, is not. A failing transfer
ends in the `finally` clause, which fairness on the thread includes. No strong
fairness is assumed, and none of the data structures' and attention's
specifications assume any.

`ThreadPool` assumes weak fairness of the caller and of each worker, for the same
reason; nobody is obliged to begin a loop, and the spurious wake-ups are not fair, so
that `CallReturns` does not rest on them. In `Ds4Engine` a call that has begun
runs, which is weakly fair (`CallRuns`); that a client calls is not. The `kernels`
run needs no fairness: that a computation ends is the absence of a deadlock, the
machines having no cycles.

## 4. What is proved

### GpuSLRU

`ExpertCache_proofs` proves, for any sets of layers and experts, any positive
capacities and any step sets:

* `SlruTypeCorrect`: `SlruSpec => []SlruTypeOK`
* `NoDoubleResidence`: `SlruSpec => []SegmentsDisjoint`
* `CapacityRespected`: `SlruSpec => []WithinCapacity`
* `Implementation`: `SlruSpec => ImplementsBoundedCache`, by the mapping
  `resident <- Resident(slru)`, `released <- returned`.

The assumptions are `CapacityAssumption` (both capacities positive naturals) and
nothing about the keys. None of the three invariants is inductive alone: a promotion into a full
`protected` segment pushes the demoted key to `probation`, which stays within
capacity only because the promoted key has just left it, and keeps its keys
distinct only because the segments were disjoint. The inductive invariant `SlruInv`
therefore conjoins types, distinctness, disjointness and both capacities
(`Sound(slru)`). One lemma per method (`GetSound`, `PutForceSound`,
`PutForceProtectedSound`, `EvictHalfSound`) shows that it keeps `Sound` and says
what becomes of the resident set; `StepSound` puts them together with one step
per action, which gives the invariants and the refinement at once. That a
promotion never drops an entry silently, the fact the refinement turns on, is
`ProbationHitSound`. `ResidentBound` turns two lengths into a cardinality.
The lemmas about the methods come first in `ExpertCache_proofs`, since `ExpertCache`
is built from the same operators; before them stand those about ordered dictionaries:
what `RemoveAt`, `Append`, `Pop`, `MoveToEnd` and taking a suffix do to the set of
keys and to distinctness.

### ExpertCache

`ExpertCache_proofs` proves, for any number of layers and prefetch threads, any finite set of
experts, any segments, any warmup and any routing:

* `TypeCorrect`: `Spec => []TypeOK`
* `ComputesFromCache`: `Spec => []ComputedFromCache`

and without the batch prefetch (`~ RustRunner`):

* `NoTransferIsRedundant`: `Spec => []NoRedundantTransfer`
* `OnlyAccessPromotes`: `Spec => PromotedOnAccess`
* `StepKeysProtected`: `Spec => StepProtected`, if a layer activates at most
  `TopK` experts and `probation` is smaller than `protected`.

Each hypothesis is a condition under which the code keeps its promise and not a
convenience. With the batch prefetch, the two lock sections of
`prefetch_experts_batch` do let an expert be transferred twice (the run
`expert_cache_batch`), and the second result is then promoted as if accessed. `TopK` experts per layer
is decoding; a prefill may activate all of them, and TLC finds the protection
violated on the instance of `expert_cache_decode` with three activated experts per layer
(six step keys, five protected slots), while it holds with one and with two. `protected` is 90 % of
at least eight slots.

Three inductive invariants, each resting on the one before:

* `Inv`: the types, `Sound(cache)` of section GpuSLRU, a batch that is not empty
  between the two look-ups, and `ComputedFromCache`. An `Expert` object can outlive
  its slot, but not into a forward: classification gives weights to the hits,
  which the look-ups leave resident, and takes them from the misses (`SetExperts`), and until the
  forward only the inference thread could change the cache.
* `Separate`: what the three places an expert can be in say of each other. The
  announced keys are exactly those queued or held by a thread (`inflight`), no key is queued or held twice, and
  a key queued or being copied is neither resident nor in `pending`, whose keys are not
  resident either. A promotion moves a key from the third place to the
  cache and drops what it evicts; a prefetch is only submitted for keys in none. That the
  promotion changes no protected entry follows from `pending` being disjoint from the
  cache, which makes every one of its insertions a miss, bound for `probation`.
* `Kept`: the step's keys are the most recent of `protected` (`Recent`), and there
  are no more of them than the layers so far could activate. Then an insertion,
  which takes its victim from `probation`, touches none; a demotion takes the
  oldest of a full `protected`, which is not a step key while there are fewer of them than
  slots; and `Protecting`, with the smaller `probation`, gives that number of slots.

The loops over arrived and accessed experts are folds. A fold is unrolled into the
chain of its intermediate results (`LoopFoldExists`), which exists by least
counterexample (`StepByStep`), so that no induction theorem is needed; `ArrivedSteps`
and `AccessedSteps` then speak of one insertion and one access at a time.

### MixedQuantExpertPool

`MixedQuantExpertPool_proofs` proves, for any number of layers, experts, tokens
and CPU threads and any capacity:

* `TypeCorrect`: `Spec => []TypeOK`
* `CapacityRespected`: `Spec => []WithinCapacity`
* `AnnouncementsExact`: `Spec => []AnnouncedExactly`
* `NothingLost`: `Spec => []Accounted`: every routed pair is still to be dispatched, queued, in
  the hands of exactly one thread, or resolved
* `DecodeComplete`: `Spec => []OutputComplete` with one token in a forward.

The inductive invariant `IInv` conjoins the types, `Announcement`
(`_prefetch_pending` is the queue and what the uploader holds, without
repetition), `Room` (between taking a key and inserting it the uploader keeps a free
slot, which only it can fill: it is what a second uploader thread would break) and
`Accounted`. `NothingLost` is the safety half of `LayerEnds`: a layer that waits,
waits for something under way. `DecodeComplete` needs `Shielded` besides: a CPU
thread that has seen a raw tensor still finds it, because the others work on
other experts and the uploader deletes none. With two tokens that is
false, as `mixed_pool_prefill` shows.

### LatentAttention

`LatentAttention_proofs` proves, for any window of at least two, any ratios and numbers
of layers, positions and sequences:

* `TypeCorrect`: `Spec => []TypeOK`
* `ContextIsExact`: `Spec => []ContextExact`
* `DecodingIsPrefilling`: `Spec => []DecodeMatchesPrefill`

`IInv` adds `Progress`: how far the present call has come through the layers, and
for each layer whether it already holds the call's positions. What a layer
holds is `Memory(l, ..., q, n)`: slot `p % Win` has row `p` of sequence q for each of the last
`Win` positions below n (`RingIs`), block g is the one a prefill would pool
(`BlocksAre`), and the compressor state has the rows of the unfinished block and, with overlap,
of the one before (`PendingIs`). Nothing is said of anything else in the buffers, which is
how the leftovers of other sequences drop out. A prefill establishes `Memory` from arbitrary
contents, a decoded token takes it from n to n + 1, whether or not that
completes a block, and `Memory` determines what a query gathers. The constants
are those of `ConstantsAssumption`: prompts have at least `OverlapRatio` tokens
(section 5), and `Win > 1`, since with a window of one the code's
test for decoding would take a prefill of one position for it.

### RustAttention

`RustAttention_proofs` proves, likewise:

* `TypeCorrect`: `Spec => []TypeOK`
* `DecodeWindowIsExact`: `Spec => []DecodeWindowExact`
* `PrefillIsExact`: `Spec => []PrefillExact`
* `DecodeBlocksAreExact`: `Spec => []DecodeBlocksExact`

The domains are in the properties (section 5) and nothing is assumed beyond
`ConstantsAssumption`, again with `Win > 1`. `IInv` has the same `Memory`, but
only for the first turn of a conversation (`FirstTurn`), with blocks and compressor
state only where they are `Known`: layers that group on the CPU and whose prompt
filled a block. A call only fails in a later turn, since a single row always fits; it leaves some layers
ahead of others, but `FirstTurn` has nothing to say until the next
conversation begins, which starts from arbitrary contents.

### ThreadPool

`ThreadPool_proofs` proves, for any number of threads, any threshold of serial
loops, any bound on rows and a generation counter of at least two values:

* `TypeCorrect`: `Spec => []TypeOK`
* `NobodyStraggles`: `Spec => []NoStragglers`
* `PoolImplementsParallelFor`: `Spec => ImplementsParallelFor`: every row of a loop is run
  exactly once between the call and its return.

The argument of the code is that `done` tells when everybody is through, and it
is implicit: `done` counts finishes, whoever they are of. The inductive
invariant makes it explicit. `InCall` says that during a call `done` is the
number of workers (`Counted`) that have taken this generation and are no longer at
work, and that those at work hold this call's row count; `Quiet` that outside a call nobody is at work and everybody has
taken the last generation, which is why a counter of two values suffices;
`Coverage` that a row has been run once if the thread whose share it is in has
run, and not at all otherwise; `Lifecycle` ties worker states to the start and
shutdown of the pool. That the shares cover the rows (`ShareCovers`) and are disjoint
(`SharesDisjoint`) for every number of rows and threads is arithmetic with a
rounded-up division. One lemma per action shows that it keeps `IInv`; `AllCounted`, that
`done` has reached the number of workers only if all are counted, is what the
return of a call rests on.

### Ds4Engine

`Ds4Engine_proofs` proves, for any number of layers and any ratios, any window,
chunk, ring and context, any model (`Greedy`), drafter, prompts, budgets and conversations, and
any number of drafts and of failures:

* `TypeCorrect`: `Spec => []TypeOK`
* `SessionIsExact`: `Spec => []SessionExact`
* `AttentionIsExact`: `Spec => []AttentionExact`
* `SpeculationIsExact`: `Spec => []SpeculationExact`
* `PayloadIsExact`: `Spec => []PayloadExact`
* `GenerationIsGreedy`: `Spec => ImplementsGreedyStream`, by the mapping `prompt <-
  job.prompt`, `budget <- job.budget`, `emitted <- job.emitted`, `outcome <- Outcome`.

None of the properties is inductive. `SessionExact` speaks of idle sessions
only, and a session becomes idle at the end of calls whose intermediate graphs hold
something else: half of a prompt, drafts that will be refused, rows behind a
frontier that has been put back. The argument is about what a graph *holds*:

* `Held(g, t, n)`: g holds the first n tokens of t. `RingHas` says it of the ring
  rows that a query at n or later can reach, `Matches` of each lane: the count, every
  complete block, and those slots of the compressor that will still be pooled (`Slot`).
* `After(h, t, p, n)`: what a batch or a decode of the tokens p .. p + n - 1 leaves if it
  started from `Held(g, t, p)`: a graph that holds p + n tokens, that has kept the rows a
  query at p can reach, and whose queries read exactly their windows and blocks
  (`Misread = {}`). `BatchExact` and `DecodeExact` prove it; that a chunk overwrites no row it
  still reads is `PrefillCap + Win <= RawCap` or no wrap at all, which is how `RawCap` is computed.
* `Drafted(from, d, n, f)`: n drafts are in the graph, *and* the rows that a query at
  `Len(from)` reaches are still there, *and* the frontier f taken before is that of `from`. Putting f
  back makes the graph hold `from` again, although blocks and rows of the refused drafts remain in
  it: nothing reads them before they are written again. This is what a refused
  draft rests on, and what it needs of the ring is stated as an assumption below.

`InCall` says for each call in progress which of these holds, with one disjunct for
each place a call can stand in (`InPrefill`, `InExtend`, `InDrafted`, `InExact`,
`InCompared`, `InVerified`, `InReplay`, `InSequential`). `SessionInv` adds the types, that a payload is
`Consistent`, and `AttentionExact`. One lemma per action shows that it is kept, failures and
client calls from a progress callback included. `Chosen` carries through a call that the accepted
tokens are a suffix of the checkpoint and the first draft the greedy one, `Allowed` that each later one is
`Emitted`: greedy under the exact verifier, otherwise greedy or nearly tied with it. `Greedy`, `NearTies`, `Strict` and `MaxDrafts` are
arbitrary operators of their arguments. What `SpeculationIsExact` says of a call whose verifier was a batch is
therefore what the comments at 17022-17028 and 13500-13502 say, and not that its output is that of plain decoding: it says so
of the first draft, and of the second under the exact verifier. Of later drafts nothing is said
when the graph is not `sound`: after a restore that failed and was not looked at (17348), the fallback decodes
on the torn graph (`SequentialTops`).

`GenInv` is the same for a generation. The Metal memory is a graph; on the CPU the rows of a
layer are a queue that slides (`KeptRows`), of which `CpuHolds` says that it has exactly the last
`RawKept` rows. Every step of a generation is then a step of `GreedyStream` or a stutter, and a
step of a session always a stutter.

The assumptions on the constants are named where the constants are declared:

* `GraphAssumption`: positive sizes, ratios that are 0 or at least 3, some compressed layer, a chunk
  that fits the ring, and a window and a chunk that need no more than its ceiling (2304 of 8192 rows, unless
  `DS4_METAL_PREFILL_CHUNK` asks for longer chunks);
* `SessionAssumption`: conversations are sequences of tokens, limits are naturals, and
  `Win + 2 <= RawCap` or the ring holds the whole context. The path that decodes two
  drafts one after the other overwrites two rows before a refusal puts the frontier back. The ring is a multiple of 256 rows and the window is of 128;
* `GenerateAssumption`: prompts are sequences of tokens, budgets naturals.

The proof turned up one place where the model was too generous: a verifying
batch is refused beyond `prefill_cap` (`ds4.c:13425`), which `VerifyBatch` did not say. With
more drafts than that a batch could have overwritten rows its own queries read.

### Ds4Kernels

`Ds4Kernels_proofs` proves three of the properties of this module for every size and input.

`PicksAddedOnce` (`HotColdOnce`): for any number of layers, experts, devices and picks, any hot lists
of integers and any buffers refused. `HotInv` says that a placed layer is either dropped or still
has the ids it was loaded with and the cold experts that go with them, which is all that
the graph of `build_expert_mix` rests on, once `ReadyForDispatch` has found both buffers: `RemapHotIs` (a row found for an expert holds it, even
when the profile repeats it), `PickIs` (a pick takes the row of its own expert, or the
sentinel behind the subset shifted by its position) and `RowsDiffer`.

`PairsSummedOnce` (`RoutedOnce`): for any number of tokens, experts and rows, any selection and any
order of the tasks. The grouping is where the work lies: `RanksNumber` (distinct keys number a
finite set from 1 in order) gives that `pair_ids` is a permutation sorted by expert
(`PlacesAre`, `GroupedAre`) and that `active_expert` is the ascending list of those some pair picked
(`ActiveNumbered`); an offset ends the pairs of the experts before it (`OffsetIs`), so that an expert's
slice holds exactly its own pairs (`SliceIs`) and the slices of the active experts follow one another
without a gap (`ActiveFollow`, `VisitedIs`). `RoutedInv` then says for each loop what the tasks done have
left (`TaskIs`: a task of the first loop is one expert and one row) and what the loop before left for it.

The recursive functions of these two models (`HotIds`, `TermsOf`, `FlattenSeq`) are chains of
values, each the next of the one before; `ChainExists` shows that the chain of a loop exists.

`EveryTileOnce` (`TilesOnce`): for any sizes, number of threads, panels and calls, every class of
`llamafile_sgemm`, and any order of the threads' steps. `BlasInv` has a case for each way a
product is computed.

* The float classes (`InChunks`). That every column lies in exactly one tile of one
  job is arithmetic: a size splits into blocks of two widths that come out even (`EvenSplit`,
  `TileBlocks`), the loops over the tiles of a job end where the next job begins (`LoopsMeet`, which
  is the assertion `jj == jj2` of the code), hence `JobsOnce`. That every job is done once
  is the protocol: `Barriers` (no thread is more than one barrier behind, `BarriersHold`), `Jobs` (the
  jobs that threads hold are different and below the counter, although each takes its
  first job without it) and `JobsCounted` (an element of a call has been computed exactly if its job is no
  longer `Pending`). `ChunkStep` keeps them, the reset of the counter for the next call included.
* The classes with `mnpack` (`InPacks`). Every shape fits what it cuts (`ShapeIs`, five
  functions), a cut and its two remainders share no element and leave none out (`CutIs`,
  `RemaindersAre`), and each tile of a cut falls to exactly one thread (`SliceOwner`). The stacks of
  different threads are out of step, so the invariant speaks of the *savers* of an element: the threads
  to whose slice it falls along the one path of cuts that leads to it from the whole
  matrix (`Savers`, with `Leads` for the path). `Cuts` says that what is on a thread's stack
  is disjoint and leads to the same savers as the whole, `Found` that an element some
  thread has passed has exactly one saver. On the tiled paths a tile has one
  owner (`OwnerIs`), who has done as many of its panels as `PanelsDone` says.

The requests are those of `ProductsAssumption`: sizes are naturals, there is a thread and a
panel (the assertions at the head of `llamafile_sgemm`), and only the float classes are followed from
one call to the next, since only they meet at barriers. The shapes of `Uncovered` (section 5) are
set aside, and the proof shows where each would fail: `HpTiles` for a remainder that has no shape,
`TileWidths` for a tile that is narrower than its accumulators.

### Only model-checked

* The liveness properties (`PrefetchCompletes`, `LayerEnds`, `CallReturns`,
  `CallEnds`): reasoning with fairness and `ENABLED` is out of the prover's reach.
* Four of the seven properties of `Ds4Kernels`. `LayersExact` and `DotsExact` are about
  programs and layouts written out in full, for which the run is exhaustive but for the
  number of layers, tokens and blocks. `SampledFromNucleus` adds up the weights of a set and
  `PackedExact` writes levels in base four: sums and powers are inductions over data.

## 5. What the results mean

*L1 cache.* It keeps everything it promises, for all parameters.

*Archive mode.* The step protection works as documented in decoding. In a
prefill, a layer may activate more experts than the cache has slots, and
protected entries are evicted as a last resort, as the code's comment says;
`StepProtected` is therefore checked and proved for decode steps. Three statements of the
comments do not hold there, and the model takes the code's side:

* a GPU miss does not go to the CPU, as `generate.py:450` says: the pool that would take it
  is only opened in the other mode, `_mixed_pool` is None (`model.py:1330`) and
  generation ends (`ForwardMiss`, after which the thread is `dead`);
* `prefetch_experts_batch` does transfer experts twice, against
  `expert_cache.py:2609`: it looks at `_prefetch_pending` and `_iq2xs_prefetch_pending` in
  two lock sections (2622-2625), between which a worker may move a key
  (`BatchCheckPending`, `BatchSubmit`). The run `expert_cache_batch` violates `BatchSubmitsOnce`, which states that
  docstring; `NoRedundantTransfer` is about the transfers of `_prefetch_layer_diffset`, which looks at both
  sets in one lock section, and is checked without the batch;
* an evicted expert of the current layer keeps its GPU weights
  (`expert_cache.py:1293`), while the comment at 1283 wants them released, so that VRAM holds more than the capacity.

`clear_gpu_cache` (1158) forgets the announced prefetches without the lock, but its only
caller runs before any is submitted; `get_stats` (1233) may take the length of
None.

*Mixed mode.* Decoding loses nothing. `_raw_cache` has no lock, and prefills with two tokens
on one uncached expert can lose a contribution; the future's exception is printed and
swallowed. Raw tensors parsed for an upload are kept for good when the Rust weights exist
already (`rust_cpu_expert.py:484`), and the budget of a prediction does not subtract the
uploads already announced (920).

*Python attention.* `ContextExact` and `DecodeMatchesPrefill` hold although no
buffer is ever reset, provided a chat prompt has at least as many tokens as the
overlapping ratio (4). It does, since BOS, the role tokens, the message and the thinking
token make at least that many. With shorter prompts `ContextExact` fails: the overlap half of the
compressor state would be an earlier conversation's. The assumption is stated in the
module as `ConstantsAssumption`.

*Rust attention.* The properties hold on these domains and, in the model, not
outside them:

* `DecodeWindowExact`: all first-turn decoding, without restriction.
* `PrefillExact`: prompts that fit the window, or layers that return blocks. A
  layer of ratio 0 with a prompt longer than the window gathers from the rotated
  cache with the prompt's indices.
* `DecodeBlocksExact`: decoding after the window has filled, on layers that group
  on the CPU and whose prompt filled a block. Before the window fills,
  `get_full_cache` does not return the block columns; a kernel-grouped layer or a
  prompt shorter than a block leaves the compressor state of the conversation
  before.

*Worker pool.* It does what it promises, for any number of threads.

*ds4 sessions.* All properties hold behind a checkpoint that is valid and a graph
that is `sound`. The code loses soundness in these ways:

* a rewind (`ds4.c:17458`) shortens the checkpoint but leaves rows, counts and
  compressor state of the abandoned future, while the comment at 16634 promises exactly the
  supplied prefix: past the last complete block the next block is pooled from both. The model
  takes every rewind as a loss, also those that do not reach into a block;
* a payload that ends early (15902-16016) has overwritten rows and frontiers of
  a session whose checkpoint stays valid;
* the result of `spec_frontier_restore` is ignored (17106, 17348).

Outside the model: `DS4_MTP_EXACT_REPLAY`, where a failing replay is committed as if it had
been verified (17178); `DS4_METAL_GRAPH_RAW_CAP`, which may make the ring exactly
the window (13658) although the comments at 9074-9078 and 13637 forbid it. A
prompt whose first chunk has fewer than four tokens is refused on layers of ratio
4 (10911); `CallEnds` covers that the call then fails.

*Forward pass.* Every path, CPU and Metal, fused or not, reads what it should
under any interleaving. Builds with a GPU library are not: there the workers
of a token-parallel loop share `h_gate_buf` and its companions (5996), the
projections take the layer index of the feed-forward before (646), and the whole-GPU
pipeline passes no mask (7693). These libraries are not in the repository.

*Sampler.* With `top_p >= 1` and `min_p = 0` a draw of exactly 0 returns the first
token, however improbable (14836); `SampledFromNucleus` leaves that draw out.

*Matrix product.* `TilesOnce` holds but for `Uncovered`: on POWER the `mnpack` of the
16-bit product leaves columns 5 to 7 of a narrow remainder to no kernel
(`sgemm.cpp:1992-2137`), and the tiled quantised kernel writes eight columns where
four are left (2993).

*Hot experts.* Every pick is contributed once, with failing buffers too. Not
covered: a layer reset after some of its tensors were queued leaves pointers in
the queue (`llama-deepseek4-hot.cpp:472-513`), reachable only through a copy that cannot
read its source; the bytes asked of a device are those of K experts while K + P + 1
are allocated (172, 265, 308). The header describes the cold dummies as
`cold_ids[0..P-1]` (`llama-deepseek4-hot.h:64-76`) where the code uses `cold_ids[0]` for all
(431-439), which is harmless.

*Dot products and quantiser.* Each vector kernel takes exactly what the scalar one
takes, odd last blocks and both halves of every word included, and a packed IQ2_XS block
decodes to the levels, signs and scales chosen for it. Arithmetic is out of the
models, and with it: subnormal halves that decode to half their value
(`iq2_xs_bridge.c:13-30`, against the comment at 10), a second CUDA allocation that fails and leaves
an initialisation that later succeeds without the table
(`iq2_xs_quantize.cu:228-241`, result ignored at 584), and a NaN among the weights,
which selects the point at index -1 (`iq2_xs.h:353`).

## 6. Not modelled, and the plan

The next steps, in order of what they protect:

1. `CpuSLRU` (segments with silent eviction, where capacities may be zero) and
   the persistence of `ExpertCache` (`save_cache_state`, `load_cache_state`): a
   module over `SegmentedLRU`'s style of operators, with a restart as an action.
2. `ThreeLevelCache` of the Rust engine with its adaptation: size fields equal to
   contents, an expert in one RAM tier, the GPU tier refining `BoundedCache`.
   Capacities that `rebalance` changes are the interesting part.
3. Checkpoints of the Rust KV cache (`save_checkpoint`, `load_checkpoint`) and
   decoding on the GPU's compressor state, as actions of `RustAttention`.
4. The FP4 mode of `ExpertCache` with its CPU tier.

The theorem worth having next is that the GPU tier of `ThreeLevelCache` refines `BoundedCache`.

In the C engines, what is left is left for these reasons:

* the Metal kernels (`.metal` sources) and the numerical bodies of every kernel:
  arithmetic in floating point, whose rounding no finite model decides;
* the GGUF loader, the tokenizer and the diagnostics of `ds4.c`: read-only after
  opening, or text;
* builds with `DS4_HAS_EXPERT_GPU`, `DS4_HAS_GPU_PIPELINE`, `DS4_HAS_TILELANG` or
  their like: the libraries are not in the repository;
* in `quants_x86.c` the branches for AVX without AVX2, which repeat the AVX2 ones in
  halves; `nvfp4` and `f8_e4m3`, which have scalar kernels only;
* in `ggml-quants.c` the quantisation of weights (nearest levels by search over
  floats), in `ggml-common.h` the values of the grids, of which the models use only
  the indices;
* in `sgemm.cpp` the packing of POWER operands;
* in `deepseek4.cpp` the graph outside the routed experts: a straight line of tensor
  operations without state.

Left out for good: floating-point arithmetic, file formats, text, timing and
statistics, and code that nothing calls.
