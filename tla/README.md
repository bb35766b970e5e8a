# A verification development for ds4

`ds4` is a single-model inference engine (DeepSeek V4 Flash) with an HTTP
server, a REPL and a benchmark. This directory holds TLA+ modules that model
its control logic, TLC configurations that check them on small instances, and
proofs that TLAPS checks for every value of the constants.

Paths below are relative to the repository root; `server.c` stands for
`src/server/ds4_server.c`, `session.inc` for `src/core/ds4_session.inc`,
`gpu.inc` for `src/core/ds4_gpu.inc`, `cuda.cu` for `src/gpu/ds4_cuda.cu`.

## 1. Inventory

| Component | State | Operations | Interacts with | Hard behaviour |
|---|---|---|---|---|
| Request threads (`server.c` 43-52, 4717-4754, 7574-7614, 7761-7845, 8178-8306) | job queue, `stopping`, `clients`, one `struct job` on the stack of each client thread | accept, spawn, read, parse, enqueue, dequeue, finish, drain, stop signals | worker runs `generate_job` | condition variables, a job that dies with its client, shutdown order, second signal |
| Session (`session.inc`) | `checkpoint`, `checkpoint_valid`, backend KV state, `prefill_cap`, `ctx_size` | sync, eval, invalidate, rewrite, save and load of a payload | chunked prefill of `gpu.inc`, progress callback | any batch can fail half way; callbacks look at a half-synced session |
| Disk KV cache (`server.c` 4637-4675, 5566-6245) | files named by the SHA-1 of their text, hit counters, budget, `continued_last_store_tokens` | open, find, load, touch, consume, store, evict | session payloads, `generate_job`, tool memory | crash between write and rename, I/O failures, restart with another context size, eviction |
| `generate_job` (`server.c` 6639-6934, 6960-7572) | the request being served | cache decision, cold store, prefill, decode loop, stop handling, canonicalisation | all of the above | order of invalidation, store and reload; stale positions |
| Tool memory (`server.c` 4773-5066) | two radix trees, an LRU list, reference-counted DSML blocks | put, get, touch, prune, attach, assign ids | client threads (parsing) and the worker (remember, disk restore), under `tool_mu` | shared blocks freed by eviction, ids replaced while referenced |
| Streaming (`server.c` 2471-3610 and the OpenAI/Anthropic streams) | bytes already sent, stop list, UTF-8 tail, DSML decode state | hold back, send, finish | decode loop | a stop string or a UTF-8 sequence split over tokens |
| Speculative decode (`session.inc` 1041-1148, 3008-3601) | draft state, frontier snapshots | draft, verify, accept, restore | session, compressor state of each layer | partial acceptance, restore of a frontier |
| Graph executor of a layer (`gpu.inc` 1058-1090, 4880-5960, 6313-6345) | ring of `raw_cap` rows, rolling compressor state, emitted rows and their counter, captured decode tape | prefill, resumed chunk, decode, decode by tape, verify, restore | session above, kernels below | wrap of the ring, blocks that end inside a batch, a tape that is older than the layer |
| CUDA kernels and launchers (`src/gpu/*.cu`, `*.cuh`) | shared memory of a block, scratch tensors of a launch | attention, compressor, indexer scores and selection, router, routed experts, packed rows | graph executor | barriers, tensors reused as scratch, partial tiles, dispatch by size and environment |
| Model loading (`cuda.cu` 180-1620, `session.inc` 2380-2480) | map of the file, cached ranges, arenas, pinned stages, expanded copies, scratch | map, preload, look up a weight, expand, run an operation, release | GGUF file, every kernel that reads weights | asynchronous copies through reused stages, two models, managed memory, a limit reached half way |
| Tokenizer (`src/tokenizer/ds4_tokenizer.c`) | vocabulary and merge tables, read-only after start | split, merge, encode a chat, text of a token | server, CLI | order of the split rules, merges that compete, special strings |
| Thread pool (`src/util/ds4_util.c` 227-391) | generation counter, pending workers | start, run, wait, shut down | CPU kernels | generation races, row partition |
| Instance lock (`session.inc` 706-757) | a lock file | acquire, release | other processes | stale lock files |
| GGUF reader, quantisation (`src/model`, `src/quant`) | read-only after start | parse, bind, dot products | all | file validation; arithmetic |
| CPU kernels and dense GPU arithmetic (`src/core/ds4_cpu.inc`, parts of `src/gpu`) | numerical | - | session | numerical code, outside TLC's reach |
| REPL and bench (`src/cli`, `src/bench`) | a session of their own | as the session | session | interrupts |
| Tools, vendored code, tests | - | - | - | not part of the running program |

What makes each part correct, and which module states it:

| Component | Correct means | Stated by |
|---|---|---|
| Request threads | a job is touched only while its client's stack frame exists; no wakeup is lost; nobody is abandoned by a stop; resources are released by the last thread; requests are served first in, first out | `ServerQueue` (implements `RequestService`) |
| Session | a valid checkpoint names the tokens the backend state was computed from, whatever failed before; a sync delivers its prompt; batches keep the absolute alignment | `Session`, `SessionCalls` |
| Disk KV cache and `generate_job` | a file holds the state of exactly the text that names it; decoding continues the request's bytes wherever the prefix came from; the budget holds; a replaced conversation is on disk | `KVServer` |
| Thread pool | each row exactly once; no worker runs a kernel whose call has returned; no lost wakeup | `ThreadPool` (implements `ParallelFor`) |
| Tool memory | what a client's tool id resolves to is the block the model sampled, or nothing, unless a rewrite of the file tore the record under its reader; counters, lists and references agree; a message whose ids stay on disk gets its text back | `ToolMemory`, `ToolReplay` |
| Streaming and parsing | what was sent is never wrong and in the end complete, on both protocols; no part of a stop sequence is sent, unless it reaches over a marker, and no part of a character; the incremental recognizer agrees with the slow one, unless it missed a closing tag that a token cut after its first byte | `DsmlText`, `ChatStreams`, `DsmlTracker`, `Generation` |
| Graph executor, speculative decode | each token's attention reads its window and the compressed rows it may see, none twice, however the tokens came; rows are pooled from their own block, less what a prompt that ends inside it leaves behind | `GpuLayer` over `KvCompressor` and `AttentionKernels` |
| Kernels and launchers | a staged row stays whole while any warp scores it; every pair of token and expert is summed once in the right format; every chain of kernels selects the same rows and experts; packed rows read back | `TileStaging`, `RoutedMoe`, `IndexerTopK`, `ExpertRouter`, `PackedRow` |
| Model loading | a pointer an operation holds leads to the units of its tensor until the kernel has read them; every buffer has one owner | `WeightCache` |
| Tokenizer | texts are cut where the listed patterns cut them, runs of spaces never parted, and the texts of the tokens spell the text again | `Tokenizer` |

`PROJECT.json` lists the hazards, each at its line, with the properties that
cover it.

## 2. Modules

| Module | Models | Extends | Checked by | Proved in |
|---|---|---|---|---|
| `RequestService` | abstract: the service HTTP clients see | - | as a property of `ServerQueue` | `ServerQueueProofs` |
| `ServerQueue` | threads of the server | - | `server` | `ServerQueueProofs` |
| `Session` | one `ds4_session`: state and calls | - | through the two below | `SessionProofs` |
| `SessionCalls` | a session under any caller that follows `ds4.h`, with payloads and restarts | `Session` | `session` | `SessionProofs` |
| `KVServer` | `generate_job()` over the session and the disk cache, with crashes | `Session` | `kv_server`, `kv_fresh_file` | `KVServerProofs` |
| `ToolMemory` | the table of tool-call ids under `tool_mu` | - | through `ToolReplay` | `ToolReplayProofs` |
| `ToolReplay` | worker and client threads over that table and the cache files | `ToolMemory` | `tool_replay` | `ToolReplayProofs` |
| `DsmlText` | generated text, its markers, and the final parser | - | through `Generation` | - |
| `ChatStreams` | the OpenAI and Anthropic live streams | `DsmlText` | through `Generation` | - |
| `DsmlTracker` | the incremental recognizer of DSML blocks and the slow one | `DsmlText` | through `Generation` | - |
| `Generation` | the decode loop, stop list, streams and reply of one turn | `ChatStreams`, `DsmlTracker` | `stream` | - |
| `KvCompressor` | compressed rows and the rolling state they are pooled from | - | through `GpuLayer` | `GpuProofs` |
| `AttentionKernels` | the keys each attention kernel reads, and which kernel is launched | - | through `GpuLayer` | `GpuProofs` |
| `GpuLayer` | one layer of the graph executor with its decode tape | the two above | `gpu`, `gpu_half_row`, `gpu_rows_counted` | `GpuProofs` |
| `TileStaging` | the warps of one attention block and their shared memory | - | `gpu`, `gpu_staging` | `GpuProofs` |
| `RoutedMoe` | one launch of the routed experts, kernel by kernel | - | `gpu` | `GpuProofs` |
| `IndexerTopK` | scores of the indexer and selection of rows | - | `gpu` | `GpuProofs` |
| `ExpertRouter` | choice of a token's experts, three kernels | - | `gpu` | - |
| `PackedRow` | layout of a packed KV row | - | `gpu` | `GpuProofs` |
| `WeightCache` | weights on the device: map, cache, preload, operations | - | `load` | `WeightProofs` |
| `Tokenizer` | tables, split, merges, chat encoding | - | `load` | - |
| `ParallelFor` | abstract: a parallel loop | - | as a property of `ThreadPool` | `ThreadPoolProofs` |
| `ThreadPool` | the CPU worker pool | - | `thread_pool` | `ThreadPoolProofs` |

`Iteration` holds facts about folds and about the natural numbers that several proofs need
(section 4). `MC*` modules give
constants their values; `MCGpu` and `MCLoad` also put several models side by side. The components compose where
the code composes them: `KVServer` is the client of `Session` (its actions call
the session's actions), and `ServerQueue` sees one whole `generate_job()` as the
step `GenerateJob`. `Generation` is the decode loop and the reply of such a
job in detail, and `ToolReplay` what it and the parsing threads do with tool ids;
`GpuLayer` is what `Session` abstracts to the evaluated tokens, for one layer.
Several actions have a *faulty variant* in front of them: the
action with one plausible bug. No specification uses them; substituting one for
its action must break the property named in `PROJECT.json` ("mutants").

### ServerQueue

| Model | Code |
|---|---|
| `main`, `accepted` | where `main()` is: accept loop, spawn, `stopping`, join, wait for clients, shutdown checkpoint, close |
| `client[c]` | where `client_main()` of connection `c` is; `"wait"` is `pthread_cond_wait(&j.cv, &j.mu)` |
| `queue`, `worker`, `job` | `server.head..tail`, `worker_main()`, the job in its hand |
| `mu[c]`, `done[c]` | `job.mu`, `job.done`; the job exists while `client[c]` is in `JobScope` |
| `stop_signal_handler` | first signal sets the flag and closes the listener, a second one is `_exit` |

A critical section of `server.mu` is one action. `job.mu` is a lock of its own,
because the client holds it from before `enqueue()` until it sleeps, and the
worker's unlock is a step of its own: that is the window in which a client could
destroy a mutex the worker still holds. Spurious wakeups are actions. Reading and
parsing HTTP is a choice between "request", "answered locally"; sockets have a
10 s receive and a 2 s send timeout, so these steps end.

### Session and SessionCalls

| Model | Code |
|---|---|
| `checkpoint`, `valid` | `ds4_session.checkpoint`, `checkpoint_valid` |
| `graph` | the backend state, abstracted to the tokens it was computed from; `Broken` after a failed command or load |
| `conf` | `ctx_size`, `prefill_cap`, `raw_cap` of this session |
| `sync` | a `ds4_session_sync()` in progress, between two batches |

`SyncBegin` chooses among the four ways of the GPU path (resumed prefill, token
by token decode, chunked cold prefill, one whole batch). `SyncStep` is one
batch, `ChunkLen` its length as `gpu_graph_prefill_chunked_range()` computes it.
The progress callback runs between batches, so that is where a caller may look
at the session (`Observable`) and save it. Logits are part of `graph`: the
prefill computes the last row's logits before each callback, so a payload saved
there holds the logits of its own tokens. `Eval` requires a valid checkpoint in
`SessionCalls`, as the callers do. `LoadPayload` includes the caller's
invalidation after a failure, which `kv_cache_try_load_text()` and
`kv_cache_try_load_evicted()` both perform.

### KVServer

| Model | Code |
|---|---|
| `pc`, `job` | where `generate_job()` is, and the request |
| `store` | the arguments of `kv_cache_store_live_prefix()` and where it returns to |
| `disk` | the files of the cache directory: tokens, payload, hit counter |
| `lastStore`, `lastEvicted` | `kv.continued_last_store_tokens`, `last_evicted_tokens` |
| `faults` | the kinds of fault that have happened: `io`, `unlink`, `backend`, `crash` |

A text is a sequence of characters and a token is the text it stands for, so one
text has several tokenizations: the reason for the cache's text keys. In the
instance the tokenizer has one merge, "1" followed by "2", so the model can
sample a sequence the tokenizer would not produce. The path of a request is
`Request`, `LookupLive` or `LookupElsewhere` (store what will be replaced),
`Load*`, `LoadEvicted`, `Plan` (cold prefix), `SyncPrompt`, `Prefill` with
`Progress`, `PrefillDone`, the decode loop, and `Finish`, which rewrites a
thinking turn to the form later prompts show. A store is `StoreSkipped`,
`StoreExists` or `StoreReplaces`, `StoreWrite`, `Evict`; a crash may come between
any two steps, and `Restart` opens the cache, which trims it.

### ThreadPool

| Model | Code |
|---|---|
| `caller` | where `ds4_parallel_for_min_rows()`, or `ds4_threads_shutdown()`, is |
| `worker[t]`, `seen[t]`, `taken[t]` | where `ds4_worker_main()` is, its `seen_generation`, its copy of `n_rows` |
| `generation`, `done`, `nThreads`, `shutdown`, `nRows` | fields of `g_pool` |
| `runs` | how often the kernel's function ran on each row (observed, not in the code) |

The generation counter wraps at `Generations` (2^32 in the code, 2 in the run).
One thread calls the pool at a time: the inference worker, or `main()` before it
starts and after it has ended.

### ToolMemory and ToolReplay

| Model | Code |
|---|---|
| `mem.lru`, `mem.blockOf` | `server.tool_mem`: list from head to tail, tree `by_id` |
| `mem.blocks`, `mem.refs`, `mem.chain` | tree `by_block`, reference counts, `b->entries` |
| `mem.entries`, `mem.bytes`, `mem.limit` | counters and bounds (`tool_memory_max_ids` and bytes) |
| `disk[f]` | flag byte and tool map of a cache file; `exists` |
| `worker`, `client[c]` | `kv_tool_map_write()`, `kv_cache_rewrite_tool_map()`, the load of a file; `kv_cache_restore_tool_memory_for_messages()` |

A critical section of `tool_mu` is one action; files are read and written
without a lock, so a reader keeps the file it opened while it is renamed over,
unlinked, truncated or rewritten in place. A client reads the id of a record and its
text in two steps (5521-5541); `client[c].cut` and `torn` observe that the file was
cut short in between, and for which ids.

### DsmlText, ChatStreams, DsmlTracker and Generation

A text is a sequence of pieces, the smallest parts a token boundary can
separate. The text of a turn is fixed at its start; how it is cut into tokens, and
where it ends, is a choice of `Token`, `WriteFails` and `Stops`.

| Model | Code |
|---|---|
| `text`, `scan`, `toolScan`, `saw` | `text`, `stop_scan_from`, `tool_scan_from`, `saw_tool_start/end` of `generate_job()` |
| `live` | `openai_live`, `anthropic_live` with what the client has received |
| `thinking`, `tracker` | `thinking_state`, `dsml_tracker` |
| `finish`, `reply` | the end of the loop, `parse_generated_message()` and the final response |

`ToolRound` and `TrackerRound` are one round of the loops in
`openai_tool_stream_update()` and `dsml_decode_tracker_update()`.

An argument is a string or a JSON value: a number, `null`, a quoted string with escapes,
or an object. The parser minifies it, drops what follows the first value, keeps what is no
value as it is and writes `null` for nothing (`ArgText`, `Minify`); a reply writes the
arguments through `append_json_object_or_empty()` (`ObjectOrEmpty`), which sends `{}` for what is
not an object of JSON values; the stream sends the bytes of the model, spaces
included, or nothing. `Delivered` relates the three. A block whose tool stream cannot
start turns the OpenAI stream to `"suppress"` (3884, 4107). Arrays and the escapes
other than a quote and a backslash are left out.

### GpuLayer, KvCompressor and AttentionKernels

| Model | Code |
|---|---|
| `ring` | `layer_raw_cache`, slot to position |
| `comp.state`, `comp.rows`, `nComp` | `layer_attn_state_kv/score`, `layer_attn_comp_cache`, `layer_n_comp` |
| `tape` | `graph_exec`: the launch captured and the position of its last use |
| `reads` | the keys the last attention launch read (observed) |
| `set` | ratio, quality mode, cuBLAS, environment switches of the process |

Actions: `Prefill`, `Chunk`, `Decode`, `GraphDecode`, `Verify` and its partial
acceptance. A projected token is its position and the phase of its score term, a
compressed row the set of weighted tokens it was pooled from and the position it
was rotated for. `AttentionKernels` gives what each kernel hands to the softmax as a
function from the reads it makes (a row in order, a place of a tile, an unmasked score) to keys,
so that a row read twice shows, and repeats the launchers' choice.

### TileStaging, RoutedMoe, IndexerTopK, ExpertRouter, PackedRow

`TileStaging` runs the warps of a block between `__syncthreads()`; a cell of shared
memory is a warp's share of a staged row, an asynchronous copy is in `flight`
until the hardware lands it. `RoutedMoe` runs the kernels of `routed_moe_launch()`
one after the other over the tensors they share; `sorted` is filled by threads in any
order, and a kernel is the function from its blocks and lanes to the pair and the expert
each works on. The other three are pure: the kernels of one choice as functions, compared
with each other or with a reference definition.

### WeightCache

| Model | Code |
|---|---|
| `g`, `ranges`, `arenas`, `wide`, `tmp` | the globals of `cuda.cu`: map of the model, `g_model_ranges`, `g_model_arenas`, `g_q8_f16_ranges` and `g_q8_f32_ranges`, `g_cuda_tmp` |
| `mem` | live device, pinned and managed buffers with their contents |
| `stage`, `queue` | pinned stages, copies issued on the upload stream and not yet done |
| `lookup`, `todo`, `held` | a `cuda_model_range_ptr()` in progress, the steps left of an operation, the pointers it holds |
| `proc` | environment, limits, draft model, managed memory, registration |

An operation is the sequence of lookups and scratch requests its launcher makes
before its kernel reads. A failed allocation, copy, read or registration is `Fails`.

### Tokenizer

Strings are sequences of bytes, tables are functions built by `Build*` from the
constants. `Pieces` is the chain of branches in `bpe_tokenize_text()`;
`ListedPieces` is the comment's patterns at `ds4_tokenizer.c` 376-390, tried in their order;
`RunPieces` is the same list without `\s+(?!\S)` and with each run of spaces in one piece,
which is what the branches do.

## 3. What the runs show

| Run | Instance | Shows |
|---|---|---|
| `server` | 3 connections, both signals, spurious wakeups | a job is touched only while it exists, no wakeup is lost, resources are released last, every connection is released, a stop ends the process, `RequestService` is implemented |
| `session` | 2 sizes (ring smaller and larger than the batch), prompts up to 4 tokens with a divergence, 1 payload | `GraphExact`, `SyncDelivers`, `BatchesAligned`, and the chunk schedule makes progress from every position |
| `kv_server` | 3 requests of 4 texts, 1 generated token, budget 9, one fault of any kind, restarts among two session sizes | `FilesExact`, `ServedExactly`, `BudgetKept`, `SessionSaved`; every request, start and shutdown comes to its end |
| `thread_pool` | pools of 1-4 threads, 0-5 rows, generations modulo 2 | the pool's properties, `ParallelFor` |
| `tool_replay` | 2 ids, 2 blocks, a text that holds one block twice with the other between, a table for one id, for one block or for all, 1 file, 1 client, 1 crash | counters and lists agree, ids lead to what was sampled except torn ones, maps hold what was sampled, ids that stay on disk are served |
| `stream` | thoughts, contents, tool blocks with string, JSON, empty and ill-typed arguments, malformed and unopened blocks, stop sequences with and without tools and over the markers, in every split into tokens of at most 3 pieces | nothing sent is taken back, both streams agree with each other and with the parser, the recognizers agree; two exceptions are named exactly: `StopOverMarker` and `Missed` |
| `gpu` | four disjoint parts: 8 layers, 4 staging kernels on 2 warps, 27 launches of the experts, and all small questions to the pure kernels | `RowsPooled`, `StripeEmitted`, `AttendsExactly`, `TilesIntact`, `PairsSummedOnce`, `SelectionsAgree`, `PacksReadBack` |
| `load` | 11 processes, a file of 5 units and a draft of 2, 2 operations, one failure anywhere; texts of up to 4 characters | `WeightsRead`, `BuffersOwned`, `TextKept`, `PiecesFollowPatterns` |
| `kv_fresh_file`, `gpu_half_row`, `gpu_rows_counted`, `gpu_staging` | as `kv_server` and `gpu`, each with one property a comment of the code states | violated, see section 6 |

Why the bounds are enough. Three connections give a queue of two behind a busy
worker and a third client being refused or spawned; further ones repeat these
roles, and the safety properties are proved for any number. Prompts of up to
four or five tokens with batches of two and three contain whole, partial, first,
last and realigned chunks. Three requests suffice for store, replace and
reload of a conversation; the budget of 9 holds two files of three tokens and not a third,
so eviction runs; `ColdMax` is below the longest prompt, so consumed and touched
files both occur; one fault is at most one step from every other step of a
request. The restarts make a file meet a smaller context and another batch. The
longest share, the unequal share and the empty share of a pool all occur with
five rows on four threads. Two ids over two blocks give a shared block, a block that
is freed by eviction and an id that moves from one block to the other, and records of
two lengths of history in one file. Three pieces are more than the longest
part of a marker a token can complete while it opens the next. In `gpu` the window
is 3, the ring 11 = window + batch of 8, as in the code, and 14 positions wrap it;
four compressed rows make blocks that end inside, at and after a batch; a selection
of one row leaves rows out; two warps and five rows give a warp a stage
behind another; three experts with two slots and tiles of two give full, partial and
empty tiles on both sides of `Large`. In `load` two stages serve more chunks
than there are stages, so each is reused; the limits of three and four units are reached in the
middle of a preload.

A row of the compressor has two stripes of 256 dimensions (`Stripes`), and ratio-4
prompts have every length from 4 to 8: a ratio-4 layer takes no batch of fewer than
four tokens from token 0 (`AnyPrompts`). The 27 launches give each weight format every
switch that changes its kernels, those included that read a format other than the
stored one or have no kernel at all.

What the `gpu` and `load` instances leave out, because the property is known not to
hold there (section 6 says what happens): ratio-4 layers decode by tape only
over packed rows; kernels without a trailing barrier are launched for contexts that fit their stages;
the compressed rows of a context fit the score buffer (`ScoreCap`); what becomes of a
scale after an NVFP4 launch is not asked; managed memory has no draft model. `cudaFree`
waits for the device and the host's pageable memory
is readable by the device, as on the GB10 the code is written for.

Bounds of the models: `MaxSaved` payloads at a time (`SessionCalls`), `MaxJobs`
requests, `MaxTokens` generated tokens, `MaxFaults` faults, `MaxHits` as the cap of
a hit counter (`KVServer`), `MaxThreads`, `MaxRows` (`ThreadPool`, the code's own
limits), `MaxCalls`, `MaxCrashes` (`ToolReplay`), `MaxPiece` (`Generation`), `MaxPos`
(`GpuLayer`), `MaxFaults`, `MaxOps` (`WeightCache`). `KVServer` stops after `MaxJobs`
requests by shutting down and restarting for ever. Deadlock is checked in every
run but `gpu`, `load` and `gpu_*`, where a block, a launch, a question, a process
or a text simply comes to its end.

Fairness. `ServerQueue`: weak fairness of each thread, by pthread scheduling;
connections, signals and spurious wakeups are not owed. `GenerateJob` ends because
`generate_job()` is bounded by `max_tokens` and the context and by the send
timeout. `SessionCalls`: weak fairness of a batch and of the return of a sync,
since the call runs to its end once made. `KVServer`: weak fairness of the worker;
requests, shutdowns, crashes and starts are not owed. `ThreadPool`: weak fairness
of the caller inside a call and of each worker; a kernel's function ends. The other
specifications state no fairness: only invariants and action properties are asked
of them.

## 4. What is proved

All theorems hold for every value of the constants that satisfies the named
assumption of its module, and are checked by TLAPS to the last leaf.

**ServerQueueProofs** (assumption: a finite set of connections).
`NoDanglingJob`, `NobodyAbandoned`, `NoLostWakeup`, `ClientCount`,
`ResourcesReleasedLast`, `AnsweredBeforeClose` and the action property `AnswerWrittenOnce` follow from the invariant `IInv`. None of them is inductive
alone: that a queued job exists depends on `client_main()` not leaving before `done`
is set (`Waiters`), on nobody else setting it (`JobsHeld`), and on who owns `job.mu`
(`Locks`); that the resources are released last depends on `clients` counting
threads exactly (a cardinality argument) and on the phase of the shutdown
(`Stopping`). `ServiceImplemented` shows step by step that the threads implement
`RequestService`.

**SessionProofs** (assumption: sizes are natural numbers, batch
and ring are not empty). `GraphExact` is not inductive: in the middle of a sync the
checkpoint is still the old one. `SessionInv` adds what a sync in progress has reached
(`SyncProgress`: the backend stands for the prompt up to the position, the
checkpoint follows where the callback can see it), and that no valid
checkpoint is empty. Its first half shows once, call by call, that the session keeps
it under any caller that meets the call's precondition; the second half, about
`SessionCalls`, and `KVServerProofs` cite these lemmas. From the invariant follow `GraphExact`,
`SavedExact` and the action properties `SyncDelivers` and `BatchesAligned`; the last
needs that a cold prefill is at a multiple of the batch, and the arithmetic of the
next boundary.

**KVServerProofs** (assumptions: those of the session, natural options, `MinTokens`
at least 1, and `TokenizerExact`: the tokenizer yields tokens that spell the text
again, which is what `load` checks of `Tokenizer` as `TextKept`). `FilesExact` and
`ServedExactly` hold for every vocabulary, request, option, number of requests and
number of faults. The argument is about where the worker is, a store counting as
the place it returns to (`At`), because the same store is called from six places,
one of them the progress callback inside a sync. `Calls` says that a sync is in
progress exactly while the worker is in one, and reports progress wherever a
store runs inside it; so at every store the session is observable and
`GraphExact` makes the file exact (`LiveFileExact`). `Serving` says that the prompt
spells the request from the lookup to the end of the sync; that `Continue` keeps
it so, over any history the model may have sampled, is `ContinueText`. What the texts of
concatenated and extended token sequences are is proved first, from the
definition of `FlattenSeq`: induction over lengths is done there with the least
counterexample, so that no theorem with an operator parameter is needed.

`BudgetKept` needs to know where the worker may be while the files do not fit
(`BudgetInv`): only between the rename of a new file and the `kv_cache_evict()` that
follows it, which a crash leaves to the next start, or after a failed `unlink`. The size of the
directory is a sum over a set, a fold that takes the files in no stated order; that any
order gives the same sum (`Iteration`) shows that fewer files are not larger, that
a file that is read or touched keeps its size, and that the eviction loop, which
ends when the files fit or none is left, leaves a directory that fits.
`SessionSaved` (`SavedInv`): whoever is about to leave the session stores its
whole checkpoint, so until the file is written the store's tokens are the checkpoint. From
the rename on, every other file fits the budget by itself, because the directory did
before (`Trimmed`); hence the new file is evicted only while files worth no less are left,
or alone, when it is larger than the budget: what the property allows. A load then
removes only the file it consumes, after the store.

**ToolReplayProofs** (assumptions: finite sets of ids, texts and blocks, limits that are
natural numbers; any number of files and clients). `ReplayTable` states `TableConsistent`. Every operation under
`tool_mu` keeps `TableInv`: the list has each id once, an entry's block is in the tree, the
reference count of a block is the number of its entries and its chain lists them, and
the counters are sums over entries and blocks. A put may detach an id from a block, free that block,
and prune; the prune loop is a fold that removes the oldest entry while a limit is
exceeded, and `TableInv` is carried through it. That the limits hold after it
is by counting: the loop may take every entry, and an empty table exceeds nothing.
`ReplayIsExact` and `MapsAreExact` follow a record on its way from the model's answer
to the table, into a file, back through a load or a client's `kv_tool_map_load_from_pos()`
and into the table again (`ExactInv`): it is exact wherever it is, also in the buffers of
a worker in the middle of a rewrite and of a client whose file was unlinked under
it. One place breaks it: a client that has read the id of a record when the file is truncated and
rewritten reads the text of another record. No hypothesis excludes that step. The invariant
follows it: the ids it may have touched are in `torn`, wherever their records go from there,
and the two properties speak of all others. A torn id may carry a block that was never
sampled under it, in the table and in files written later; section 6 shows that it does.

**Iteration**. Folds over sets choose their order, and an induction over the size of a
set is a theorem with an operator parameter. Here the operator, the order and the property
are CONSTANTS of a module; its theorems are proved once and every instance gives
them for the operators it names (`FoldSteps`: what each step keeps holds of the fold;
`Commutes`, `AnyLast`, `FoldAny`: an operation that does not care for the order may
take any element last).

**ThreadPoolProofs** (assumption: at least one thread, at least two generations).
Three facts about the partition come first: the shares together are long enough,
no two overlap, and every row is in one. The invariant then relates `done` to the
set of workers that have reported (so that `done = n_workers` means all of
them), each worker's generation to the pool's (so that a call finds everyone at
the last generation and the next one differs, also when it wraps), and
`runs` to the shares of the threads that have run. `NoWorkerBehind`, `RowsOnce`,
`NoLostWakeup`, `PoolReleased` and the refinement of `ParallelFor` follow.

**GpuProofs** (assumptions: a finite, nonempty set of warps; positive sizes, an even tile
width and, for each token of a launch, all its slots. For `TileStaging` also the hypothesis
`Guarded`: a barrier after the last row of a tile, or a stage for every tile, or one
tile that is staged at all.) `TilesIntact` needs to know how far apart two warps can
be: `Lockstep` counts the barriers each has passed and makes the counts equal,
`Flights` says that a copy not yet landed belongs to a tile its warp still expects,
and `Shares` which shares of a tile are in their stage at each point. The run `gpu_staging` shows that
the hypothesis is needed.

It also shows that the kernel for one token, the warp-matrix kernel in tiles and the
direct kernel hide exactly the rows that are not complete before a token, for every
tile size, number of rows and tokens, position and ratio (`EveryKernelCausal`), and that
`PackedReadsBack` holds for every block size, head size and number of rotated
values (`RowsReadBack`): an offset says which byte is written there (`StoreAt`), because the
sections follow each other and the last block of values may be cut short.

For `RoutedMoe` it proves `PairsSummedOnce` (`EveryPairOnce`) for any number of tokens,
experts and slots, any tile width, every setting of the switches and every launch. The
property itself says what the code does where no kernel fits: NVFP4 weights without tiles
or direct sum have no down kernel (`NoDownKernel`), the failure noted there is overwritten, and the
launch reports success with a sum of scratch; tiles of half the size give NVFP4 pairs
twice to the atomic sums (`Overlapping`); and weights are read in the format of the
kernel that is launched (`GateRead`, `DownRead`), which for Q4_K batches is not the stored one. `Scattering` is the invariant of the counting sort: the pairs placed so far
lie at the beginning of their expert's run, up to its cursor, and the runs do not
overlap, so a cursor never points at a place already taken. From the sorted places
follows that the work list of every kernel has each pair once with its own
expert (`Covers`), also where a kernel is twice as wide as the tiles and leaves out every second one.

For `GpuLayer` it proves `RowsPooled` (`RowsAlwaysPooled`) for every ratio, number of
stripes and bound, and any order of prompts, batches, single tokens, replayed tapes and
partly accepted drafts: while the layer's counter is that of its position, every row it counts
is pooled from the tokens `RowPool` names, for prompts of any length: those of its own block and, for ratio 4, of the one before,
except that a ratio-4 prompt leaves its last four tokens as the block before and none
as the current one. `StateHolds` says what the rolling state holds
after `b` whole blocks and `i` tokens more; `BatchKeeps` that a batch, whole blocks at once
or token by token, takes one such state to the next; `Rewound` that the snapshots give the
state after the one accepted draft token back. `LayerInv` states the rows only for a counter that
is the position's: a decode step emits its row and leaves the counter (`gpu_rows_counted`), so
a later batch, which counts on, writes rows at the wrong index. The action property `StripeEmitted`
(`EveryRowEmitted`) follows from the same state: the decode step that ends a block pools the first
256 dimensions of its row, for any number of stripes; `gpu_half_row` shows that it pools no
others. Its one hypothesis is `RoomForRows`, that the buffer has a row for every block, as
`layer_comp_cap = ctx_size / ratio + 2` gives it (`ds4_gpu.inc` 764).

It also proves `AttendsExactly` (`AlwaysAttendsExactly`): whichever kernels are launched and
however its tokens came, a token's attention reads the rows of its own window and compressed rows it
may see, each once, and all of them (or the best `top_k`) while the layer counts them. The
argument has four parts.
*The kernels*: every kernel gives each of its raw and compressed rows once (`Gives`), also in
tiles (`TilesGive`), and the loop over the ring lists exactly the slots of the token's window
(`WindowSlotsAre`) for a launch whose span and start are those the executor computes
(`LaunchInRing`); the indexed ones take the visible part of the selection, which comes first in
it (`SelectedGives`).
*The ring*: window plus batch never exceeds `raw_cap`, so two positions that matter never share a slot
(`RingPlace`, `WindowHeld`), storing a batch leaves the window before it in place (`StoreRawFresh`),
and tokens taken back leave a window that is still there (`FreshStays`).
*The counter*: `CountInv` says that no row is counted before its block has ended, so no token
sees its future, and that a counter which is the position's counts everything the tokens up to it may see.
*The tape*: `TapeInv` says what the captured launch holds; a replay overwrites the span and start
of the window (`ReplayIs`) and keeps the counter of its capture, which had ended by then.
Two hypotheses. `SizesFit`: `raw_rows[256]` holds a window and `comp_rows[512]` a selection, as the
shapes of the model are (`ds4_internal.h` 48-51), the score buffer the compressed rows of the context, and
positions fit their type; section 6 shows what happens beyond the score buffer. `TapesPacked`:
ratio-4 layers decode by tape only over packed rows, which section 6 shows is needed.

**WeightProofs** (assumptions: sizes, alignments and limits are natural numbers, those
that divide are not zero, and the tensors lie inside their file) proves `WeightsRead`
(`WeightsAreRead`) and `BuffersOwned` (`BuffersAreOwned`) for every model file and list of
tensors, any process and environment, any number of stages and size of a chunk, any
number of operations, and every choice of what fails. What a pointer
leads to depends on the whole history of the buffer behind it, so `WeightInv` says what each
live buffer holds: the mappings and the base their file (`MapsHold`, `BaseHolds`), a range
and an expanded copy the units of their tensor (`RangesHold`, `WidesHold`), and that no two
entries of the tables share a buffer (`BuffersOk`, with an argument for each table), so
that releasing one leaves the others readable. A range enters the table while
its last copies may have been issued a moment ago. `TransferOk` therefore speaks of the
copies the upload stream has not run: each lands in the used part of an arena and away from every
range; those of the upload in progress carry its units, in stages that are not filled
again before they have landed; and each unit copied so far is in place or on its
way (`Arrives`). After a failed upload the rest of its copies still lands, in arena space that
is never given out again. `ControlOk` ties the pointers an operation holds to the
entry they came from (`Source`, `WideSource`): only the step that multiplies with an expanded
copy holds it, and lets go of it before the f16 copies are freed, since every product has
a kernel behind it that reads the quantised weight instead (`KernelLater`). `NoneLost` adds that nothing else is
alive, from which `BuffersOwned` follows by counting.
Three hypotheses. `KnownOperations`: operations are those of the matmul entry points over
weights inside their file. `OneFileManaged`: no process has managed memory
and a draft model; section 6 shows that mapping the second file then frees the first.
`OneCopy`, for `BuffersOwned` only: managed memory and `DS4_CUDA_COPY_MODEL` do not
come together, because the managed prefetch (`ds4_cuda.cu` 1534) stores its own base over the
copy `ds4_gpu_set_model_map()` made, which nobody can free afterwards.

Only model-checked: the liveness properties (`ConnectionsReleased`, `StopEnds`,
`SyncTerminates`, `WorkDone`, `CallReturns`), which need reasoning about `ENABLED`.
The other invariants of `gpu` and `load` (`ExpertRouter`, the selection half of `IndexerTopK`,
`Tokenizer`) are not proved: they compare whole computations (a sort in a heap, a choice
of experts, merges of pairs) with a definition, which needs an induction over their data.
`Generation` cannot be: what the recognizers and
streams compute is recursion over the text, so its modules declare RECURSIVE operators.

## 5. What is not modelled, and why

* The bytes of HTTP and JSON: the parsers are sequential code over one buffer that no
  other thread sees; what a request may be is a choice in the models above them.
* Floating-point arithmetic: norms, dense projections, hyper-connections, rotary
  embedding, softmax, number formats and quantised dot products, on both
  backends. The models keep which rows, experts and places take part, not the values.
* The CPU session's own prefill and the CPU kernels behind the thread pool.
* The draft model's own forward pass, and which tokens it proposes: `GpuLayer`
  verifies any two tokens and accepts one or both.
* Inside `KVServer`: cache files of another quantisation, and the canonicalisation of
  a turn with tool calls; the tool map of a file is in `ToolReplay`. Ties in the eviction
  score are broken arbitrarily: the code breaks them by a clock of one second.
* A crash is the end of the process, not of the machine: the code renames without
  `fsync`, and nothing is claimed about a power failure. A temporary file left by a
  crash is never read, never removed and no part of `disk`.
* Each kind of fault happens at most once in a run of `KVServer` and `WeightCache`.
* The instance lock (`flock` with a pid in a file), the GGUF reader, the command line
  tools, the benchmark, the offline tools, vendored libraries and tests: start-up
  checks and loops around a session that add no state of their own.
* Of `WeightCache` nothing is asked about the copy of a managed map that
  `DS4_CUDA_COPY_MODEL` leaks (the hypothesis `OneCopy` above), host ranges that the cache
  limit does not count, and arena space of a failed upload that is never used again: they
  are resources lost and not wrong reads.

## 6. Where the code and its comments disagree

Each of these is a run that TLC finds violated; `PROJECT.json` quotes the comment.

1. `kv_fresh_file`: a checkpoint just written, with no hit, can be evicted by its
   own store in favour of a comparable file with one hit.
2. `gpu_half_row`: the fused emit kernel of the decode tape is launched with 256
   threads and pools one dimension per thread, so the upper half of a 512-wide
   attention row keeps its old value.
3. `gpu_rows_counted`: a decoded token that completes a block emits its compressed row
   but does not count it, so later steps do not attend to it until a batch
   counts again.
4. `gpu_staging`: the kernel over packed rows has no barrier between the last read of a
   staged row and the first write of the next one.

Others met while modelling have no run of their own. Each can be seen by adding the
property to the named run's cfg, or by giving it the named definition for its
constant:

| Add | To | Shows |
|---|---|---|
| `ReplayVerbatim` | `tool_replay` | a client reads a map's record in two steps (`server.c` 5521-5541) with no lock that keeps the worker from truncating and rewriting the file between them (5907): in a text of two blocks, an id gets the text of the other record, where the comment at 4760-4768 promises a verbatim replay |
| `CachedIsReal` | `kv_server` | after a failed prefill, a request that continues the text of an invalid session is reported as cached (`server.c` 6218); the answer is right, since the sync starts from zero |
| `KeptFilesUsable` | `kv_server` | a file with another `prefill_cap` is kept and refused for ever (5883) |
| `Configs <- MCLargeConfigs`, `Requests <- MCThinkingRequests`, `Interval = 1`, `MaxTokens = 4`, `FrontiersStored` | `kv_server` | `continued_last_store_tokens` survives a canonicalisation to a shorter history (5840), and the next turn passes aligned frontiers without a checkpoint |
| `CallsComplete` | `stream` | a call whose block has no type is in the reply and not in the stream (3930, 7373), and the stream's arguments have the model's spaces, or nothing, where the reply's are minified, or `null` (2725) |
| `OrphanIgnored` | `stream` | an end marker without a start ends the turn (2654, 7333) |
| `RawTextReturned` | `stream` | a block that does not parse is taken out of the reply's text (4129, 2989) |
| `StopsHeld` | `stream` | a stop sequence that starts inside the thoughts or inside a marker cuts what was already sent, where 888-890 says it is held back (4062) |
| `TrackerAgreesSplit` | `stream` | a token that ends in the first byte of a parameter's closing tag makes the incremental recognizer pass over the tag (3676) |
| `Settings <- UnpackedTape`, `AttendsExactly` | `gpu` | a tape over unpacked ratio-4 rows replays the raw window of its capture (`gpu.inc` 4932, `cuda.cu` 1747) |
| `ScoreCap = 1`, `AttendsExactly` | `gpu` | with more compressed rows than the score buffer holds (7936, a ratio-128 layer past a million tokens) a decode step launches the online kernel with one token at position 0 (`ds4_cuda_dispatch2.cuh` 563-583); its first raw position `pos0 + n_tokens - n_raw` wraps below zero (`ds4_cuda_attention.cuh` 1142, 1157), so no row of the window is read |
| `RowsWhole` | `gpu` | the state kept after a ratio-4 prompt that ends inside a block is its last four tokens as the block before and nothing as the current one (`gpu.inc` 3015-3076), so the next row misses tokens, where the comment there promises the same rolling window; `RowPool` says which tokens the row has |
| `RowsRotated`, `TapeCurrent` | `gpu` | a batch rotates its compressed rows for consecutive positions instead of the first of each block (`ds4_cuda_rope.cuh` 69); a tape is taken for current after a new prompt that ends where the last one was used |
| `ScalesFreed` | `gpu` | the scales an NVFP4 decode allocates are not freed (`ds4_cuda_moe_dispatch.cuh` 663, 704) |
| `Processes <- ManagedDraft`, `WeightsRead` | `load` | mapping a draft model frees the managed memory the first one is read from (`cuda.cu` 1438) |
| `PiecesAsListed` | `load` | several spaces before a word are cut otherwise than by the pattern `\s+(?!\S)` at `ds4_tokenizer.c` 386 (435); `SpaceLeftOver` says exactly when |

Others are part of the properties that hold, as exceptions named exactly.
`PairsSummedOnce`: a launch of NVFP4 experts without tiles or direct sum has no down kernel,
clears `ok` (`ds4_cuda_moe_dispatch.cuh` 525), overwrites it with the result of the launch
(638) and sums scratch (641) with success; Q4_K experts, which the weights module accepts
(`ds4_weights.c` 245), are read by the IQ2 and Q2 kernels in a batch; `TILE4` with NVFP4 and atomic sums adds some pairs
twice. `Delivered`: arguments that are no JSON are streamed as they are and sent whole as
`{}`; a stop sequence that ends the thoughts leaves the reasoning sent at all of the thought (`ThoughtCut`),
or the first bytes of `</think>` unsent. A request without tools shows blocks as text.

Seen while reading, not modelled: the eight-head online kernel for mixed rows stages rows as
the decode kernel does, and drops rows beyond 7936; a mixed prefill kernel has room for 512
scores; padding misaligns the
half-float part of a packed row when `n_nope + n_blocks` is even; " 漢" can become one
piece, where `ds4_tokenizer.c` 354-356 says such characters are isolated first; a
span that is readable through the map but not cached makes startup give up
(`cuda.cu` 1017, 1609); a cache file longer than `cold_max_tokens` is deleted when it is
loaded, so a prefill that fails right after loses it (`server.c` 6187);
`kv_cache_rewrite_tool_map()` may let a file grow without an eviction (5897).

## 7. Plan

Done: the request threads, the session, the disk cache with `generate_job()`, the
thread pool, tool memory, streaming and parsing of a turn, the layer of the graph executor with
speculative verification, the kernels' choice of rows, tiles and experts, weight memory, and
the tokenizer; proofs for the threads, the session, the cache, the pool, tool memory, the staging
kernels, the indexer's scores, packed rows, the routed experts, a layer's compressed rows and attention, and
weight memory. Next, in this order:

1. Proofs: `TextKept`, which would discharge `TokenizerExact`.
2. `ToolCanonical`: `canonicalize_tool_checkpoint()` in `KVServer`, with the tool map of the
   files it stores, which composes `KVServer` and `ToolReplay`.
3. The draft model's cycle, as a refinement of `Session`'s `Eval` over several layers.
4. The instance lock with two processes, and the command line tools' interrupts.
5. The CPU session's prefill as a second implementation of `SyncStep`.
