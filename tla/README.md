# Verification of Qwen3.cpp

TLA+ modules for the parts of Qwen3.cpp whose correctness depends on order,
position or ownership rather than on arithmetic: the streaming key/value cache
and the loop that drives it, the parallel loops of a block, the stream of CUDA
kernels and the threads inside them, the model file shared by two programs, the
tokenizer, and the memory behind the raw pointers. TLC checks small instances;
the generation loop and its cache, the kernel stream, the parallel loops, the two
reduction kernels, the model file and the ownership of memory are proved with
TLAPS for every size.

Paths below are relative to the repository (`src/backend/...`, `include/...`).

## 1. Inventory of the system

Qwen3.cpp is one process running one model. `convert.py` writes `Qwen3.bin`
from a checkpoint; `qwen3` (`src/main.cpp`) indexes that file, copies the
weights into blocks, and answers one request; as a library, a `Model` answers
any number of requests one after the other.

| Component | State | Operations | Talks to |
| --- | --- | --- | --- |
| Generation loop (`model.cpp` Generate, Prefill\*, ForwardToken\*) | `hidden_state_`, `normalized_state_`, `logits_` of the Model; `pos`, `token`, `result` of a call | chunked prefill, decode, argmax or sampling, callback | blocks, sampler, the caller's `on_token` |
| Key/value ring (`model.cpp` 240-248, the same on the GPU) | none: arithmetic on the position | num_sink, kv_pos, kv_len | caches of the blocks |
| Transformer block (`inference.cpp`, `layers.cpp`) | caches `k_`, `v_`, weights | ForwardPrefillCPU/GPU, ForwardCPU/GPU, ResetCache | State (activation buffers), the OpenMP team, kernels |
| CPU layers (`layers.cpp`) | none | rmsnorm, matmul, rope, attn, ffn, softmax | the team |
| CUDA kernels (`infer.cu`) | shared memory of a thread block | matmul, norms, rope, scores, softmax, argmax | the default stream |
| CUDA wrappers (`infer.cu`, `infer_stub.cpp`) | device memory, the default stream | launch, upload, blocking download, allocate, free, synchronize | all GPU paths |
| Converter (`convert.py`) | the file it is writing | header, tensor records, reordering of q and k for rope, tokenizer tensors | the loader, through the file |
| Loader (`loader.cpp`, `model.h`) | `tensors_`, the index | header and records read once, each payload by opening the file again | InitializeInference, Tokenizer |
| Ownership (`model.cpp`, `layers.cpp`, `state.h`) | raw pointers of Model, Block, State | build, move, release | exceptions of every constructor |
| Sampler (`sampler.cpp`) | random generator | Sample, Greedy | generation loop |
| Tokenizer (`tokenizer.cpp`, tables from `convert.py`) | vocabulary, merge ranks, special tokens | LoadVocabulary, LoadMerges, Encode, Decode | main, the model file |
| Config, JSON (`loader.cpp`, `config.h`) | `Config` | parse, validate ranges | everything |
| Command line (`main.cpp`) | `Options` | parse, run | Model, Tokenizer |

What is hard here, and what makes each part correct:

* **Cache and loop.** Nothing resets the caches, `logits_` or the activations
  between requests, and any request may end by an exception half way through a
  block. So the correctness of an answer rests on position arithmetic alone:
  attention must read rows of this request only, all of the past while it fits,
  then the sinks and the most recent rows, each key at its due distance
  although the keys of the sinks are turned in place, once per step and block.
  A token must be sampled from the logits of the last position.
* **Parallel loops.** The workers of a loop must not touch each other's rows,
  and each loop must find what the one before has written.
* **Kernel stream.** A launch returns at once. The host goes on with its own
  control flow, reads results and, on any exception, frees the State whose
  buffers queued kernels still use. Buffers are reused between steps, so order
  in the stream, blocking downloads and the wait inside cudaFree are all that
  keeps a result from being read early or memory from being freed early; and
  blocks of one grid share buffers at offsets computed from a row number.
* **Kernels.** Shared arrays are used in several phases; barriers must separate
  the phases and be reached by all threads. What the threads compute has to be
  what the CPU layers compute, on weights whose order the converter chose.
* **Model file.** The layout is agreed by hand between two languages, the file
  is written in place, and it is read again for every tensor: a partial file
  must never be served and a complete one never refused.
* **Tokenizer.** The text is cut by hand-written code that stands for a regular
  expression, special tokens may begin alike, merges apply by rank to a list
  that changes, and the token table crosses two languages with escapes.
* **Ownership.** Moves and throwing constructors must free everything once.

`PROJECT.json` lists every hazard at its line with the properties that cover
it, and those that nothing covers yet.

## 2. Modules

| Module | Models | Correspondence |
| --- | --- | --- |
| `KvRing` | num_sink, kv_pos, kv_len | one operator each, for any cache size and number of sinks |
| `StreamingAttention` | abstract: what a cache promises, without a cache | - |
| `Generate` | a Model's requests: Generate, Prefill\*, the blocks' caches, exceptions | one action per step between points where the code branches, throws or calls out; variables carry the code's names |
| `MCGenerate` | small prompts and limits for TLC | - |
| `Lemmas_proof` | lemmas shared by the proofs: division, offsets `row * width + column`, powers of two, induction over the numbers, finite sets, sequences and `FlattenSeq` | - |
| `Generate_proof` | arithmetic of the ring, the inductive invariant, the theorems | - |
| `GpuStream` | Generate on the GPU: host, default stream, device memory | one action per launch, synchronization, download, free and exception of the host; one per thread block of the oldest kernel; memory by element at the kernels' offsets |
| `GpuStream_proof` | its invariant and theorems | - |
| `PrefillTeam` | ForwardPrefillCPU and the layers it calls, by an OpenMP team | one action to take an iteration, one to have executed it, one for the implicit barrier; memory by element at the code's offsets |
| `PrefillTeam_proof` | its invariant and theorems | - |
| `ThreadBlock` | the threads of one block and `__syncthreads()` | what the three modules below share |
| `SoftmaxRows` | softmax_rows_kernel | a process per thread, an action per segment between barriers |
| `ArgmaxKernel` | argmax_kernel, against Sampler::Greedy | the same |
| `KernelThreads`, `MCKernelThreads` | matmul_tiled, matvec_warp, qk_norm_rope_cache_kernel, rotate_sink_tokens_kernel, against the CPU layers and convert.py's order of rows | the same; operators for the CPU layers |
| `Reductions_proof` | the invariants and theorems of these three | - |
| `ModelFile`, `MCModelFile` | convert.py, the indexing and loading of Qwen3.bin | the file byte by byte, a byte known by its field; one action per write, record and tensor |
| `ModelFile_proof` | the layout of the file, its invariant and theorems | - |
| `Tokenizer`, `MCTokenizer` | convert.py's token table, LoadVocabulary, LoadMerges, Encode, Decode | tables and searches as operators; an action per load, per special token found, per piece and per round of merges |
| `Tokenizer_proof` | what its tables and searches return, its invariant and theorems | - |
| `Ownership`, `MCOwnership` | InitializeInference, Block's move, State, the destructors | one action per `new`, move, destructor and exception |
| `Ownership_proof` | its invariant and theorems | - |

How they fit together: `Generate` EXTENDS `KvRing` and instantiates
`StreamingAttention` (as `Promise`) with the refinement mapping *length of a
layer* = `start + rows` once the layer has executed the step in progress, else
`start`, and *view* = what its last attention read. `Generate` takes a whole
block as one step; `PrefillTeam` is the justification on the CPU (`ChunkAtOnce`
is what `StoreChunk` and `AttendChunk` say), and `GpuStream` on the GPU
(`HostReadsLastForward`: what the host reads is what all kernels of the last
forward have computed in order). `GpuStream` EXTENDS the same `KvRing`. It takes
a thread block as one step, by what it reads and writes; inside, `SoftmaxRows`,
`ArgmaxKernel` and `KernelThreads` interleave the threads. They may take one
block at a time because `GpuStream` shows the blocks of a launch apart
(`BlocksApart`). `Generate` lets the logits choose any token; `ArgmaxKernel`
shows that at temperature 0 both devices choose the same. `ModelFile` carries
tensors as opaque payloads, `Tokenizer` looks into those that hold the tables.

Abstractions worth knowing when reading the modules against the code:

* A cache row is *(request, position, how many times its key was turned since
  it was stored)*. Rotary attention sees only the difference between the
  position of the query and the one the key is turned to, so turning is
  counting. That the numbers in a row are right is arithmetic and left out, as
  is the rounding that repeated turning in bf16 adds.
* Which token the logits and the generator favour is nondeterministic, as is
  whether logits are finite (`LogitsRefused`).
* On the CPU, callers are assumed to pass tokens of the vocabulary: PrefillGPU
  checks for others, PrefillCPU does not and would read outside the embedding.
  `qwen3 --tokens` can break this assumption; it is listed as a hazard.
* In `PrefillTeam` an element stands for a whole head (or, in rows of `x`, for
  the row); iterations use these alike. The loops the code collapses down to
  single numbers of a row (matmul_cpu, the residual additions) are taken by row
  or head: each number is written by one iteration and no other of the loop
  reads it. Reads and writes of an iteration are one step, which loses nothing
  where `RaceFree` holds.
* In `SoftmaxRows` a value is its provenance: which scores a maximum has seen,
  how often a sum has counted each exponential.
* In `GpuStream` an element of memory stands for a head or a row and holds which
  launch wrote it. A block that reads anything but what its place in the
  forward demands writes `Garbage`, which spreads to the logits; so one
  invariant about what the host downloads speaks of every read on the way. A
  block of the model is a row or head of the launch. The grids of the products,
  the attention output, the sinks and the elementwise kernels are cut otherwise,
  finer or coarser; their blocks write elements of their own and read none that
  another writes, so the cut does not matter. A failed CUDA call aborts the
  process and is left out; weights, which nothing writes after loading, are not
  part of the memory. `rotary` is the `rotary_dim` of the model that was loaded;
  with 0 no sink is ever turned (`SinksTurned`).
* In `KernelThreads` a sum is the bag of its terms, so the order of additions,
  which differs between the devices, does not matter and a term lost or counted
  twice does; float formats are left out.
* In `Tokenizer` a text is a sequence of bytes, with bytes from 128 on counted as
  letters, as IsLetter does (section 6); a symbol of `tokenizer.json` is the
  sequence of its code points.
* In `ModelFile` shapes and names are short, the JSON metadata is one opaque
  field, and nobody converts a second time over a file being loaded.
* `Ownership` is the CPU: a failed CUDA allocation aborts the process.

## 3. Runs

| Run | Instance | Shows |
| --- | --- | --- |
| `generate_cpu` | 2 blocks, 6 rows, 4 sinks, chunks of 4, prompts 0 to 7, limits 0, 1, 5, 2 requests | the properties of section 4, on a CPU model |
| `generate_gpu` | 1 block, 3 rows for 4 sinks, chunks of 2, unknown prompt tokens | the same where the number of sinks is cut to leave one row for the ring, and a later chunk is refused |
| `prefill_team` | 2 workers, 2 rows from position 1, 4 heads on 2 key/value heads, cache exactly full | no race, no access out of bounds, result as in one step |
| `softmax_rows` | 4 threads, 5 scores | the sum counts each exponential once; the kernel ends |
| `softmax_maximum` | the same | **violated**: see section 6 |
| `argmax` | 4 threads, all rows of 1 to 5 logits over 3 values | the index is the one `std::max_element` gives; the kernel ends |
| `model_file` | 2 layers of weights, tied and untied, a conversion that stops after any byte or is still running | what is loaded is what was converted; partial files are refused, complete ones never |
| `model_file_skip` | the same | **violated**: see section 6 |
| `tokenizer` | texts of up to 5 bytes over `a b` with every table of up to 3 merges and one not in training order; up to 4 of 9 bytes of every class; up to 4 fragments of special tokens; up to 4 bytes the table escapes | tables reach memory unchanged; nothing of a text is lost; splits as the pattern says, merges by rank, special tokens whole; refuses only what the vocabulary lacks |
| `gpu_stream` | 2 blocks, 2 heads on 1 key/value head, cache of 3 rows (2 sinks, a ring of one), chunks of 2, prompts 1 and 3, 3 tokens, greedy or not, with and without rotary dimensions | the host reads what the last forward computed; no kernel outlives its State; blocks apart and in bounds; every request returns |
| `kernel_threads` | tiles of 2 by 2, blocks of 4 threads, warps of 1, 2, 4; heads of 3, 4 and 10 elements, rotated wholly, partly or not | products, heads and sinks as on the CPU; the pairs turned are those of the checkpoint |
| `ownership` | 3 blocks, 3 requests, exceptions wherever the code can throw | nothing freed twice or used after; only what a throwing constructor held is lost |

Why the bounds are enough:

* A cache of six rows with four sinks has a ring of two rows; a prompt that
  fills it and four forwarded tokens wrap the ring twice, and a shorter one
  crosses the point where it becomes full. The GPU instance has a ring of one
  row. Prompt lengths run from empty to one too long, over chunks that divide
  them and chunks that do not. Two requests suffice for stale rows: what a
  request can meet is a cache written by others, whichever. Two blocks suffice
  for "some blocks are one step ahead". The theorems remove these bounds.
* Two workers suffice for races, which are between two iterations; grouped
  heads and a chunk not starting at 0 exercise each offset; the chunk ends at
  the last cache row.
* Four threads give two rounds of each reduction, five elements give one thread
  two and the others one; rows shorter than the block leave threads idle.
* Three blocks put a failure before, between and after finished blocks.
* In `gpu_stream` the prompt of 3 takes a full and a short chunk and fills the
  cache; the two tokens forwarded after it overwrite the ring's only row twice
  and turn the sinks a second time, which is when a turn must find the previous
  turn's result. The host may be ahead of the device by a whole forward and
  more. Layer 2 is the first whose input is another layer's output. One request
  suffices, since a request ends with an empty stream (`Owned` is proved).
* The shapes of `kernel_threads` have rows and columns below, at and above the
  tile, the block and the warp; a head of 10 gives threads two or three elements.
* Three merges are the least that make a product of a product and a competing
  pair; five bytes hold two overlapping occurrences and a rest.

Deadlock is checked except in `Generate` and `GpuStream` (the bounded callers
may stop calling), `ModelFile` (both programs end) and `Ownership` (the model is
destroyed or has failed). `KernelThreads` and `Tokenizer` stutter once they are
done, so a barrier some thread never reaches, or a text that gets stuck half
encoded, is a deadlock TLC reports.

Fairness. `Generate` assumes `WF_vars(Step)`: Generate is a synchronous call on
one thread, which runs on; a callback is assumed to return or throw. Callers
are not fair. `GpuStream` assumes `WF_vars(Host)` for the same thread and
`WF_vars(Device)`: a device with kernels in its stream runs some block of the
oldest. The single kernels assume weak fairness of each thread: the threads of
a resident block are all scheduled, and a block here is at most 256 threads.
The other modules state safety only and have no fairness.

## 4. Properties

Of `Generate`:

* `AttendsWindow`: what each block's last attention read is exactly the window
  of streaming attention of this request.
* `StreamsAttention`: the refinement of `StreamingAttention`.
* `EvictsOldest`: a row of the running request is overwritten only when the
  cache is full and it is the oldest row that is not a sink.
* `SamplesLastPosition`, `ForwardsAllButLast`, `StreamIsAnswer`: position,
  logits, answer and what the callback has been given stay in step, through
  end of text, limits and exceptions.
* `PrefillNeverRefused`: Generate's check and stride imply the checks of
  Prefill and of every block, and fit the activation buffers.
* `EveryCallEnds`: every request ends.

Of `GpuStream`:

* `HostReadsLastForward`: the token or logits downloaded come from the last
  forward of this request, each kernel of which has read what the one before it
  in the same block, the block before, or (in a cache) the forward of the
  position the row is due to hold has written; each sink turned once more.
* `OwnBuffers`: no kernel is left to run when its State is freed, also when an
  unknown token, the sampler or the callback throws with kernels queued.
* `BlocksApart`: blocks of one launch stay in their buffers and never write what
  another uses: the row arithmetic of queries followed by keys, of score rows
  of `max_seq_len`, of cache slots.
* `CallReturns`: every request returns with its memory freed. A launch over an
  empty grid would abort, so it also says that `rotate_sink_tokens` has to skip
  the launch without sinks and in a model without rotary dimensions.

Of `KernelThreads`: `ProductsMatchCpu`, `HeadsMatchCpu` (both with threads in any
order between the barriers: tiles are loaded again while others add, heads are
normalised in place) and `TurnsSplitHalves` (the neighbours the kernels and
rope_cpu turn are the coordinates `j` and `j + rotary_dim / 2` of the checkpoint,
in queries, keys and the weights of their norms).

Of `Tokenizer`: `TablesSurvive` (from the checkpoint through convert.py's
escapes to memory), `NothingLost` (what is done, in work and left is the text, at
every step; at the end Decode gives the text back), `SplitsByPattern` (the one-pass
splitter against the regular expression of Qwen as sets of match lengths, both
with the code's classes of bytes),
`MergesByRank` (merging all occurrences in a round gives what merging one at a
time by rank gives, for tables in training order), `SpecialsStayWhole` (no special token
is cut by an earlier or shorter one) and `RefusesOnlyIncomplete`. For a table
that is not in training order the two ways of merging can differ, and
`MergesByRank` says nothing.

Of the others: `RaceFree`, `InBounds`, `ChunkAtOnce` (PrefillTeam); `RowSum`,
`AllNormalised` (SoftmaxRows); `MatchesGreedy`, `Answers` (ArgmaxKernel);
`LoadsWhatWasConverted`, `ServesOnlyComplete`, `RefusesOnlyPartial`
(ModelFile); `OneOwner`, `LosesOnlyUnfinished`, `DestructorReleasesAll`
(Ownership). Each is stated in words above its definition, and each is broken
by a plausible bug in the code, kept beside the definition it replaces as
"Mutant of ...".

`LosesOnlyUnfinished` describes what the code does lose: a Model whose
constructor throws leaks its own tensors, a Block or State whose constructor
runs out of memory leaks what it had allocated; finished blocks are safe.

## 5. Proofs

The theorems hold for every context length, number of sinks, rotary dimension, prefill batch, number
of layers, heads, vocabulary and set of requests, team of workers, block of
threads, row of scores or logits, list of weights and buffers, and for every
table of tokens and merges and every text, and those of `KernelThreads` for every
tile, batch, size of a matrix, head, rotary dimension and warp that the launches can
pass. The named ASSUMEs of the modules are
all that is used. "Every text" in `CutsByPattern` is every text with bytes from 128
on read as letters; section 6 says where Qwen's pattern itself differs.
`MaxSeqLen` positive is what `main.cpp` enforces; a block of a
power of two of threads is what the reductions in `infer.cu` need and their
launches pass (256); `LaunchesAssumption` gives a launch the sizes ValidateConfig
accepts, and warps that fill the block; that the names of a layer's weights differ is so in
`tensor_plan`; `InstancesAssumption` says only that tokens, operands of merges
and texts are strings of bytes.

| Theorem | Property |
| --- | --- |
| `TypeCorrect` | `TypeOK` |
| `WindowCorrect` | `AttendsWindow` |
| `PrefillAccepted` | `PrefillNeverRefused` |
| `ImplementsStreaming` | `StreamsAttention` |
| `EvictionCorrect` | `EvictsOldest` |
| `AnswerStreamed` | `StreamIsAnswer` |
| `LastPositionSampled` | `SamplesLastPosition` |
| `AllButLastForwarded` | `ForwardsAllButLast` |
| `Owned` (`GpuStream_proof`) | `OwnBuffers` |
| `Apart` (`GpuStream_proof`) | `BlocksApart` |
| `HostReads` (`GpuStream_proof`) | `HostReadsLastForward` |
| `TeamRaceFree` (`PrefillTeam_proof`) | `RaceFree` |
| `TeamInBounds` (`PrefillTeam_proof`) | `InBounds` |
| `TeamChunkAtOnce` (`PrefillTeam_proof`) | `ChunkAtOnce` |
| `SumsTheRow` (`Reductions_proof`) | `RowSum` |
| `ArgmaxIsGreedy` (`Reductions_proof`) | `MatchesGreedy` |
| `KernelsProduce` (`Reductions_proof`) | `ProductsMatchCpu` |
| `HeadsAreCpus` (`Reductions_proof`) | `HeadsMatchCpu` |
| `KernelsSplitHalves` (`Reductions_proof`) | `TurnsSplitHalves` |
| `LoadsConverted` (`ModelFile_proof`) | `LoadsWhatWasConverted` |
| `ServesComplete` (`ModelFile_proof`) | `ServesOnlyComplete` |
| `RefusesPartial` (`ModelFile_proof`) | `RefusesOnlyPartial` |
| `Owners` (`Ownership_proof`) | `OneOwner` |
| `LostByConstructors` (`Ownership_proof`) | `LosesOnlyUnfinished` |
| `DestructorComplete` (`Ownership_proof`) | `DestructorReleasesAll` |
| `TablesReadBack` (`Tokenizer_proof`) | `TablesSurvive` |
| `EncodeKeepsText` (`Tokenizer_proof`) | `NothingLost` |
| `SpecialTokensWhole` (`Tokenizer_proof`) | `SpecialsStayWhole` |
| `RefusalsJustified` (`Tokenizer_proof`) | `RefusesOnlyIncomplete` |
| `CutsByPattern` (`Tokenizer_proof`) | `SplitsByPattern` |
| `RoundsMergeByRank` (`Tokenizer_proof`) | `MergesByRank` |

The argument. `AttendsWindow` is not inductive: what attention reads depends on
every row, including rows written long ago. The strengthening is `IInv`
(`Generate_proof`):

* `CacheInv` gives the contents of every row below the layer's length `p` in
  closed form: position `RowPos(x, p)`, turned `RowRotations(x, p)` times. It is
  stated per layer, since in the middle of a step the layers before `layer` have
  `start + rows` positions and the others `start`.
* `Control` says where the loops stand: the cursor against the lengths, the
  position against the lengths.

`Generate_proof` first proves the arithmetic of `KvRing`: the row
after a row (`NextRow`), how one more token changes the closed form
(`RowsAfterToken`), and that the rows of a full cache are the window
(`RowsOfFullCache`). `PrefillBlockInv` and `ForwardBlockInv` carry `CacheInv`
over the two actions that write caches; the other actions keep it
(`CacheFrame`). `ImplementsStreaming` follows action by action: a call maps to
`Restart`, a block step to `Extend`, the rest to stuttering. `EvictionCorrect`
adds `OlderBeyond`, about rows of the current request beyond the length, and
`AnswerInvariance` adds `AnswerInv`, which ties `pos`, `logits` and `streamed` to
the answer, and the last three theorems about `Generate` follow from it.

The invariant of `GpuStream_proof` is `GInv`. `OwnBuffers` alone is not inductive:
it has to say of the kernels still to be launched too that they are the running
request's, and that none are left when the host unwinds. `BlocksApart` speaks of
the kernel at the head of the stream, so `GInv` says of every launch, queued or
to come, that its arguments fit (`Fits`): its rows the activation buffers, its
rows from `kv_pos` on and what it attends to the cache. `ScriptType` and
`ScriptsFit` show it of the scripts of a chunk and of a token, from the prefill
loop's arithmetic and the bounds on `KvPos`, `KvLen` and `NumSink`;
`KernelWithin` and `KernelApart` then go through the kernels by name, over
`Offsets` of `Lemmas_proof`: distinct (row, column) pairs have distinct offsets.

`HostReads` needs more: what the elements of device memory hold after any part of
a forward. `AnswerInv` adds that the launches still to finish follow one another
as the code issues them (`QueueInv`, `Follows`), and `DeviceAt(Due)`, where `Due` is
the kernel next to finish, or the state at rest after the last: an element a block of `Due` has
already written holds its stamp, and every other element that the rest of the
forward needs (`Needed`) holds what the launches before `Due` left there (`Held`),
in a cache the forward of the position its row holds. The activation buffers are used
again by every layer, so both are stated with the layer, the call and the
position of the kernel. From `DeviceAt` every block finds exactly the stamps it
should, whichever of the others have run (`BlocksApart` is used here).

The invariant of `PrefillTeam_proof` is `TeamInv`: a worker executes only an
iteration of the current loop, and no iteration is taken twice. What remains is
about one loop at a time: `RaceFree` and `InBounds` follow, loop by loop, from
`Offsets` and `Grouped` (every head has a key/value head within range).
`TeamChunkAtOnce` adds `MemoryInv`: an element holds the name of the current loop
if an iteration executed so far writes it, and what the loops before left there
otherwise (`Held`); and `SeenInv`, that every attention iteration executed has seen
in the cache exactly the rows of its own position and of the earlier ones.
`RaceFree` is used here: what an iteration reads, no other iteration of its
loop writes.

The invariants of the two reductions in `Reductions_proof`, one for each kernel, have
the same two parts. `Rounds`: threads between two barriers are at most one round apart, and
the number of barriers a thread has reached gives its stride. `Slots`: a slot of
the shared array stands for the class of elements whose index leaves its number
as the remainder by the current width (`Summed`, `Covered`), and at width 1 slot 0
stands for all. Halving the width joins two classes (`ResidueSplit`); here the
block must be a power of two. In `ArgmaxKernel` ties make the merge order visible,
so a slot holds the greedy choice of its class, smallest index first. In
`SoftmaxRows` the second reduction begins while slow threads still read the result
of the first. `LockStep` relates the phases and strides of two threads by the
barriers they have reached, so that no thread works on maxima while another
adds; it says nothing of the read of the maximum itself, and so `RowSum` is provable
while `RowMaximum` is violated.

The kernels of `KernelThreads` have one invariant each, since what they promise is
said of the end of a launch only. All say the same of control (`KernelControl`): the
block that runs has been taken from the grid, and its threads are at steps of the
kernel or have returned. `Over(b, t)` says that thread `t` of block `b` has returned,
and everything stored is a function of `Over`:

* `TiledInv` and `MatvecInv`: an output holds the whole sum once its thread has
  returned (`ProductStores`). In matmul_tiled, where a tile is loaded over the last
  while other threads still add, `TilePlace` ties each thread's barriers to the
  column it has reached and says which tile its own two elements of the shared
  arrays belong to; threads at most one barrier apart then find the tile they want
  (`TileSum`), and a sum holds every column before it once (`TiledSums`). In
  matvec_warp the lanes of a warp are a reduction without barriers (`WarpAfter`,
  `WarpAdds`); the size of a warp divides the block, hence is a power
  of two (`WarpSize`).
* `HeadsInv`: the reduction again (`HeadRounds`, `HeadSlots`), over a head that other
  threads overwrite as soon as they are past the last barrier. A slot is filled
  from what is raw, which holds because no thread returns before all have reached
  the first barrier, and a thread turns only its own pairs (`OwnPairs`), which are
  raw until it does. An element of a buffer belongs to one block and one thread
  (`ElementsApart`), and the keys' place in the cache follows from the head's.
* `SinksInv`: a pair of a sink is turned when its thread has returned, and what is in
  no pair is never touched.

When all blocks are through, `Over` holds everywhere and the buffers are a closed
form of the launch (`HeadsClosed`). `HeadsAgree` and `SinksAgree` show it equal to that
of the CPU: for heads of an even size, a pair that rope_cpu counts from the start
of a token is the pair of the head (`RopePlace`). `KernelsSplitHalves` needs no
even size: it goes from the closed form through `CheckpointRow`.

`ModelFile_proof` begins with the layout. `FlattenSeq` is a recursive function, and
the lemmas about it are inductions, for which `Induction` is derived from the
well-foundedness of the numbers with the property given as a set. `ContentLayout` gives
the offset of every record and payload of the plan. The invariant `FileInv` says
that the stream that builds the index stands at the start of a record, that the
index is that of a beginning of the plan at the offsets of the layout, and that what
is loaded was indexed and lies within what has been written. A record can be
read as no other tensor's (`NextRecord`), because its bytes are its own; and since the
last tensor of the plan is one of the tokenizer's, serving means that the file
was written to its end.

The invariant of `Ownership_proof` is `OwnInv`. Neither `OneOwner` nor
`LosesOnlyUnfinished` is inductive: that a move finds an empty place in `blocks_`,
and that an exception finds the local block empty or unfinished, depends on where
the program is. `Holdings` says whose allocations each object may hold at each
point and when it holds none, from which `OneOwner` follows; `Unfinished` says what a
constructor would lose if it threw now: at most the first cache of a block, and
the first `n` buffers of a State, short of the last. `Allocated` and `Unwound` carry
this over a `new` and over the destructors an exception runs.

`Tokenizer_proof` is half about operators and half about the loop of Encode. The
loops of the code are recursive functions here, and what one computes for every
input takes an induction: first that a function satisfying its equation exists, over
the part of the domain where it is already defined, then its value place by
place. That gives `AlphabetInverts` and `TokensSurvive` (the byte alphabet and the
two-pass escape of convert.py against the one-pass reading in C++),
`MergeKeepsText` (a round of merges changes where symbols end, not what they spell) and
`Splits`: the piece PreTokenize cuts is the longest match of the first alternative
that matches, one case per branch of the code. The invariant over the steps
is `TextInv`. `NothingLost` is nearly inductive. `SpecialsStayWhole` speaks of the
moment before a piece is cut and has to be carried through the rounds of merges
(`NextWhole`); what makes it true is `FirstAndLongest`, that the special token Encode
picks is at the first place where any stands, and the longest there.
`RefusesOnlyIncomplete` needs `SymbolsMerged`: every symbol in work is a byte of the
text or the product of a merge. Nothing is assumed of the vocabulary: tokens may be
empty, repeated, or hold the bytes 0, 7 and 8.

`MergesByRank` compares two recursions that merge in a different order, and says
something of the end of a piece only. `RankInv` says it of every point between
rounds: the symbols are those of merging one at a time after some number `k` of
merges. A round replays as further such merges (`RoundReplayed`): half way
through it, the symbols are those the round has rewritten, followed by those
it has not reached (`Midway`), and the pair of the round is still the one of lowest
rank, with its leftmost occurrence next. For a pair that a merge makes holds the
product of that merge, and in a table in training order a merge that takes a
product was learnt later. Once no pair is ranked, merging one at a time stands
still (`OneByOneEnds`), so it ends where the rounds do.

Only model-checked: liveness (`EveryCallEnds`, `CallReturns`, `AllNormalised`,
`Answers`), which is beyond what the prover handles. Every invariant of a passing
run has its theorem.

## 6. Where code and text disagree

* `softmax_maximum`. softmax_rows_kernel reads the maximum of the row from
  `scratch[0]` after the last barrier of the first reduction, and thread 0
  stores its partial sum there before the next one. A thread of a slower warp
  can therefore subtract another number than the maximum. A second barrier
  after the read would separate them. `RowSum` still holds: each exponential is
  counted once, over whatever was subtracted.
* `model_file_skip`. SkipBytes means to report "Unexpected end of Qwen3.bin
  while skipping tensor payload", but seeking past the end does not fail, so a
  file cut in its last payload is indexed to the end. `ServesOnlyComplete`
  shows that loading finds out: every tensor of the file is wanted.

The two runs above are violations by the code as it stands. Two more
observations have no run. IsLetter takes every byte from 128 on for a letter, so
PreTokenize agrees with the `\p{L}` of Qwen's pattern only where the text outside
ASCII is letters: at fullwidth punctuation, digits of other scripts or an
ideographic space Qwen cuts and PreTokenize does not. `SplitsByPattern` and
`CutsByPattern` read the pattern with the code's class and do not see this; it is
listed as a hazard. And ValidateConfig accepts an odd `head_dim`, with which
rope_cpu would turn pairs that straddle two heads while the kernel treats the
odd element by itself. No published model has one; it is listed as a hazard.

## 7. Not modelled

* Floating-point arithmetic, AVX code, bf16 and f16 formats. What a NaN among
  the logits does on the GPU at temperature 0, where nothing validates them.
* Parsing of JSON (config, `tokenizer.json`), the UTF-8 form of the byte alphabet,
  FormatChatPrompt, options, printing, statistics: text processing without state.
* The sampler's random choice: any token. Its cumulative sum adds the same terms
  in the same order as the total, so its last line is reached by rounding of the
  random number alone.
* The threads of the plain norm, the attention scores and outputs, and the
  elementwise kernels: they have no phase that `KernelThreads` and `SoftmaxRows`
  lack. What they read and write, block by block, is in `GpuStream`.
* CUDA calls that fail: the process aborts.
* Replacing the file while it is loaded: nothing in the code guards against it.
* Moves of a State and move assignment of blocks, and ResetCache: called by tests
  only.

## 8. Plan

Done, in this order because the first decides every answer: `KvRing`,
`StreamingAttention`, `Generate` with proofs; `SoftmaxRows`, `ArgmaxKernel` with proofs;
`PrefillTeam` with proofs; `ModelFile` with proofs; `Ownership` with proofs; `Tokenizer`
with proofs; `GpuStream` with proofs; `KernelThreads` with proofs.

Next modules: moves of State and of Block by assignment in `Ownership`; a second
conversion over a file being loaded, once the loader guards against it.
