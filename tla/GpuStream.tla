----------------------------- MODULE GpuStream -----------------------------
(***************************************************************************)
(* Model::Generate on the GPU.  The host only launches kernels: they wait  *)
(* in the default stream and run one after the other, the thread blocks of *)
(* one in any order, while the host goes on.  It meets the device again    *)
(* where it synchronizes, downloads a result or frees the memory of State. *)
(* Module Generate treats a forward on the GPU as steps of its own; this   *)
(* module is why it may.                                                   *)
(*                                                                         *)
(* Memory is the buffers of Model, State and the caches, element by        *)
(* element at the offsets the kernels compute.  An element holds the name  *)
(* of the launch that wrote it, or garbage if that launch read an element  *)
(* another one should have written last.  One element stands for the       *)
(* head_dim elements of a head, or for a row of x, lin1, lin2 or logits.   *)
(***************************************************************************)
EXTENDS KvRing, Sequences

CONSTANTS
    Layers,            \* config.n_layers
    Heads,             \* config.n_heads
    KvHeads,           \* config.n_kv_heads
    RotaryDims,        \* config.rotary_dim of the models that may be loaded
    PrefillBatchSize,  \* kPrefillBatchSize
    Prompts,           \* bound: lengths of the prompts, none above MaxSeqLen
    TokenLimit,        \* bound: max_generated_tokens
    MaxCalls           \* bound: requests made to one Model

ASSUME GpuAssumption ==
    /\ {Layers, Heads, KvHeads, PrefillBatchSize} \subseteq Nat \ {0}
    /\ Heads % KvHeads = 0
    /\ \A d \in RotaryDims : d \in Nat /\ d % 2 = 0
    /\ Prompts \subseteq 1 .. MaxSeqLen
    /\ {TokenLimit, MaxCalls} \subseteq Nat

VARIABLES
    rotary,   \* config.rotary_dim
    pc,       \* where the host is in Generate
    call,     \* number of the request
    prompt,   \* prompt_tokens.size()
    greedy,   \* temperature == 0
    start,    \* position of the first token of the last forward begun
    rows,     \* its tokens
    produced, \* result.tokens.size()
    script,   \* what the host has yet to launch for this forward
    stream,   \* the kernels launched and not finished, oldest first
    ran,      \* blocks of the first of them that have run
    memory,   \* memory[l]: the stamp of location l
    owner,    \* the request whose State is allocated, 0 for none
    fetched   \* the stamp of the token or the logits last downloaded

hostVars == <<rotary, pc, call, prompt, greedy, start, rows, produced, script, owner, fetched>>
vars == <<hostVars, stream, ran, memory>>

Lesser(a, b) == IF a < b THEN a ELSE b
BatchCapacity == Lesser(PrefillBatchSize, MaxSeqLen)
BatchSize == Lesser(prompt, PrefillBatchSize)
-----------------------------------------------------------------------------
(***************************************************************************)
(* Memory.  Caches have a layer, other buffers layer 0.                    *)
(***************************************************************************)
Size ==
    [x |-> BatchCapacity, final |-> BatchCapacity, logits |-> 1, sampled |-> 1,
     norm |-> BatchCapacity, projected |-> BatchCapacity,
     q |-> BatchCapacity * Heads, out |-> BatchCapacity * Heads,
     k |-> BatchCapacity * KvHeads, v |-> BatchCapacity * KvHeads,
     lin1 |-> BatchCapacity, lin2 |-> BatchCapacity,
     scores |-> BatchCapacity * Heads * MaxSeqLen,
     cacheK |-> MaxSeqLen * KvHeads, cacheV |-> MaxSeqLen * KvHeads]
Caches == {"cacheK", "cacheV"}
OfModel == Caches \cup {"x", "final", "logits"}

At(b, S) == {<<b, 0, n>> : n \in S}
AtCache(b, l, S) == {<<b, l, n>> : n \in S}
Locations ==
    UNION {IF b \in Caches
           THEN UNION {AtCache(b, l, 0 .. Size[b] - 1) : l \in 1 .. Layers}
           ELSE At(b, 0 .. Size[b] - 1) : b \in DOMAIN Size}

Stamp(name, l, c, p) == [by |-> name, layer |-> l, call |-> c, pos |-> p]
Zero == Stamp("zero", 0, 0, 0)
Garbage == Stamp("garbage", 0, 0, 0)
-----------------------------------------------------------------------------
(***************************************************************************)
(* What a forward launches.  A launch copies its arguments.                *)
(***************************************************************************)
Launch(name, l, f, row) ==
    [name |-> name, layer |-> l, call |-> f.call, pos |-> f.pos, rows |-> f.rows,
     row |-> row, kvPos |-> f.kvPos, kvLen |-> f.kvLen, sinks |-> f.sinks]

\* Mutant of SinkLaunch: only the number of sinks is looked at.
SinkLaunchAnyRotary(f) == IF f.sinks = 0 THEN <<>> ELSE <<"rotateSinks">>

\* rotate_sink_tokens returns early without sinks or rotary dimensions.
SinkLaunch(f) == IF f.sinks = 0 \/ rotary = 0 THEN <<>> ELSE <<"rotateSinks">>

\* How many sinks have pairs to turn: total_pairs, which the grid covers, is
\* num_sink * num_kv_heads * (rotary_dim / 2).
SinksTurned(f) == IF rotary = 0 THEN 0 ELSE f.sinks

\* Block::ForwardGPU and Block::ForwardPrefillGPU.
BlockLaunches(f) ==
    <<"attnNorm", "projectQ", "projectK", "projectV", "qkNormRope">>
    \o SinkLaunch(f)
    \o <<"scores", "softmax", "output", "projectOut", "residual",
         "mlpNorm", "gate", "up", "silu", "down", "finalResidual">>

\* ForwardTokenGPU, or PrefillGPU with one embedding_gpu per token.
Script(f) ==
    LET block == BlockLaunches(f)
        end == f.rows + (Layers * Len(block))
        past(n) == n - f.rows - 1
    IN [n \in 1 .. end + 2 |->
          IF n <= f.rows THEN Launch("embedding", 0, f, n - 1)
          ELSE IF n <= end
            THEN Launch(block[(past(n) % Len(block)) + 1], (past(n) \div Len(block)) + 1, f, 0)
          ELSE Launch(IF n = end + 1 THEN "finalNorm" ELSE "classifier", 0, f, 0)]

PrefillScript(p, n) ==
    Script([call |-> call, pos |-> p, rows |-> n, kvPos |-> p, kvLen |-> p + 1, sinks |-> 0])
DecodeScript(p) ==
    Script([call |-> call, pos |-> p, rows |-> 1,
            kvPos |-> KvPos(p), kvLen |-> KvLen(p), sinks |-> NumSink(p)])
-----------------------------------------------------------------------------
(***************************************************************************)
(* The kernels.  A block is a row of a norm or of the attention, a head of *)
(* a projection or of a sink.  The grids of the products, of the attention *)
(* output, of the sinks and of the elementwise kernels cut by outputs or   *)
(* elements instead, finer or coarser than that.  Either way a grid block  *)
(* writes elements of its own and reads none that another one writes, so   *)
(* what they do as one step they would do in any order.                    *)
(***************************************************************************)
Blocks(k) ==
    CASE k.name = "embedding" -> {k.row}
      [] k.name \in {"projectQ", "scores", "softmax", "output"} -> 0 .. (k.rows * Heads) - 1
      [] k.name \in {"projectK", "projectV"} -> 0 .. (k.rows * KvHeads) - 1
      [] k.name = "qkNormRope" -> 0 .. (k.rows * (Heads + KvHeads)) - 1
      [] k.name = "rotateSinks" -> 0 .. (SinksTurned(k) * KvHeads) - 1
      [] k.name \in {"classifier", "argmax"} -> {0}
      [] OTHER -> 0 .. k.rows - 1

KvHead(head) == head \div (Heads \div KvHeads)

\* What the attention of row n of the grid reads of a cache, and its scores.
KvLenOf(k, n) == k.kvLen + (n \div Heads)
CacheRead(k, n) == {(t * KvHeads) + KvHead(n % Heads) : t \in 0 .. KvLenOf(k, n) - 1}
ScoreRow(k, n) == {(n * MaxSeqLen) + t : t \in 0 .. KvLenOf(k, n) - 1}

\* Mutant of KeyRow: the rows of the queries are not subtracted.
KeyRowFromZero(k, n) == n

\* row_in_type of a row of the grid that is a key's.
KeyRow(k, n) == n - (k.rows * Heads)

\* cache_base: the cache row of the token, the head of the key.
CacheSlot(k, r) == ((k.kvPos + (r \div KvHeads)) * KvHeads) + (r % KvHeads)

OfRow(n, heads) == {(n * heads) + head : head \in 0 .. heads - 1}

Reads(k, n) ==
    CASE k.name = "embedding" -> {}
      [] k.name \in {"attnNorm", "mlpNorm", "finalNorm"} -> At("x", {n})
      [] k.name = "projectQ" -> At("norm", {n \div Heads})
      [] k.name \in {"projectK", "projectV"} -> At("norm", {n \div KvHeads})
      [] k.name = "qkNormRope" ->
           IF n < k.rows * Heads THEN At("q", {n})
           ELSE At("k", {KeyRow(k, n)}) \cup At("v", {KeyRow(k, n)})
      [] k.name = "rotateSinks" -> AtCache("cacheK", k.layer, {n})
      [] k.name = "scores" -> At("q", {n}) \cup AtCache("cacheK", k.layer, CacheRead(k, n))
      [] k.name = "softmax" -> At("scores", ScoreRow(k, n))
      [] k.name = "output" ->
           At("scores", ScoreRow(k, n)) \cup AtCache("cacheV", k.layer, CacheRead(k, n))
      [] k.name = "projectOut" -> At("out", OfRow(n, Heads))
      [] k.name \in {"residual", "finalResidual"} -> At("x", {n}) \cup At("projected", {n})
      [] k.name \in {"gate", "up"} -> At("norm", {n})
      [] k.name = "silu" -> At("lin1", {n}) \cup At("lin2", {n})
      [] k.name = "down" -> At("lin1", {n})
      [] k.name = "classifier" -> At("final", {k.rows - 1})
      [] k.name = "argmax" -> At("logits", {0})

Writes(k, n) ==
    CASE k.name \in {"embedding", "residual", "finalResidual"} -> At("x", {n})
      [] k.name \in {"attnNorm", "mlpNorm"} -> At("norm", {n})
      [] k.name = "finalNorm" -> At("final", {n})
      [] k.name = "projectQ" -> At("q", {n})
      [] k.name = "projectK" -> At("k", {n})
      [] k.name = "projectV" -> At("v", {n})
      [] k.name = "qkNormRope" ->
           IF n < k.rows * Heads THEN At("q", {n})
           ELSE At("k", {KeyRow(k, n)})
                \cup UNION {AtCache(b, k.layer, {CacheSlot(k, KeyRow(k, n))}) : b \in Caches}
      [] k.name = "rotateSinks" -> AtCache("cacheK", k.layer, {n})
      [] k.name \in {"scores", "softmax"} -> At("scores", ScoreRow(k, n))
      [] k.name = "output" -> At("out", {n})
      [] k.name \in {"projectOut", "down"} -> At("projected", {n})
      [] k.name \in {"gate", "silu"} -> At("lin1", {n})
      [] k.name = "up" -> At("lin2", {n})
      [] k.name = "classifier" -> At("logits", {0})
      [] k.name = "argmax" -> At("sampled", {0})

(***************************************************************************)
(* The stamp a kernel has to find in an element it reads, from what a      *)
(* forward means: the step before it in the same block, the block before,  *)
(* or, in a cache, the forward of the position the row is due to hold.     *)
(***************************************************************************)
ForwardOf(p) == IF p < prompt THEN (p \div BatchSize) * BatchSize ELSE p
HeldBy(row, last) == CHOOSE p \in 0 .. last : /\ KvPos(p) = row
                                              /\ \A o \in p + 1 .. last : KvPos(o) # row

Source(k, location) ==
    LET b == location[1]
        here(name) == Stamp(name, k.layer, k.call, k.pos)
        row == location[3] \div KvHeads
        stored == Stamp("qkNormRope", k.layer, k.call, ForwardOf(HeldBy(row, k.pos + k.rows - 1)))
    IN CASE b = "x" ->
              IF k.name = "finalNorm" THEN Stamp("finalResidual", Layers, k.call, k.pos)
              ELSE IF k.name \in {"mlpNorm", "finalResidual"} THEN here("residual")
              ELSE IF k.layer = 1 THEN Stamp("embedding", 0, k.call, k.pos)
              ELSE Stamp("finalResidual", k.layer - 1, k.call, k.pos)
         [] b = "norm" -> here(IF k.name \in {"gate", "up"} THEN "mlpNorm" ELSE "attnNorm")
         [] b = "q" -> here(IF k.name = "scores" THEN "qkNormRope" ELSE "projectQ")
         [] b = "k" -> here("projectK")
         [] b = "v" -> here("projectV")
         [] b = "cacheV" -> stored
         [] b = "cacheK" ->
              IF row >= SinksTurned(k) THEN stored
              ELSE IF k.name = "scores" THEN here("rotateSinks")
              ELSE IF k.pos > MaxSeqLen THEN Stamp("rotateSinks", k.layer, k.call, k.pos - 1)
              ELSE stored
         [] b = "scores" -> here(IF k.name = "softmax" THEN "scores" ELSE "softmax")
         [] b = "out" -> here("output")
         [] b = "projected" -> here(IF k.name = "residual" THEN "projectOut" ELSE "down")
         [] b = "lin1" -> here(IF k.name = "silu" THEN "gate" ELSE "silu")
         [] b = "lin2" -> here("up")
         [] b = "final" -> here("finalNorm")
         [] b = "logits" -> here("classifier")

\* A block of the oldest kernel runs; after the last, the kernel is finished.
RunBlock(n) ==
    LET k == Head(stream)
        good == \A l \in Reads(k, n) : memory[l] = Source(k, l)
    IN
    /\ stream # <<>> /\ n \in Blocks(k) \ ran
    /\ memory' = [l \in Locations |->
                    IF l \notin Writes(k, n) THEN memory[l]
                    ELSE IF good THEN Stamp(k.name, k.layer, k.call, k.pos) ELSE Garbage]
    /\ IF Blocks(k) \ ran = {n}
         THEN stream' = Tail(stream) /\ ran' = {}
         ELSE ran' = ran \cup {n} /\ UNCHANGED stream
    /\ UNCHANGED hostVars
-----------------------------------------------------------------------------
(***************************************************************************)
(* The host.                                                               *)
(***************************************************************************)
Init ==
    /\ rotary \in RotaryDims
    /\ pc = "idle"
    /\ call = 0 /\ prompt = 0 /\ greedy = FALSE /\ start = 0 /\ rows = 0 /\ produced = 0
    /\ script = <<>> /\ stream = <<>> /\ ran = {}
    /\ memory = [l \in Locations |-> Zero]
    /\ owner = 0
    /\ fetched = Zero

\* State's constructor allocates and clears; nothing is in the stream then.
Call(n, zero) ==
    /\ pc = "idle" /\ call < MaxCalls
    /\ call' = call + 1
    /\ prompt' = n /\ greedy' = zero /\ produced' = 0 /\ start' = 0 /\ rows' = 0
    /\ owner' = call + 1
    /\ memory' = [l \in Locations |-> IF l[1] \in OfModel THEN memory[l] ELSE Zero]
    /\ pc' = "prefill"
    /\ UNCHANGED <<rotary, script, stream, ran, fetched>>

NextChunk ==
    /\ pc = "prefill" /\ script = <<>> /\ start + rows < prompt
    /\ start' = start + rows
    /\ rows' = Lesser(BatchSize, prompt - start')
    /\ script' = PrefillScript(start', rows')
    /\ UNCHANGED <<rotary, pc, call, prompt, greedy, produced, stream, ran, memory, owner, fetched>>

(***************************************************************************)
(* The host launches and goes on.  A grid without blocks would be refused, *)
(* and check_cuda would abort the process.                                 *)
(***************************************************************************)
LaunchNext ==
    /\ script # <<>> /\ Blocks(Head(script)) # {}
    /\ stream' = Append(stream, Head(script))
    /\ script' = Tail(script)
    /\ UNCHANGED <<rotary, pc, call, prompt, greedy, start, rows, produced, ran, memory, owner, fetched>>

\* PrefillGPU throws at a token outside the vocabulary, after the launches for
\* the tokens before it.
TokenRefused ==
    /\ pc = "prefill" /\ script # <<>> /\ Head(script).name = "embedding"
    /\ script' = <<>>
    /\ pc' = "unwind"
    /\ UNCHANGED <<rotary, call, prompt, greedy, start, rows, produced, stream, ran, memory, owner, fetched>>

\* synchronize_cuda after the last chunk.
Synchronize ==
    /\ pc = "prefill" /\ script = <<>> /\ start + rows = prompt
    /\ stream = <<>>
    /\ pc' = "sample"
    /\ UNCHANGED <<rotary, call, prompt, greedy, start, rows, produced, script, stream, ran, memory, owner, fetched>>

\* At temperature 0 the token is chosen on the device.
LaunchArgmax ==
    /\ pc = "sample" /\ produced < TokenLimit /\ greedy
    /\ stream' = Append(stream, Launch("argmax", 0,
                    [call |-> call, pos |-> start, rows |-> 1, kvPos |-> 0, kvLen |-> 0,
                     sinks |-> 0], 0))
    /\ pc' = "argmax"
    /\ UNCHANGED <<rotary, call, prompt, greedy, start, rows, produced, script, ran, memory, owner, fetched>>

\* Mutant of Download: the copy does not wait for the stream.
DownloadAtOnce(b) ==
    /\ fetched' = memory[<<b, 0, 0>>]
    /\ pc' = "callback"
    /\ UNCHANGED <<rotary, call, prompt, greedy, start, rows, produced, script, stream, ran, memory, owner>>

\* download_cuda: cudaMemcpy waits for what was launched before it.
Download(b) ==
    /\ stream = <<>>
    /\ fetched' = memory[<<b, 0, 0>>]
    /\ pc' = "callback"
    /\ UNCHANGED <<rotary, call, prompt, greedy, start, rows, produced, script, stream, ran, memory, owner>>

DownloadToken == pc = "argmax" /\ Download("sampled")
DownloadLogits == pc = "sample" /\ produced < TokenLimit /\ ~greedy /\ Download("logits")

\* The token is kept and not the last: it is forwarded.
ForwardToken ==
    /\ pc = "callback" /\ produced + 1 < TokenLimit
    /\ produced' = produced + 1
    /\ start' = start + rows /\ rows' = 1
    /\ script' = DecodeScript(start')
    /\ pc' = "forward"
    /\ UNCHANGED <<rotary, call, prompt, greedy, stream, ran, memory, owner, fetched>>

ForwardLaunched ==
    /\ pc = "forward" /\ script = <<>>
    /\ pc' = "sample"
    /\ UNCHANGED <<rotary, call, prompt, greedy, start, rows, produced, script, stream, ran, memory, owner, fetched>>

\* Sampler refuses the temperature, or no token is wanted.
NothingSampled ==
    /\ pc = "sample" /\ produced = 0 /\ (greedy => TokenLimit = 0)
    /\ pc' = "unwind"
    /\ UNCHANGED <<rotary, call, prompt, greedy, start, rows, produced, script, stream, ran, memory, owner, fetched>>

\* End of text, the limit, or an exception of the sampler or the callback.
EndAnswer ==
    /\ pc = "callback"
    /\ pc' = "unwind"
    /\ UNCHANGED <<rotary, call, prompt, greedy, start, rows, produced, script, stream, ran, memory, owner, fetched>>

\* Mutant of FreeState: the memory goes back while kernels still use it.
FreeStateAtOnce ==
    /\ pc = "unwind"
    /\ owner' = 0
    /\ pc' = "idle"
    /\ UNCHANGED <<rotary, call, prompt, greedy, start, rows, produced, script, stream, ran, memory, fetched>>

\* ~State: cudaFree waits for the device.
FreeState ==
    /\ pc = "unwind" /\ stream = <<>>
    /\ owner' = 0
    /\ pc' = "idle"
    /\ UNCHANGED <<rotary, call, prompt, greedy, start, rows, produced, script, stream, ran, memory, fetched>>

Device == \E n \in 0 .. (BatchCapacity * (Heads + KvHeads)) + (MaxSeqLen * KvHeads) : RunBlock(n)
Host ==
    \/ NextChunk \/ LaunchNext \/ TokenRefused \/ Synchronize
    \/ LaunchArgmax \/ DownloadToken \/ DownloadLogits
    \/ ForwardToken \/ ForwardLaunched \/ NothingSampled \/ EndAnswer \/ FreeState

Next == Device \/ Host \/ \E n \in Prompts, zero \in BOOLEAN : Call(n, zero)

(***************************************************************************)
(* The host thread runs on, and so does the device.  Callers owe nothing.  *)
(***************************************************************************)
Spec == Init /\ [][Next]_vars /\ WF_vars(Host) /\ WF_vars(Device)
-----------------------------------------------------------------------------
(***************************************************************************)
(* What the host has downloaded when it goes on with a token is the token  *)
(* or the logits of the last forward of this request, computed by every    *)
(* kernel of every block in order from this request's rows of the caches,  *)
(* each sink turned once more: the host never reads ahead of the stream.   *)
(***************************************************************************)
HostReadsLastForward ==
    pc = "callback" =>
        fetched = Stamp(IF greedy THEN "argmax" ELSE "classifier", 0, call, start)

(***************************************************************************)
(* A kernel that is yet to run belongs to the request whose State is still *)
(* allocated, however the request ended: none runs on freed memory.        *)
(***************************************************************************)
OwnBuffers == \A n \in DOMAIN stream : stream[n].call = owner

(***************************************************************************)
(* The blocks of a kernel, which run at the same time, stay within their   *)
(* buffers and away from what another one writes.                          *)
(***************************************************************************)
BlocksApart ==
    stream # <<>> =>
        LET k == Head(stream) IN
        /\ \A n \in Blocks(k) : Reads(k, n) \cup Writes(k, n) \subseteq Locations
        /\ \A n, m \in Blocks(k) :
             n # m => Writes(k, n) \cap (Reads(k, m) \cup Writes(k, m)) = {}

\* Every request ends with its memory freed: no wait for the device is in vain.
CallReturns == pc # "idle" ~> pc = "idle" /\ owner = 0
=============================================================================
