------------------------------ MODULE Generate ------------------------------
(***************************************************************************)
(* Model::Generate over the life of a Model: requests one after the other, *)
(* each a chunked prefill of the prompt followed by token-by-token         *)
(* decoding, through every block and its key/value cache.  The cache, the  *)
(* logits and the activation buffers belong to the Model and are not reset *)
(* between requests; a request may end early by an exception and leave     *)
(* them half written.                                                      *)
(*                                                                         *)
(* One action is one step between two points where the code can branch,    *)
(* throw or call out: a chunk's checks, one block of a step, the sampling  *)
(* of a token, the caller's callback.  Activations are abstracted: a cache *)
(* row is who wrote it (request, position) and how often the rotation by   *)
(* one position has been applied to its key since.  The concurrency inside *)
(* a block is the subject of module PrefillTeam.                           *)
(***************************************************************************)
EXTENDS KvRing, Sequences, FiniteSets

CONSTANTS
    Device,            \* "cpu" or "gpu", Model::device
    Layers,            \* config.n_layers
    PrefillBatchSize,  \* kPrefillBatchSize, 128 in the source
    Vocabulary,        \* the token ids 0 .. vocab_size - 1
    Eos,               \* config.eos_token_id
    PromptLengths,     \* bound: lengths of the prompts the callers pass
    TokenLimits,       \* bound: values of max_generated_tokens
    MaxCalls           \* bound: requests made to one Model

ASSUME DeviceAssumption == Device \in {"cpu", "gpu"}
ASSUME LayersAssumption == Layers \in Nat \ {0}
ASSUME PrefillBatchSizeAssumption == PrefillBatchSize \in Nat \ {0}
ASSUME RequestsAssumption ==
    PromptLengths \subseteq Nat /\ TokenLimits \subseteq Nat /\ MaxCalls \in Nat

VARIABLES
    pc,        \* where Generate is
    call,      \* number of the request, 0 before the first
    request,   \* the arguments of Generate
    i,         \* cursor of the prefill loop
    start,     \* position of the first row of the step in progress
    rows,      \* tokens of the step in progress: a chunk, or 1 in decode
    layer,     \* next block of the step in progress, Layers + 1 after the last
    pos,       \* position of the next token to forward
    token,     \* last sampled token
    tokens,    \* result.tokens
    streamed,  \* what on_token has been given
    logits,    \* which position of which request the logits_ buffer is about
    cache,     \* cache[l][x]: row x of k_ and v_ of block l
    reads,     \* reads[l]: what the last attention of block l has read
    outcome    \* how the last request ended

vars == <<pc, call, request, i, start, rows, layer, pos, token, tokens,
          streamed, logits, cache, reads, outcome>>
requestVars == <<call, request>>
stepVars == <<start, rows, layer>>
resultVars == <<tokens, streamed>>

LayerIds == 1 .. Layers

(***************************************************************************)
(* The arguments of a call.  foreign is the 1-based index of a prompt      *)
(* token outside the vocabulary, 0 if there is none.  Only PrefillGPU      *)
(* looks for one; PrefillCPU would read outside the embedding table, so on *)
(* the CPU the callers considered are those that pass tokens of the model. *)
(***************************************************************************)
Requests ==
    {r \in [prompt : PromptLengths, foreign : UNION {0 .. n : n \in PromptLengths},
            max : TokenLimits, stopOnEos : BOOLEAN,
            temperature : {"zero", "positive", "invalid"}] :
        /\ r.foreign <= r.prompt
        /\ Device = "cpu" => r.foreign = 0}

(* A request the model has not received: the arguments before any call. *)
NoRequest == [prompt |-> 0, foreign |-> 0, max |-> 0, stopOnEos |-> FALSE,
              temperature |-> "zero"]

(* What fills a token variable before a token was sampled. *)
NoToken == "none"

(* One row of a block's cache. *)
Entry(c, p, n) == [call |-> c, pos |-> p, rotations |-> n]
Blank == Entry(0, 0, 0)

Lesser(a, b) == IF a < b THEN a ELSE b

(* State::batch_capacity, the rows of the activation buffers. *)
BatchCapacity == Lesser(PrefillBatchSize, MaxSeqLen)

(* Mutant of BatchSize: the prompt in one chunk. *)
BatchSizeUnbounded == request.prompt

(* batch_size in Generate, the stride of the prefill loop. *)
BatchSize == Lesser(request.prompt, PrefillBatchSize)

(***************************************************************************)
(* What the attention of the query of position q reads: the rows 0 ..      *)
(* kvLen - 1 of the layer's cache.  Rotary attention sees a key at the     *)
(* distance between the query and the position the key is rotated to.      *)
(***************************************************************************)
Attend(kv, q, kvLen) ==
    {[call |-> kv[x].call, query |-> q, pos |-> kv[x].pos,
      distance |-> q - (kv[x].pos + kv[x].rotations)] : x \in 0 .. kvLen - 1}

Init ==
    /\ pc = "idle"
    /\ call = 0
    /\ request = NoRequest
    /\ i = 0 /\ start = 0 /\ rows = 0 /\ layer = 1 /\ pos = 0
    /\ token = NoToken
    /\ tokens = <<>> /\ streamed = <<>>
    /\ logits = [call |-> 0, pos |-> 0, token |-> NoToken]
    /\ cache = [l \in LayerIds |-> [x \in Slots |-> Blank]]
    /\ reads = [l \in LayerIds |-> {}]
    /\ outcome = "none"

(* Generate returns or throws; nothing it leaves behind is undone. *)
Finish(how) ==
    /\ pc' = "idle"
    /\ outcome' = how
-----------------------------------------------------------------------------
(***************************************************************************)
(* Entry of Generate: the checks of the prompt, then a fresh State.        *)
(***************************************************************************)
PromptError(r) ==
    IF r.prompt = 0 THEN "invalid_argument"
    ELSE IF r.prompt > MaxSeqLen THEN "out_of_range"
    ELSE "none"

Call(r) ==
    /\ pc = "idle"
    /\ call < MaxCalls
    /\ call' = call + 1
    /\ request' = r
    /\ tokens' = <<>> /\ streamed' = <<>>
    /\ i' = 0 /\ start' = 0 /\ rows' = 0 /\ layer' = 1
    /\ token' = NoToken
    /\ reads' = [l \in LayerIds |-> {}]
    /\ outcome' = PromptError(r)
    /\ pc' = IF PromptError(r) = "none" THEN "prefill" ELSE "idle"
    /\ UNCHANGED <<pos, logits, cache>>

(* Mutant of ChunkRows: the last chunk is as long as the others. *)
ChunkRowsFull == BatchSize

(* The next chunk, subspan(i, min(batch_size, size - i)). *)
ChunkRows == Lesser(BatchSize, request.prompt - i)

(* The checks of PrefillCPU / PrefillGPU, before a block is run. *)
ChunkError ==
    IF i > MaxSeqLen \/ ChunkRows > MaxSeqLen - i THEN "out_of_range"
    ELSE IF Device = "gpu" /\ request.foreign \in i + 1 .. i + ChunkRows THEN "out_of_range"
    ELSE "none"

PrefillChunk ==
    /\ pc = "prefill" /\ i < request.prompt
    /\ ChunkError = "none"
    /\ start' = i /\ rows' = ChunkRows /\ layer' = 1
    /\ pc' = "prefillBlock"
    /\ UNCHANGED <<requestVars, i, pos, token, resultVars, logits, cache, reads, outcome>>

PrefillRefused ==
    /\ pc = "prefill" /\ i < request.prompt
    /\ ChunkError # "none"
    /\ Finish(ChunkError)
    /\ UNCHANGED <<requestVars, i, stepVars, pos, token, resultVars, logits, cache, reads>>

(* Mutant of NextChunk: the loop does not advance. *)
SameChunk == i

(* The cursor after a chunk, i += batch_size. *)
NextChunk == i + BatchSize

(***************************************************************************)
(* Block::ForwardPrefillCPU / ForwardPrefillGPU of the next block.         *)
(***************************************************************************)
BlockError ==
    IF rows = 0 THEN "invalid_argument"
    ELSE IF start > MaxSeqLen \/ rows > MaxSeqLen - start THEN "out_of_range"
    ELSE IF rows > BatchCapacity THEN "length_error"
    ELSE "none"

(* The chunk's keys and values are stored before any query attends. *)
StoreChunk(kv) ==
    [x \in Slots |-> IF x \in start .. start + rows - 1 THEN Entry(call, x, 0) ELSE kv[x]]

(* Mutant of AttendChunk: every query sees the whole chunk. *)
AttendWholeChunk(kv) ==
    UNION {Attend(kv, start + t, start + rows) : t \in 0 .. rows - 1}

(* Every query of the chunk attends through its own position only. *)
AttendChunk(kv) ==
    UNION {Attend(kv, start + t, start + t + 1) : t \in 0 .. rows - 1}

(* The last block done: classify the last row, then the next chunk. *)
PrefillBlock ==
    /\ pc = "prefillBlock"
    /\ cache' = [cache EXCEPT ![layer] = IF BlockError = "none" THEN StoreChunk(@) ELSE @]
    /\ reads' = [reads EXCEPT ![layer] =
                   IF BlockError = "none" THEN AttendChunk(cache'[layer]) ELSE @]
    /\ layer' = IF BlockError = "none" THEN layer + 1 ELSE layer
    /\ IF BlockError = "none" /\ layer = Layers
         THEN /\ logits' = [call |-> call, pos |-> start + rows - 1, token |-> NoToken]
              /\ i' = NextChunk
         ELSE UNCHANGED <<logits, i>>
    /\ IF BlockError # "none" THEN Finish(BlockError)
       ELSE /\ pc' = IF layer = Layers THEN "prefill" ELSE "prefillBlock"
            /\ UNCHANGED outcome
    /\ UNCHANGED <<requestVars, start, rows, pos, token, resultVars>>

(***************************************************************************)
(* The Sampler is constructed once the whole prompt has been prefilled,    *)
(* and refuses a temperature that is negative or not finite.               *)
(***************************************************************************)
PrefillDone == pc = "prefill" /\ i >= request.prompt

StartDecode ==
    /\ PrefillDone
    /\ request.temperature # "invalid"
    /\ pos' = request.prompt
    /\ pc' = "sample"
    /\ UNCHANGED <<requestVars, i, stepVars, token, resultVars, logits, cache, reads, outcome>>

TemperatureRefused ==
    /\ PrefillDone
    /\ request.temperature = "invalid"
    /\ Finish("invalid_argument")
    /\ UNCHANGED <<requestVars, i, stepVars, pos, token, resultVars, logits, cache, reads>>
-----------------------------------------------------------------------------
(***************************************************************************)
(* The decode loop.                                                        *)
(***************************************************************************)
MoreWanted == Len(tokens) < request.max

(* max_generated_tokens = 0: the loop is not entered. *)
NothingWanted ==
    /\ pc = "sample" /\ ~MoreWanted
    /\ Finish("limit")
    /\ UNCHANGED <<requestVars, i, stepVars, pos, token, resultVars, logits, cache, reads>>

(* Mutant of SampleToken: the variable the forward pass reads is not updated. *)
SampleTokenStale(t) ==
    /\ pc = "sample" /\ MoreWanted
    /\ ~(request.stopOnEos /\ t = Eos)
    /\ tokens' = Append(tokens, t)
    /\ pc' = "callback"
    /\ UNCHANGED <<requestVars, i, stepVars, pos, token, streamed, logits, cache, reads, outcome>>

(* Which id wins is up to the logits and the random generator. *)
SampleToken(t) ==
    /\ pc = "sample" /\ MoreWanted
    /\ ~(request.stopOnEos /\ t = Eos)
    /\ token' = t
    /\ tokens' = Append(tokens, t)
    /\ pc' = "callback"
    /\ UNCHANGED <<requestVars, i, stepVars, pos, streamed, logits, cache, reads, outcome>>

(* Mutant of SampleEos: the token is pushed before the test. *)
SampleEosPushed(t) ==
    /\ pc = "sample" /\ MoreWanted
    /\ request.stopOnEos /\ t = Eos
    /\ token' = t
    /\ tokens' = Append(tokens, t)
    /\ Finish("eos")
    /\ UNCHANGED <<requestVars, i, stepVars, pos, streamed, logits, cache, reads>>

(* The end-of-text token, when asked for, is neither kept nor streamed. *)
SampleEos(t) ==
    /\ pc = "sample" /\ MoreWanted
    /\ request.stopOnEos /\ t = Eos
    /\ token' = t
    /\ Finish("eos")
    /\ UNCHANGED <<requestVars, i, stepVars, pos, resultVars, logits, cache, reads>>

(* argmax_gpu picks an id without looking for non-finite logits. *)
GreedyOnDevice == Device = "gpu" /\ request.temperature = "zero"

(* Sampler::Sample throws on logits that are not finite. *)
LogitsRefused ==
    /\ pc = "sample" /\ MoreWanted
    /\ ~GreedyOnDevice
    /\ Finish("invalid_argument")
    /\ UNCHANGED <<requestVars, i, stepVars, pos, token, resultVars, logits, cache, reads>>

(* on_token(token): it has seen the token whether it returns or throws.   *)
(* (Without a callback the step is the same with nobody to see it.)       *)
Streamed == streamed' = Append(streamed, token)

CallbackThrows ==
    /\ pc = "callback"
    /\ Streamed
    /\ Finish("callback")
    /\ UNCHANGED <<requestVars, i, stepVars, pos, token, tokens, logits, cache, reads>>

(* The last token wanted is not forwarded. *)
StopAtLimit ==
    /\ pc = "callback"
    /\ Streamed
    /\ Len(tokens) = request.max
    /\ Finish("limit")
    /\ UNCHANGED <<requestVars, i, stepVars, pos, token, tokens, logits, cache, reads>>

(* Mutant of StartForward: the position does not advance. *)
StartForwardStill ==
    /\ pc = "callback"
    /\ Streamed
    /\ Len(tokens) # request.max
    /\ start' = pos /\ rows' = 1 /\ layer' = 1
    /\ pc' = "forwardBlock"
    /\ UNCHANGED <<requestVars, i, pos, token, tokens, logits, cache, reads, outcome>>

(* Mutant of StartForward: the last token of the answer is forwarded too. *)
StartForwardAlways ==
    /\ pc = "callback"
    /\ Streamed
    /\ start' = pos /\ rows' = 1 /\ layer' = 1
    /\ pos' = pos + 1
    /\ pc' = "forwardBlock"
    /\ UNCHANGED <<requestVars, i, token, tokens, logits, cache, reads, outcome>>

(* ForwardToken(token, pos++) begins. *)
StartForward ==
    /\ pc = "callback"
    /\ Streamed
    /\ Len(tokens) # request.max
    /\ start' = pos /\ rows' = 1 /\ layer' = 1
    /\ pos' = pos + 1
    /\ pc' = "forwardBlock"
    /\ UNCHANGED <<requestVars, i, token, tokens, logits, cache, reads, outcome>>

(***************************************************************************)
(* Block::ForwardCPU / ForwardGPU of the next block: store the token's key *)
(* and value in its row, turn the keys of the sinks by one position, then  *)
(* attend to the first kv_len rows.                                        *)
(***************************************************************************)
StoreToken(kv) == [kv EXCEPT ![KvPos(start)] = Entry(call, start, 0)]

(* Mutant of RotateSinks: the keys of the sinks stay where they were. *)
RotateNothing(kv) == kv

(* rope_cpu(.., 1, ..) on the cached key of each sink; no-op until full. *)
RotateSinks(kv) ==
    [x \in Slots |-> IF x < NumSink(start)
                     THEN [kv[x] EXCEPT !.rotations = @ + 1]
                     ELSE kv[x]]

ForwardBlock ==
    /\ pc = "forwardBlock"
    /\ cache' = [cache EXCEPT ![layer] = RotateSinks(StoreToken(@))]
    /\ reads' = [reads EXCEPT ![layer] = Attend(cache'[layer], start, KvLen(start))]
    /\ layer' = layer + 1
    /\ IF layer = Layers
         THEN /\ logits' = [call |-> call, pos |-> start, token |-> token]
              /\ pc' = "sample"
         ELSE UNCHANGED <<logits, pc>>
    /\ UNCHANGED <<requestVars, i, start, rows, pos, token, resultVars, outcome>>
-----------------------------------------------------------------------------
(* The steps Generate takes by itself once it has been called. *)
Step ==
    \/ PrefillChunk \/ PrefillRefused \/ PrefillBlock
    \/ StartDecode \/ TemperatureRefused
    \/ NothingWanted \/ LogitsRefused
    \/ \E t \in Vocabulary : SampleToken(t) \/ SampleEos(t)
    \/ CallbackThrows \/ StopAtLimit \/ StartForward \/ ForwardBlock

Next ==
    \/ \E r \in Requests : Call(r)
    \/ Step

(* Generate is one synchronous call: it runs on, and callbacks return. *)
Spec == Init /\ [][Next]_vars /\ WF_vars(Step)
-----------------------------------------------------------------------------
(* Positions block l has processed for the current request. *)
Length(l) == start + (IF l < layer THEN rows ELSE 0)

(***************************************************************************)
(* The type of every variable; a step has no more rows than the activation *)
(* buffers.                                                                *)
(***************************************************************************)
TypeOK ==
    /\ pc \in {"idle", "prefill", "prefillBlock", "sample", "callback", "forwardBlock"}
    /\ call \in 0 .. MaxCalls
    /\ request \in Requests \cup {NoRequest}
    /\ i \in Nat /\ start \in Nat /\ pos \in Nat /\ rows \in 0 .. BatchCapacity
    /\ layer \in 1 .. Layers + 1
    /\ token \in Vocabulary \cup {NoToken}
    /\ tokens \in Seq(Vocabulary) /\ streamed \in Seq(Vocabulary \cup {NoToken})
    /\ logits \in [call : Nat, pos : Int, token : Vocabulary \cup {NoToken}]
    /\ cache \in [LayerIds -> [Slots -> [call : Nat, pos : Nat, rotations : Nat]]]
    /\ DOMAIN reads = LayerIds
    /\ outcome \in {"none", "limit", "eos", "callback",
                    "invalid_argument", "out_of_range", "length_error"}

(***************************************************************************)
(* What the attention of every block reads: rows of the current request    *)
(* only, although the cache still holds what earlier requests left; the    *)
(* whole past while it fits the cache, then the sinks and the most recent  *)
(* positions; and each key at its due distance, so that no two rows of the *)
(* window appear at the same distance.  (ForwardToken's num_sink, kv_pos,  *)
(* kv_len and the rotation of the sinks, and the prefill's kv_len.)        *)
(***************************************************************************)
Promise == INSTANCE StreamingAttention WITH
    Capacity <- MaxSeqLen, Sinks <- SinkRows,
    length <- [l \in LayerIds |-> Length(l)], view <- reads

AttendsWindow ==
    \A l \in LayerIds : l < layer =>
        reads[l] = UNION {Promise!Window(call, q) : q \in start .. start + rows - 1}

(* Generate with its caches implements streaming attention. *)
StreamsAttention == Promise!Spec

(***************************************************************************)
(* A row is overwritten while its request runs only when the cache is full *)
(* and only if it is the oldest of the rows that are not sinks.            *)
(***************************************************************************)
EvictsOldest ==
    [][\A l \in LayerIds, x \in Slots :
          cache[l][x].call = call /\ call' = call /\ cache'[l][x].pos # cache[l][x].pos
          => Length(l) >= MaxSeqLen /\ cache[l][x].pos = Length(l) - RingRows]_vars

(***************************************************************************)
(* A token is sampled from the logits of this request, computed for the    *)
(* last position of the text so far and from the token sampled last: never *)
(* from what an earlier or an aborted request left in logits_.             *)
(***************************************************************************)
SamplesLastPosition ==
    pc = "sample" =>
        /\ logits.call = call
        /\ logits.pos = request.prompt + Len(tokens) - 1
        /\ logits.token = IF tokens = <<>> THEN NoToken ELSE tokens[Len(tokens)]

(***************************************************************************)
(* A request that returns has processed its prompt and every token of its  *)
(* answer, except that the last one is left out when the limit ended it.   *)
(***************************************************************************)
ForwardsAllButLast ==
    pc = "idle" /\ outcome \in {"limit", "eos"} =>
        \A l \in LayerIds :
            Length(l) = request.prompt +
                (IF outcome = "limit" /\ request.max > 0 THEN Len(tokens) - 1 ELSE Len(tokens))

(***************************************************************************)
(* The caller has been given exactly the tokens of the answer, in order,   *)
(* up to the one in hand; the answer never holds the end-of-text token of  *)
(* a request that stops on it, and is as long as the limit unless that     *)
(* token or an exception ended it.                                         *)
(***************************************************************************)
StreamIsAnswer ==
    /\ pc # "callback" => streamed = tokens
    /\ pc = "callback" => tokens = Append(streamed, token)
    /\ request.stopOnEos => \A n \in 1 .. Len(tokens) : tokens[n] # Eos
    /\ Len(tokens) <= request.max
    /\ pc = "idle" /\ outcome = "limit" => Len(tokens) = request.max
    /\ pc = "idle" /\ outcome = "eos" => Len(tokens) < request.max

(***************************************************************************)
(* Once Generate has accepted a prompt of known tokens, none of its chunks *)
(* is refused further down: Generate's check against max_seq_len and its   *)
(* stride imply the range, emptiness and batch-capacity checks of Prefill  *)
(* and of every block, the short last chunk included.                      *)
(***************************************************************************)
PrefillNeverRefused ==
    /\ pc = "prefill" /\ i < request.prompt /\ request.foreign = 0 => ChunkError = "none"
    /\ pc = "prefillBlock" => BlockError = "none"

(* Every request ends. *)
EveryCallEnds == []<>(pc = "idle")
=============================================================================
