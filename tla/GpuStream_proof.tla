-------------------------- MODULE GpuStream_proof --------------------------
(***************************************************************************)
(* Three facts about the kernels of module GpuStream for every number of   *)
(* layers and heads, context length, prefill batch and prompt: a kernel    *)
(* runs while the State of its request is allocated; its blocks stay       *)
(* within their buffers and apart from each other; and what the host       *)
(* downloads was computed by the last forward of the request, every kernel *)
(* of which has read what the right earlier one has written.               *)
(***************************************************************************)
EXTENDS GpuStream, Lemmas_proof, SequenceTheorems

BlockNames ==
    {"attnNorm", "projectQ", "projectK", "projectV", "qkNormRope", "rotateSinks",
     "scores", "softmax", "output", "projectOut", "residual",
     "mlpNorm", "gate", "up", "silu", "down", "finalResidual"}
Names == BlockNames \cup {"embedding", "finalNorm", "classifier", "argmax"}

\* What is known of the arguments of every launch.
Fits(f) ==
    /\ f.rows \in 1 .. BatchCapacity
    /\ f.kvPos + f.rows <= MaxSeqLen
    /\ f.kvLen + f.rows <= MaxSeqLen + 1
    /\ f.sinks <= MaxSeqLen

\* The forwards of request c, and their launches.
Forwards(c) ==
    {f \in [call : {c}, pos : Nat, rows : Nat, kvPos : Nat, kvLen : Nat, sinks : Nat] : Fits(f)}
Launches(c) ==
    {k \in [name : Names, layer : 0 .. Layers, call : {c}, pos : Nat, rows : Nat, row : Nat,
            kvPos : Nat, kvLen : Nat, sinks : Nat] :
        /\ Fits(k) /\ k.row < k.rows
        /\ k.name \in BlockNames => k.layer \in 1 .. Layers}

(* The sizes of the model and of the batch. *)
LEMMA Sizes ==
    /\ Layers \in Nat \ {0} /\ Heads \in Nat \ {0} /\ KvHeads \in Nat \ {0}
    /\ PrefillBatchSize \in Nat \ {0} /\ MaxSeqLen \in Nat \ {0} /\ BatchCapacity \in Nat \ {0}
    /\ BatchCapacity <= MaxSeqLen
    /\ BatchCapacity <= PrefillBatchSize
    /\ \A p \in Prompts : p \in 1 .. MaxSeqLen
BY GpuAssumption, MaxSeqLenAssumption DEF BatchCapacity, Lesser

\* The rows of a full cache whose keys are turned: none without rotary dimensions.
TurnedRows == IF rotary = 0 THEN 0 ELSE SinkRows

(* There are fewer sinks than rows, so the ring is never empty. *)
LEMMA RowCounts ==
    /\ MaxSeqLen \in Nat \ {0}
    /\ SinkRows \in 0 .. MaxSeqLen - 1
    /\ TurnedRows \in 0 .. SinkRows /\ TurnedRows \in 0 .. MaxSeqLen - 1
    /\ RingRows \in 1 .. MaxSeqLen
    /\ SinkRows + RingRows = MaxSeqLen
BY MaxSeqLenAssumption, AttentionSinksAssumption DEF SinkRows, RingRows, TurnedRows

(* num_sink, kv_pos and kv_len of a position, before and after the cache is full. *)
LEMMA RowsOfPosition ==
    ASSUME NEW p \in Nat
    PROVE  /\ NumSink(p) = IF p >= MaxSeqLen THEN SinkRows ELSE 0
           /\ p < MaxSeqLen => KvPos(p) = p
           /\ p >= MaxSeqLen => KvPos(p) \in SinkRows .. MaxSeqLen - 1
           /\ KvPos(p) \in Slots
           /\ KvLen(p) \in 1 .. MaxSeqLen
           /\ p < MaxSeqLen => KvLen(p) = p + 1
           /\ p >= MaxSeqLen => KvLen(p) = MaxSeqLen
<1>1. CASE p < MaxSeqLen
    BY <1>1, RowCounts DEF NumSink, KvPos, KvLen, Slots
<1>2. CASE p >= MaxSeqLen
    <2>1. KvPos(p) = SinkRows + ((p - SinkRows) % (MaxSeqLen - SinkRows))
        BY <1>2, RowCounts DEF KvPos, NumSink
    <2>2. KvPos(p) \in SinkRows .. MaxSeqLen - 1  BY <1>2, <2>1, RowCounts, RingRow
    <2> QED BY <1>2, <2>2, RowCounts DEF NumSink, KvLen, Slots
<1> QED BY <1>1, <1>2, RowCounts

-----------------------------------------------------------------------------
(***************************************************************************)
(* The script of a forward.                                                *)
(***************************************************************************)

(* The launches of a block are named after its kernels, at least one. *)
LEMMA BlockLaunchesType ==
    ASSUME NEW f
    PROVE  BlockLaunches(f) \in Seq(BlockNames) /\ Len(BlockLaunches(f)) \in Nat \ {0}
<1> DEFINE front == <<"attnNorm", "projectQ", "projectK", "projectV", "qkNormRope">>
           back == <<"scores", "softmax", "output", "projectOut", "residual",
                     "mlpNorm", "gate", "up", "silu", "down", "finalResidual">>
<1>1. front \in Seq(BlockNames) /\ Len(front) = 5  BY DEF BlockNames
<1>2. back \in Seq(BlockNames)  BY DEF BlockNames
<1>3. SinkLaunch(f) \in Seq(BlockNames)
    <2>1. <<>> \in Seq(BlockNames)  BY EmptySeq
    <2>2. <<"rotateSinks">> \in Seq(BlockNames)  BY DEF BlockNames
    <2> QED BY <2>1, <2>2, Zenon DEF SinkLaunch
<1>4. BlockLaunches(f) = (front \o SinkLaunch(f)) \o back  BY DEF BlockLaunches
<1> HIDE DEF front, back
<1>5. /\ Len(SinkLaunch(f)) \in Nat
      /\ Len(back) \in Nat
    BY <1>2, <1>3, LenProperties
<1>6. /\ (front \o SinkLaunch(f)) \in Seq(BlockNames)
      /\ Len(front \o SinkLaunch(f)) = Len(front) + Len(SinkLaunch(f))
    BY <1>1, <1>3, ConcatProperties, Zenon
<1>7. /\ BlockLaunches(f) \in Seq(BlockNames)
      /\ Len(BlockLaunches(f)) = Len(front \o SinkLaunch(f)) + Len(back)
    BY <1>2, <1>4, <1>6, ConcatProperties, Zenon
<1> QED BY <1>1, <1>5, <1>6, <1>7

(* Every launch of a forward is one of the request's, with its arguments. *)
LEMMA ScriptType ==
    ASSUME NEW c \in Nat, NEW f \in Forwards(c)
    PROVE  Script(f) \in Seq(Launches(c))
<1> DEFINE block == BlockLaunches(f)
           width == Len(block)
           end == f.rows + (Layers * width)
           past(n) == n - f.rows - 1
           entry(n) ==
             IF n <= f.rows THEN Launch("embedding", 0, f, n - 1)
             ELSE IF n <= end
               THEN Launch(block[(past(n) % width) + 1], (past(n) \div width) + 1, f, 0)
             ELSE Launch(IF n = end + 1 THEN "finalNorm" ELSE "classifier", 0, f, 0)
<1>1. /\ f.call = c /\ f.pos \in Nat /\ f.rows \in Nat \ {0} /\ f.kvPos \in Nat
      /\ f.kvLen \in Nat /\ f.sinks \in Nat /\ Fits(f)
    BY Sizes DEF Forwards, Fits
<1>2. ASSUME NEW name \in Names, NEW l \in 0 .. Layers, NEW row \in 0 .. f.rows - 1,
             name \in BlockNames => l \in 1 .. Layers
      PROVE  Launch(name, l, f, row) \in Launches(c)
    BY <1>1, <1>2, Sizes DEF Launches, Launch, Fits
<1>3. block \in Seq(BlockNames) /\ width \in Nat \ {0}  BY BlockLaunchesType
<1>4. Layers \in Nat \ {0}  BY Sizes
<1> HIDE DEF block, width
<1>5. end \in Nat  BY <1>1, <1>3, <1>4
<1>6. \A n \in 1 .. end + 2 : entry(n) \in Launches(c)
    <2> SUFFICES ASSUME NEW n \in 1 .. end + 2 PROVE entry(n) \in Launches(c)  OBVIOUS
    <2>1. CASE n <= f.rows
        <3>1. "embedding" \in Names \ BlockNames /\ n - 1 \in 0 .. f.rows - 1 /\ 0 \in 0 .. Layers
            BY <2>1, <1>1, <1>4, <1>5 DEF Names, BlockNames
        <3> QED BY <2>1, <3>1, <1>2
    <2>2. CASE f.rows < n /\ n <= end
        <3>1. past(n) \in Nat /\ past(n) < Layers * width  BY <2>2, <1>1, <1>3, <1>4, <1>5
        <3>2. /\ past(n) \div width \in 0 .. Layers - 1
              /\ past(n) % width \in 0 .. width - 1
            BY <3>1, <1>3, <1>4, QuotientBound
        <3>3. block[(past(n) % width) + 1] \in BlockNames  BY <3>2, <1>3 DEF width
        <3>4. (past(n) \div width) + 1 \in 1 .. Layers  BY <3>2, <1>4
        <3>5. 0 \in 0 .. f.rows - 1  BY <1>1
        <3>6. Launch(block[(past(n) % width) + 1], (past(n) \div width) + 1, f, 0) \in Launches(c)
            BY <3>3, <3>4, <3>5, <1>2, <1>4 DEF Names
        <3>7. ~(n <= f.rows)  BY <2>2, <1>1, <1>5
        <3> QED BY <3>6, <3>7, <2>2
    <2>3. CASE n > end /\ n > f.rows
        <3>1. {"finalNorm", "classifier"} \subseteq Names \ BlockNames  BY DEF Names, BlockNames
        <3>2. 0 \in 0 .. f.rows - 1 /\ 0 \in 0 .. Layers  BY <1>1, <1>4
        <3>3. ~(n <= f.rows) /\ ~(n <= end)  BY <2>3, <1>1, <1>5
        <3>4. entry(n) = Launch(IF n = end + 1 THEN "finalNorm" ELSE "classifier", 0, f, 0)
            BY <3>3
        <3>5. (IF n = end + 1 THEN "finalNorm" ELSE "classifier") \in Names \ BlockNames  BY <3>1
        <3> HIDE DEF entry
        <3> QED BY <3>2, <3>4, <3>5, <1>2
    <2>4. f.rows <= end
        <3>1. Layers * width \in Nat  BY <1>3, <1>4
        <3> QED BY <3>1, <1>1
    <2> QED BY <2>1, <2>2, <2>3, <2>4, <1>1, <1>5
<1>7. Script(f) = [n \in 1 .. end + 2 |-> entry(n)]  BY Zenon DEF Script, block, width
<1> HIDE DEF entry, end
<1> QED BY <1>5, <1>6, <1>7
-----------------------------------------------------------------------------
(***************************************************************************)
(* The blocks of a kernel.                                                 *)
(***************************************************************************)

(* The elements the attention reads of a cache, its row of scores, the     *)
(* heads of a row and the slot of a key are within their buffers.          *)
LEMMA RowsWithin ==
    ASSUME NEW c, NEW k \in Launches(c)
    PROVE  /\ \A n \in 0 .. (k.rows * Heads) - 1 :
                /\ n \in 0 .. (BatchCapacity * Heads) - 1
                /\ n \div Heads \in 0 .. k.rows - 1
                /\ CacheRead(k, n) \subseteq 0 .. (MaxSeqLen * KvHeads) - 1
                /\ ScoreRow(k, n) \subseteq 0 .. (BatchCapacity * Heads * MaxSeqLen) - 1
           /\ \A n \in 0 .. (k.rows * KvHeads) - 1 :
                /\ n \in 0 .. (BatchCapacity * KvHeads) - 1
                /\ n \div KvHeads \in 0 .. k.rows - 1
                /\ CacheSlot(k, n) \in 0 .. (MaxSeqLen * KvHeads) - 1
           /\ \A n \in 0 .. k.rows - 1 : OfRow(n, Heads) \subseteq 0 .. (BatchCapacity * Heads) - 1
           /\ \A n \in 0 .. (SinksTurned(k) * KvHeads) - 1 : n \in 0 .. (MaxSeqLen * KvHeads) - 1
<1>1. /\ k.rows \in 1 .. BatchCapacity /\ k.kvPos \in Nat /\ k.kvLen \in Nat /\ SinksTurned(k) \in Nat
      /\ k.kvPos + k.rows <= MaxSeqLen /\ k.kvLen + k.rows <= MaxSeqLen + 1
      /\ SinksTurned(k) <= MaxSeqLen
    BY RowCounts DEF Launches, Fits, SinksTurned
<1>2. /\ Heads \in Nat \ {0} /\ KvHeads \in Nat \ {0} /\ MaxSeqLen \in Nat \ {0}
      /\ BatchCapacity \in Nat \ {0} /\ k.rows \in Nat
    BY <1>1, Sizes
<1>3. ASSUME NEW w \in Nat \ {0}, NEW n \in 0 .. (k.rows * w) - 1
      PROVE  /\ n \in 0 .. (BatchCapacity * w) - 1
             /\ n \div w \in 0 .. k.rows - 1
             /\ n % w \in 0 .. w - 1
    <2>1. k.rows * w <= BatchCapacity * w /\ k.rows * w \in Nat /\ BatchCapacity * w \in Nat
        BY <1>1, <1>2
    <2>2. n \in Nat /\ n < k.rows * w  BY <2>1
    <2>3. n \div w \in 0 .. k.rows - 1 /\ n % w \in 0 .. w - 1  BY <2>2, <1>2, QuotientBound
    <2> QED BY <2>1, <2>2, <2>3
<1>4. ASSUME NEW n \in 0 .. (k.rows * Heads) - 1
      PROVE  /\ CacheRead(k, n) \subseteq 0 .. (MaxSeqLen * KvHeads) - 1
             /\ ScoreRow(k, n) \subseteq 0 .. (BatchCapacity * Heads * MaxSeqLen) - 1
    <2>1. /\ n \in 0 .. (BatchCapacity * Heads) - 1 /\ n \div Heads \in 0 .. k.rows - 1
          /\ n % Heads \in 0 .. Heads - 1
        BY <1>2, <1>3
    <2>2. KvHead(n % Heads) \in 0 .. KvHeads - 1
        BY <2>1, <1>2, GpuAssumption, Grouped DEF KvHead
    <2>3. \A t \in 0 .. KvLenOf(k, n) - 1 : t \in 0 .. MaxSeqLen - 1
        BY <2>1, <1>1, <1>2 DEF KvLenOf
    <2>4. \A t \in 0 .. MaxSeqLen - 1 :
            (t * KvHeads) + KvHead(n % Heads) \in 0 .. (MaxSeqLen * KvHeads) - 1
        BY <2>2, <1>2, Offsets
    <2>5. BatchCapacity * Heads \in Nat  BY <1>2
    <2>6. \A t \in 0 .. MaxSeqLen - 1 :
            (n * MaxSeqLen) + t \in 0 .. (BatchCapacity * Heads * MaxSeqLen) - 1
        BY <2>1, <2>5, <1>2, Offsets
    <2> QED BY <2>3, <2>4, <2>6 DEF CacheRead, ScoreRow
<1>5. ASSUME NEW n \in 0 .. (k.rows * KvHeads) - 1
      PROVE  CacheSlot(k, n) \in 0 .. (MaxSeqLen * KvHeads) - 1
    <2>1. n \div KvHeads \in 0 .. k.rows - 1 /\ n % KvHeads \in 0 .. KvHeads - 1
        BY <1>2, <1>3
    <2>2. k.kvPos + (n \div KvHeads) \in 0 .. MaxSeqLen - 1  BY <2>1, <1>1, <1>2
    <2> QED BY <2>1, <2>2, <1>2, Offsets DEF CacheSlot
<1>6. ASSUME NEW n \in 0 .. k.rows - 1
      PROVE  OfRow(n, Heads) \subseteq 0 .. (BatchCapacity * Heads) - 1
    BY <1>1, <1>2, Offsets DEF OfRow
<1>7. ASSUME NEW n \in 0 .. (SinksTurned(k) * KvHeads) - 1
      PROVE  n \in 0 .. (MaxSeqLen * KvHeads) - 1
    <2>1. SinksTurned(k) * KvHeads <= MaxSeqLen * KvHeads  BY <1>1, <1>2
    <2> QED BY <2>1, <1>1, <1>2
<1> QED BY <1>2, <1>3, <1>4, <1>5, <1>6, <1>7

(* No block of a kernel leaves the buffers. *)
LEMMA KernelWithin ==
    ASSUME NEW c, NEW k \in Launches(c), NEW n \in Blocks(k)
    PROVE  Reads(k, n) \cup Writes(k, n) \subseteq Locations
<1>1. /\ k.rows \in 1 .. BatchCapacity /\ k.row \in 0 .. k.rows - 1 /\ k.name \in Names
      /\ k.name \in BlockNames => k.layer \in 1 .. Layers
    BY DEF Launches, Fits
<1>2. /\ Heads \in Nat \ {0} /\ KvHeads \in Nat \ {0} /\ MaxSeqLen \in Nat \ {0}
      /\ BatchCapacity \in Nat \ {0}
    BY Sizes
<1>3. ASSUME NEW b \in DOMAIN Size, NEW S, S \subseteq 0 .. Size[b] - 1
      PROVE  /\ b \notin Caches => At(b, S) \subseteq Locations
             /\ b \in Caches => \A l \in 1 .. Layers : AtCache(b, l, S) \subseteq Locations
    <2>1. CASE b \notin Caches
        <3>1. At(b, 0 .. Size[b] - 1) \subseteq Locations  BY <2>1, Zenon DEF Locations
        <3> QED BY <1>3, <2>1, <3>1 DEF At
    <2>2. CASE b \in Caches
        <3> SUFFICES ASSUME NEW l \in 1 .. Layers PROVE AtCache(b, l, S) \subseteq Locations
            BY <2>2
        <3> DEFINE layers == {AtCache(b, i, 0 .. Size[b] - 1) : i \in 1 .. Layers}
        <3>a. UNION layers \subseteq Locations  BY <2>2, Zenon DEF Locations
        <3>b. AtCache(b, l, 0 .. Size[b] - 1) \in layers  OBVIOUS
        <3> HIDE DEF layers
        <3>1. AtCache(b, l, 0 .. Size[b] - 1) \subseteq Locations  BY <3>a, <3>b, Zenon
        <3> QED BY <1>3, <3>1 DEF AtCache
    <2> QED BY <2>1, <2>2
<1>r. \A i \in 0 .. k.rows - 1 : i \in 0 .. BatchCapacity - 1  BY <1>1, <1>2
<1>4. ASSUME NEW b \in {"x", "final", "norm", "projected", "lin1", "lin2"},
             NEW i \in 0 .. k.rows - 1
      PROVE  At(b, {i}) \subseteq Locations
    <2>1. b \in DOMAIN Size \ Caches /\ Size[b] = BatchCapacity  BY DEF Size, Caches
    <2>2. {i} \subseteq 0 .. Size[b] - 1  BY <2>1, <1>r
    <2> QED BY <2>1, <2>2, <1>3
<1>5. ASSUME NEW b \in {"q", "out"}, NEW S, S \subseteq 0 .. (BatchCapacity * Heads) - 1
      PROVE  At(b, S) \subseteq Locations
    <2>1. b \in DOMAIN Size \ Caches /\ Size[b] = BatchCapacity * Heads  BY DEF Size, Caches
    <2> QED BY <2>1, <1>5, <1>3
<1>6. ASSUME NEW b \in {"k", "v"}, NEW i \in 0 .. (BatchCapacity * KvHeads) - 1
      PROVE  At(b, {i}) \subseteq Locations
    <2>1. b \in DOMAIN Size \ Caches /\ Size[b] = BatchCapacity * KvHeads  BY DEF Size, Caches
    <2>2. {i} \subseteq 0 .. Size[b] - 1  BY <2>1
    <2> QED BY <2>1, <2>2, <1>3
<1>7. ASSUME NEW S, S \subseteq 0 .. (BatchCapacity * Heads * MaxSeqLen) - 1
      PROVE  At("scores", S) \subseteq Locations
    <2>1. "scores" \in DOMAIN Size \ Caches /\ Size["scores"] = BatchCapacity * Heads * MaxSeqLen
        BY DEF Size, Caches
    <2> QED BY <2>1, <1>7, <1>3
<1>8. ASSUME NEW b \in Caches, k.name \in BlockNames,
             NEW S, S \subseteq 0 .. (MaxSeqLen * KvHeads) - 1
      PROVE  AtCache(b, k.layer, S) \subseteq Locations
    <2>1. b \in DOMAIN Size /\ Size[b] = MaxSeqLen * KvHeads  BY DEF Size, Caches
    <2> QED BY <2>1, <1>1, <1>8, <1>3
<1>9. At("logits", {0}) \subseteq Locations /\ At("sampled", {0}) \subseteq Locations
    <2>1. /\ {"logits", "sampled"} \subseteq DOMAIN Size \ Caches
          /\ Size["logits"] = 1 /\ Size["sampled"] = 1
        BY DEF Size, Caches
    <2> QED BY <2>1, <1>3
<1>a. CASE k.name = "embedding"
    <2>1. n \in 0 .. k.rows - 1  BY <1>a, <1>1 DEF Blocks
    <2> QED BY <1>a, <2>1, <1>4 DEF Reads, Writes
<1>b. CASE k.name \in {"attnNorm", "mlpNorm", "finalNorm", "residual", "finalResidual",
                       "gate", "up", "silu", "down"}
    <2>1. n \in 0 .. k.rows - 1  BY <1>b DEF Blocks
    <2> QED BY <1>b, <2>1, <1>4 DEF Reads, Writes
<1>c. CASE k.name = "projectQ"
    <2>1. n \in 0 .. (k.rows * Heads) - 1  BY <1>c DEF Blocks
    <2>2. At("norm", {n \div Heads}) \subseteq Locations /\ At("q", {n}) \subseteq Locations
        BY <2>1, RowsWithin, <1>4, <1>5
    <2> QED BY <1>c, <2>2 DEF Reads, Writes
<1>d. CASE k.name \in {"projectK", "projectV"}
    <2>1. n \in 0 .. (k.rows * KvHeads) - 1  BY <1>d DEF Blocks
    <2>2. /\ At("norm", {n \div KvHeads}) \subseteq Locations
          /\ At("k", {n}) \subseteq Locations /\ At("v", {n}) \subseteq Locations
        BY <2>1, RowsWithin, <1>4, <1>6
    <2> QED BY <1>d, <2>2 DEF Reads, Writes
<1>e. CASE k.name = "qkNormRope"
    <2>1. n \in 0 .. (k.rows * (Heads + KvHeads)) - 1  BY <1>e DEF Blocks
    <2>2. k.rows * (Heads + KvHeads) = (k.rows * Heads) + (k.rows * KvHeads)
          /\ k.rows * Heads \in Nat /\ k.rows * KvHeads \in Nat
        BY <1>1, <1>2
    <2>3. CASE n < k.rows * Heads
        <3>1. n \in 0 .. (k.rows * Heads) - 1  BY <2>1, <2>2, <2>3
        <3>2. At("q", {n}) \subseteq Locations  BY <3>1, RowsWithin, <1>5
        <3> QED BY <1>e, <2>3, <3>2 DEF Reads, Writes
    <2>4. CASE ~(n < k.rows * Heads)
        <3>1. KeyRow(k, n) \in 0 .. (k.rows * KvHeads) - 1  BY <2>1, <2>2, <2>4 DEF KeyRow
        <3>2. KeyRow(k, n) \in 0 .. (BatchCapacity * KvHeads) - 1
              /\ CacheSlot(k, KeyRow(k, n)) \in 0 .. (MaxSeqLen * KvHeads) - 1
            BY <3>1, RowsWithin
        <3>3. At("k", {KeyRow(k, n)}) \subseteq Locations /\ At("v", {KeyRow(k, n)}) \subseteq Locations
            BY <3>2, <1>6
        <3>4. \A b \in Caches : AtCache(b, k.layer, {CacheSlot(k, KeyRow(k, n))}) \subseteq Locations
            BY <1>e, <3>2, <1>8 DEF BlockNames
        <3>5. Reads(k, n) = At("k", {KeyRow(k, n)}) \cup At("v", {KeyRow(k, n)})
            BY <1>e, <2>4 DEF Reads
        <3>6. Writes(k, n) = At("k", {KeyRow(k, n)})
                \cup UNION {AtCache(b, k.layer, {CacheSlot(k, KeyRow(k, n))}) : b \in Caches}
            BY <1>e, <2>4 DEF Writes
        <3> QED BY <3>3, <3>4, <3>5, <3>6, Zenon
    <2> QED BY <2>3, <2>4
<1>f. CASE k.name = "rotateSinks"
    <2>1. n \in 0 .. (SinksTurned(k) * KvHeads) - 1  BY <1>f DEF Blocks
    <2>2. AtCache("cacheK", k.layer, {n}) \subseteq Locations
        BY <1>f, <2>1, RowsWithin, <1>8 DEF BlockNames, Caches
    <2> QED BY <1>f, <2>2 DEF Reads, Writes
<1>g. CASE k.name \in {"scores", "softmax", "output"}
    <2>1. n \in 0 .. (k.rows * Heads) - 1  BY <1>g DEF Blocks
    <2>2. /\ At("q", {n}) \subseteq Locations /\ At("out", {n}) \subseteq Locations
          /\ At("scores", ScoreRow(k, n)) \subseteq Locations
        BY <2>1, RowsWithin, <1>5, <1>7
    <2>3. \A b \in Caches : AtCache(b, k.layer, CacheRead(k, n)) \subseteq Locations
        BY <1>g, <2>1, RowsWithin, <1>8 DEF BlockNames
    <2> QED BY <1>g, <2>2, <2>3 DEF Reads, Writes, Caches
<1>h. CASE k.name = "projectOut"
    <2>1. n \in 0 .. k.rows - 1  BY <1>h DEF Blocks
    <2>2. At("out", OfRow(n, Heads)) \subseteq Locations /\ At("projected", {n}) \subseteq Locations
        BY <2>1, RowsWithin, <1>4, <1>5
    <2> QED BY <1>h, <2>2 DEF Reads, Writes
<1>i. CASE k.name \in {"classifier", "argmax"}
    <2>1. k.rows - 1 \in 0 .. k.rows - 1  BY <1>1, <1>2
    <2>2. At("final", {k.rows - 1}) \subseteq Locations  BY <2>1, <1>4
    <2> QED BY <1>i, <2>2, <1>9 DEF Reads, Writes
<1> QED BY <1>1, <1>a, <1>b, <1>c, <1>d, <1>e, <1>f, <1>g, <1>h, <1>i DEF Names, BlockNames

(* The slots of the keys of a launch are consecutive from its row on. *)
LEMMA SlotOffset ==
    ASSUME NEW k, k.kvPos \in Nat, NEW i \in Nat
    PROVE  CacheSlot(k, i) = (k.kvPos * KvHeads) + i
<1> DEFINE q == i \div KvHeads  r == i % KvHeads
<1>0. KvHeads \in Nat \ {0}  BY Sizes
<1>1. i = (KvHeads * q) + r /\ q \in Int /\ r \in Int  BY <1>0, Division
<1>2. CacheSlot(k, i) = ((k.kvPos + q) * KvHeads) + r  BY DEF CacheSlot
<1> HIDE DEF q, r
<1>3. (k.kvPos + q) * KvHeads = (k.kvPos * KvHeads) + (KvHeads * q)
    BY <1>0, <1>1
<1>4. k.kvPos * KvHeads \in Int /\ KvHeads * q \in Int  BY <1>0, <1>1
<1> QED BY <1>1, <1>2, <1>3, <1>4

(* No block of a kernel writes what another one of it reads or writes. *)
LEMMA KernelApart ==
    ASSUME NEW c, NEW k \in Launches(c), NEW n \in Blocks(k), NEW m \in Blocks(k), n # m
    PROVE  Writes(k, n) \cap (Reads(k, m) \cup Writes(k, m)) = {}
<1>1. k.rows \in 1 .. BatchCapacity /\ k.kvPos \in Nat /\ k.name \in Names
    BY DEF Launches, Fits
<1>2. /\ Heads \in Nat \ {0} /\ KvHeads \in Nat \ {0} /\ MaxSeqLen \in Nat \ {0}
      /\ BatchCapacity \in Nat \ {0}
    BY Sizes
<1>a. CASE k.name \in {"embedding", "classifier", "argmax"}
    BY <1>a DEF Blocks
<1>b. CASE k.name \in {"attnNorm", "mlpNorm", "finalNorm", "residual", "finalResidual",
                       "gate", "up", "silu", "down", "projectOut"}
    BY <1>b DEF Reads, Writes, At
<1>c. CASE k.name \in {"projectQ", "projectK", "projectV"}
    BY <1>c DEF Reads, Writes, At
<1>d. CASE k.name = "rotateSinks"
    BY <1>d DEF Reads, Writes, AtCache
<1>e. CASE k.name = "qkNormRope"
    <2>1. n \in Int /\ m \in Int /\ KeyRow(k, n) # KeyRow(k, m)
        <3>1. k.rows * Heads \in Int  BY <1>1, <1>2
        <3>2. n \in Int /\ m \in Int  BY <1>e DEF Blocks
        <3> QED BY <3>1, <3>2 DEF KeyRow
    <2> DEFINE cached(i) == UNION {AtCache(b, k.layer, {CacheSlot(k, KeyRow(k, i))}) : b \in Caches}
    <2>2. CASE n < k.rows * Heads
        <3>1. Writes(k, n) = At("q", {n})  BY <1>e, <2>2 DEF Writes
        <3>2. CASE m < k.rows * Heads
            BY <1>e, <3>1, <3>2 DEF Reads, Writes, At
        <3>3. CASE ~(m < k.rows * Heads)
            <4>1. Reads(k, m) \cup Writes(k, m) =
                    At("k", {KeyRow(k, m)}) \cup At("v", {KeyRow(k, m)}) \cup cached(m)
                BY <1>e, <3>3 DEF Reads, Writes
            <4> QED BY <3>1, <4>1 DEF At, AtCache, Caches
        <3> QED BY <3>2, <3>3
    <2>3. CASE ~(n < k.rows * Heads)
        <3>1. Writes(k, n) = At("k", {KeyRow(k, n)}) \cup cached(n)  BY <1>e, <2>3 DEF Writes
        <3>2. CASE m < k.rows * Heads
            <4>1. Reads(k, m) \cup Writes(k, m) = At("q", {m})  BY <1>e, <3>2 DEF Reads, Writes
            <4> QED BY <3>1, <4>1 DEF At, AtCache, Caches
        <3>3. CASE ~(m < k.rows * Heads)
            <4>1. Reads(k, m) \cup Writes(k, m) =
                    At("k", {KeyRow(k, m)}) \cup At("v", {KeyRow(k, m)}) \cup cached(m)
                BY <1>e, <3>3 DEF Reads, Writes
            <4>2. \A i \in {n, m} : KeyRow(k, i) \in Nat
                BY <1>e, <1>1, <1>2, <2>1, <2>3, <3>3 DEF KeyRow
            <4>3. \A i \in Nat : CacheSlot(k, i) = (k.kvPos * KvHeads) + i
                BY <1>1, SlotOffset
            <4>4. k.kvPos * KvHeads \in Nat  BY <1>1, <1>2
            <4>5. CacheSlot(k, KeyRow(k, n)) # CacheSlot(k, KeyRow(k, m))
                BY <4>2, <4>3, <4>4, <2>1
            <4> QED BY <3>1, <4>1, <4>5, <2>1 DEF At, AtCache, Caches
        <3> QED BY <3>2, <3>3
    <2> QED BY <2>2, <2>3
<1>f. CASE k.name \in {"scores", "softmax", "output"}
    <2>1. n \in 0 .. (k.rows * Heads) - 1 /\ m \in 0 .. (k.rows * Heads) - 1  BY <1>f DEF Blocks
    <2>2. \A i \in {n, m} : ScoreRow(k, i) \subseteq {(i * MaxSeqLen) + t : t \in 0 .. MaxSeqLen - 1}
        <3>1. k.kvLen \in Nat /\ k.rows \in Nat /\ k.kvLen + k.rows <= MaxSeqLen + 1
            BY <1>1, <1>2 DEF Launches, Fits
        <3>2. \A i \in {n, m} : i \div Heads \in 0 .. k.rows - 1  BY <2>1, RowsWithin
        <3> QED BY <3>1, <3>2, <1>2 DEF ScoreRow, KvLenOf
    <2>3. \A t \in 0 .. MaxSeqLen - 1, u \in 0 .. MaxSeqLen - 1 :
            (n * MaxSeqLen) + t # (m * MaxSeqLen) + u
        BY <2>1, <1>1, <1>2, Offsets
    <2>4. ScoreRow(k, n) \cap ScoreRow(k, m) = {}  BY <2>2, <2>3
    <2> QED BY <1>f, <2>4 DEF Reads, Writes, At, AtCache
<1> QED BY <1>1, <1>a, <1>b, <1>c, <1>d, <1>e, <1>f DEF Names, BlockNames
-----------------------------------------------------------------------------
(***************************************************************************)
(* The inductive invariant: what is launched or about to be is a launch of *)
(* the running request, and the State of the stream's request is allocated.*)
(***************************************************************************)
HostInv ==
    /\ call \in Nat /\ owner \in Nat /\ start \in Nat /\ rows \in Nat /\ produced \in Nat
    /\ greedy \in BOOLEAN
    /\ pc # "idle" => owner = call /\ prompt \in Prompts
    /\ pc = "prefill" => start + rows <= prompt
    /\ script # <<>> => pc \in {"prefill", "forward"}

GInv ==
    /\ HostInv
    /\ script \in Seq(Launches(call))
    /\ stream \in Seq(Launches(owner))
    /\ pc = "idle" => stream = <<>>

(* A chunk of the prefill and a token of the answer fit the caches. *)
LEMMA ScriptsFit ==
    ASSUME call \in Nat, NEW p \in Nat
    PROVE  /\ \A n \in 1 .. BatchCapacity :
                p + n <= MaxSeqLen => PrefillScript(p, n) \in Seq(Launches(call))
           /\ DecodeScript(p) \in Seq(Launches(call))
<1>1. ASSUME NEW n \in 1 .. BatchCapacity, p + n <= MaxSeqLen
      PROVE  PrefillScript(p, n) \in Seq(Launches(call))
    <2> DEFINE f == [call |-> call, pos |-> p, rows |-> n, kvPos |-> p, kvLen |-> p + 1, sinks |-> 0]
    <2>1. f \in Forwards(call)  BY <1>1, Sizes DEF Forwards, Fits
    <2> QED BY <2>1, ScriptType DEF PrefillScript
<1>2. DecodeScript(p) \in Seq(Launches(call))
    <2> DEFINE f == [call |-> call, pos |-> p, rows |-> 1,
                     kvPos |-> KvPos(p), kvLen |-> KvLen(p), sinks |-> NumSink(p)]
    <2>1. /\ KvPos(p) \in 0 .. MaxSeqLen - 1 /\ KvLen(p) \in 1 .. MaxSeqLen
          /\ NumSink(p) \in 0 .. MaxSeqLen
        BY RowsOfPosition, RowCounts DEF Slots
    <2>2. f \in Forwards(call)  BY <2>1, Sizes DEF Forwards, Fits
    <2> QED BY <2>2, ScriptType DEF DecodeScript
<1> QED BY <1>1, <1>2

(* Every step keeps the invariant. *)
LEMMA GInvNext == GInv /\ [Next]_vars => GInv'
<1>0. SUFFICES ASSUME GInv, [Next]_vars PROVE GInv'  OBVIOUS
<1>a. /\ call \in Nat /\ owner \in Nat /\ start \in Nat /\ rows \in Nat /\ produced \in Nat
      /\ greedy \in BOOLEAN
      /\ pc # "idle" => owner = call /\ prompt \in 1 .. MaxSeqLen /\ prompt \in Prompts
      /\ pc = "prefill" => start + rows <= prompt
      /\ script # <<>> => pc \in {"prefill", "forward"}
      /\ script \in Seq(Launches(call)) /\ stream \in Seq(Launches(owner))
      /\ pc = "idle" => stream = <<>>
    BY <1>0, Sizes DEF GInv, HostInv
<1>b. \A c : <<>> \in Seq(Launches(c))  BY EmptySeq
<1>2. ASSUME NEW n, RunBlock(n) PROVE GInv'
    <2>1. UNCHANGED hostVars /\ stream # <<>> /\ stream' \in {stream, Tail(stream)}
        BY <1>2 DEF RunBlock
    <2>2. Tail(stream) \in Seq(Launches(owner))  BY <2>1, <1>a, HeadTailProperties
    <2> QED BY <2>1, <2>2, <1>a DEF hostVars, Launches, GInv, HostInv
<1>3. CASE NextChunk
    <2>1. /\ pc = "prefill" /\ start' = start + rows /\ start + rows < prompt
          /\ rows' = Lesser(BatchSize, prompt - start') /\ script' = PrefillScript(start', rows')
          /\ UNCHANGED <<rotary, pc, call, prompt, greedy, produced, stream, owner>>
        BY <1>3 DEF NextChunk
    <2>2. start' \in Nat /\ start' < prompt /\ prompt \in 1 .. MaxSeqLen  BY <2>1, <1>a
    <2>3. /\ BatchSize \in Nat \ {0} /\ BatchSize <= prompt /\ BatchSize <= PrefillBatchSize
          /\ BatchCapacity = IF PrefillBatchSize < MaxSeqLen THEN PrefillBatchSize ELSE MaxSeqLen
        BY <2>2, Sizes DEF Lesser, BatchSize, BatchCapacity
    <2>4. rows' \in 1 .. BatchCapacity /\ start' + rows' <= prompt
        <3> HIDE DEF BatchSize
        <3> QED BY <2>1, <2>2, <2>3, Sizes DEF Lesser
    <2>5. rows' \in Nat /\ start' + rows' <= prompt  BY <2>4, Sizes
    <2>6. start' + rows' <= MaxSeqLen
        <3>1. \A a \in Nat, b \in Nat, p \in 1 .. MaxSeqLen : a + b <= p => a + b <= MaxSeqLen
            BY Sizes
        <3> QED BY <3>1, <2>2, <2>5, Zenon
    <2>7. script' \in Seq(Launches(call))  BY <2>1, <2>2, <2>4, <2>6, <1>a, ScriptsFit
    <2> QED BY <1>a, <2>1, <2>2, <2>4, <2>5, <2>7 DEF Launches, GInv, HostInv
<1>4. CASE LaunchNext
    <2>1. /\ script # <<>> /\ pc # "idle" /\ owner = call
          /\ script' = Tail(script) /\ stream' = Append(stream, Head(script))
          /\ UNCHANGED <<rotary, pc, call, prompt, greedy, start, rows, produced, owner>>
        BY <1>4, <1>a DEF LaunchNext
    <2>2. Head(script) \in Launches(call) /\ Tail(script) \in Seq(Launches(call))
        BY <2>1, <1>a, HeadTailProperties
    <2>3. Append(stream, Head(script)) \in Seq(Launches(owner))
        BY <2>1, <2>2, <1>a, AppendProperties
    <2> QED BY <2>1, <2>2, <2>3, <1>a DEF Launches, GInv, HostInv
<1>5. CASE TokenRefused
    BY <1>5, <1>a, <1>b DEF TokenRefused, Launches, GInv, HostInv
<1>6. CASE LaunchArgmax
    <2> DEFINE f == [call |-> call, pos |-> start, rows |-> 1, kvPos |-> 0, kvLen |-> 0, sinks |-> 0]
    <2>1. Launch("argmax", 0, f, 0) \in Launches(call)
        <3> DEFINE k == Launch("argmax", 0, f, 0)
        <3>1. k = [name |-> "argmax", layer |-> 0, call |-> call, pos |-> start, rows |-> 1,
                   row |-> 0, kvPos |-> 0, kvLen |-> 0, sinks |-> 0]
            BY DEF Launch
        <3>2. "argmax" \in Names \ BlockNames  BY DEF Names, BlockNames
        <3>3. /\ MaxSeqLen \in Nat \ {0} /\ BatchCapacity \in Nat \ {0} /\ Layers \in Nat
              /\ call \in Nat /\ start \in Nat
            BY <1>a, Sizes
        <3> HIDE DEF k, f
        <3>4. Fits(k)  BY <3>1, <3>3 DEF Fits
        <3>5. k \in [name : Names, layer : 0 .. Layers, call : {call}, pos : Nat, rows : Nat,
                     row : Nat, kvPos : Nat, kvLen : Nat, sinks : Nat]
            BY <3>1, <3>2, <3>3
        <3> QED BY <3>1, <3>2, <3>4, <3>5 DEF Launches, k
    <2>2. /\ pc = "sample" /\ pc' = "argmax" /\ stream' = Append(stream, Launch("argmax", 0, f, 0))
          /\ UNCHANGED <<rotary, call, prompt, greedy, start, rows, produced, script, owner>>
        BY <1>6 DEF LaunchArgmax
    <2> HIDE DEF f
    <2>3. stream' \in Seq(Launches(owner))  BY <2>1, <2>2, <1>a, AppendProperties
    <2> QED BY <2>2, <2>3, <1>a DEF Launches, GInv, HostInv
<1>7. CASE ForwardToken
    <2>1. start' \in Nat /\ script' = DecodeScript(start')  BY <1>7, <1>a DEF ForwardToken
    <2>2. script' \in Seq(Launches(call))  BY <2>1, <1>a, ScriptsFit
    <2> QED BY <1>7, <1>a, <2>1, <2>2 DEF ForwardToken, Launches, GInv, HostInv
<1>8. CASE Synchronize \/ ForwardLaunched \/ NothingSampled \/ EndAnswer
    BY <1>8, <1>a DEF Synchronize, ForwardLaunched, NothingSampled, EndAnswer,
                      Launches, GInv, HostInv
<1>9. CASE DownloadToken \/ DownloadLogits
    BY <1>9, <1>a DEF DownloadToken, DownloadLogits, Download, Launches, GInv, HostInv
<1>10. CASE FreeState
    BY <1>10, <1>a, <1>b DEF FreeState, Launches, GInv, HostInv
<1>11. ASSUME NEW n \in Prompts, NEW zero \in BOOLEAN, Call(n, zero) PROVE GInv'
    <2>1. script = <<>> /\ stream = <<>>  BY <1>11, <1>a DEF Call
    <2> QED BY <1>11, <1>a, <1>b, <2>1, Sizes DEF Call, GInv, HostInv
<1>12. CASE UNCHANGED vars
    BY <1>12, <1>a DEF vars, hostVars, Launches, GInv, HostInv
<1> QED BY <1>0, <1>2, <1>3, <1>4, <1>5, <1>6, <1>7, <1>8, <1>9, <1>10, <1>11, <1>12
        DEF Next, Host, Device

(* The invariant holds in every state. *)
LEMMA GInvAlways == Spec => []GInv
<1>1. Init => GInv
    <2>1. \A c : <<>> \in Seq(Launches(c))  BY EmptySeq
    <2> SUFFICES ASSUME Init PROVE GInv  OBVIOUS
    <2>2. HostInv  BY DEF Init, HostInv
    <2>3. script = <<>> /\ stream = <<>>  BY DEF Init
    <2> QED BY <2>1, <2>2, <2>3, Zenon DEF GInv
<1> QED BY <1>1, GInvNext, PTL DEF Spec

(***************************************************************************)
(* No kernel of a request runs once its State is freed, whether the answer *)
(* ended, the token was outside the vocabulary, or the sampler or the      *)
(* callback threw: ~State waits for the stream.                            *)
(***************************************************************************)
THEOREM Owned == Spec => []OwnBuffers
<1>1. GInv => OwnBuffers
    <2> SUFFICES ASSUME GInv, NEW n \in DOMAIN stream PROVE stream[n].call = owner
        BY DEF OwnBuffers
    <2>1. stream[n] \in Launches(owner)  BY DEF GInv
    <2> QED BY <2>1 DEF Launches
<1> QED BY <1>1, GInvAlways, PTL

(***************************************************************************)
(* The thread blocks of every kernel launched, in the prefill, in a step   *)
(* with a full cache or not, stay within the buffers the constructors      *)
(* allocated, and none writes what another one of the kernel uses.         *)
(***************************************************************************)
THEOREM Apart == Spec => []BlocksApart
<1>1. GInv => BlocksApart
    <2> SUFFICES ASSUME GInv, stream # <<>> PROVE BlocksApart  BY DEF BlocksApart
    <2> DEFINE k == Head(stream)
    <2>1. k \in Launches(owner)  BY HeadTailProperties DEF GInv
    <2> HIDE DEF k
    <2>2. \A n \in Blocks(k) : Reads(k, n) \cup Writes(k, n) \subseteq Locations
        BY <2>1, KernelWithin
    <2>3. \A n, m \in Blocks(k) :
            n # m => Writes(k, n) \cap (Reads(k, m) \cup Writes(k, m)) = {}
        BY <2>1, KernelApart
    <2> QED BY <2>2, <2>3, Zenon DEF BlocksApart, k
<1> QED BY <1>1, GInvAlways, PTL
(***************************************************************************)
(* What the kernels still to run will find.  The launches waiting in the   *)
(* stream and in the script are one queue; the host waits behind it, as a  *)
(* kernel of its own that finds what the forwards have left.               *)
(***************************************************************************)
Count == Len(stream) + Len(script)
Pending(i) == IF i <= Len(stream) THEN stream[i] ELSE script[i - Len(stream)]
Rest ==
    [name |-> IF pc = "argmax" THEN "chosen" ELSE "forwarded", layer |-> 0, call |-> call,
     pos |-> start, rows |-> rows, row |-> 0, kvPos |-> 0, kvLen |-> 0, sinks |-> 0]
Due == IF Count = 0 THEN Rest ELSE Pending(1)

(* The kernels that begin a block, up to the one that stores the keys.     *)
Storing == {"attnNorm", "projectQ", "projectK", "projectV", "qkNormRope"}
Ending == {"finalNorm", "classifier", "argmax", "chosen", "forwarded"}

(* The keys of the forward are stored, and the sinks turned, in layer m    *)
(* when kernel k begins: the last position for which each was done.        *)
Past(k, m, names) ==
    \/ k.name \in Ending
    \/ k.name \in BlockNames /\ (m < k.layer \/ (m = k.layer /\ k.name \notin names))
Span(k) == IF k.name = "argmax" THEN rows ELSE k.rows
LastStored(k, m) == k.pos - 1 + IF Past(k, m, Storing) THEN Span(k) ELSE 0
LastTurned(k, m) == k.pos - 1 + IF Past(k, m, Storing \cup {"rotateSinks"}) THEN Span(k) ELSE 0

(* The locations whose contents matter when kernel k begins.               *)
Needed(k, l) ==
    LET name == k.name  b == l[1]  i == l[3] IN
    \/ b = "x" /\ i < (IF name = "embedding" THEN k.row ELSE k.rows)
           /\ name \in BlockNames \cup {"embedding", "finalNorm"}
    \/ b = "norm" /\ i < k.rows /\ name \in {"projectQ", "projectK", "projectV", "gate", "up"}
    \/ b = "q" /\ i < k.rows * Heads
           /\ name \in {"projectK", "projectV", "qkNormRope", "rotateSinks", "scores"}
    \/ b = "k" /\ i < k.rows * KvHeads /\ name \in {"projectV", "qkNormRope"}
    \/ b = "v" /\ i < k.rows * KvHeads /\ name = "qkNormRope"
    \/ b = "scores" /\ name \in {"softmax", "output"}
           /\ \E n \in 0 .. (k.rows * Heads) - 1 : i \in ScoreRow(k, n)
    \/ b = "out" /\ i < k.rows * Heads /\ name = "projectOut"
    \/ b = "projected" /\ i < k.rows /\ name \in {"residual", "finalResidual"}
    \/ b = "lin1" /\ i < k.rows /\ name \in {"up", "silu", "down"}
    \/ b = "lin2" /\ i < k.rows /\ name = "silu"
    \/ b = "final" /\ i < k.rows /\ name = "classifier"
    \/ b = "logits" /\ name \in {"argmax", "chosen", "forwarded"} /\ Span(k) > 0
    \/ b = "sampled" /\ name = "chosen"
    \/ b \in Caches /\ i \div KvHeads <= LastStored(k, l[2])

(* What they hold.  A row of a cache of layer m, as of the last positions  *)
(* stored and turned there.                                                *)
CacheRow(b, m, c, row, stored, turned) ==
    IF b = "cacheK" /\ row < TurnedRows /\ turned >= MaxSeqLen
    THEN Stamp("rotateSinks", m, c, turned)
    ELSE Stamp("qkNormRope", m, c, ForwardOf(HeldBy(row, stored)))
Held(k, l) ==
    LET name == k.name  b == l[1]  m == l[2]  row == l[3] \div KvHeads
        here(n) == Stamp(n, k.layer, k.call, k.pos)
    IN CASE b = "x" ->
              IF name = "finalNorm" THEN Stamp("finalResidual", Layers, k.call, k.pos)
              ELSE IF name \in {"mlpNorm", "gate", "up", "silu", "down", "finalResidual"} THEN here("residual")
              ELSE IF k.layer \in {0, 1} THEN Stamp("embedding", 0, k.call, k.pos)
              ELSE Stamp("finalResidual", k.layer - 1, k.call, k.pos)
         [] b = "norm" -> here(IF name \in {"gate", "up"} THEN "mlpNorm" ELSE "attnNorm")
         [] b = "q" -> here(IF name \in {"rotateSinks", "scores"} THEN "qkNormRope" ELSE "projectQ")
         [] b = "k" -> here("projectK")
         [] b = "v" -> here("projectV")
         [] b = "scores" -> here(IF name = "softmax" THEN "scores" ELSE "softmax")
         [] b = "out" -> here("output")
         [] b = "projected" -> here(IF name = "residual" THEN "projectOut" ELSE "down")
         [] b = "lin1" -> here(IF name = "down" THEN "silu" ELSE "gate")
         [] b = "lin2" -> here("up")
         [] b = "final" -> here("finalNorm")
         [] b = "logits" -> here("classifier")
         [] b = "sampled" -> here("argmax")
         [] b \in Caches ->
              CacheRow(b, m, k.call, row, LastStored(k, m), LastTurned(k, m))

(* Kernel k2 is due right after kernel k.                                  *)
SameForward(k, k2) ==
    /\ k2.call = k.call /\ k2.pos = k.pos /\ k2.rows = k.rows
    /\ k2.kvPos = k.kvPos /\ k2.kvLen = k.kvLen /\ k2.sinks = k.sinks
After(name, name2) ==
    \/ name = "attnNorm" /\ name2 = "projectQ"
    \/ name = "projectQ" /\ name2 = "projectK"
    \/ name = "projectK" /\ name2 = "projectV"
    \/ name = "projectV" /\ name2 = "qkNormRope"
    \/ name = "rotateSinks" /\ name2 = "scores"
    \/ name = "scores" /\ name2 = "softmax"
    \/ name = "softmax" /\ name2 = "output"
    \/ name = "output" /\ name2 = "projectOut"
    \/ name = "projectOut" /\ name2 = "residual"
    \/ name = "residual" /\ name2 = "mlpNorm"
    \/ name = "mlpNorm" /\ name2 = "gate"
    \/ name = "gate" /\ name2 = "up"
    \/ name = "up" /\ name2 = "silu"
    \/ name = "silu" /\ name2 = "down"
    \/ name = "down" /\ name2 = "finalResidual"
Follows(k, k2) ==
    \/ SameForward(k, k2) /\ k2.layer = k.layer /\
         \/ After(k.name, k2.name)
         \/ k.name = "qkNormRope" /\ k2.name = IF SinksTurned(k) = 0 THEN "scores" ELSE "rotateSinks"
         \/ k.name = "embedding" /\ k2.name = "embedding" /\ k2.row = k.row + 1
         \/ k.name = "finalNorm" /\ k2.name = "classifier"
    \/ SameForward(k, k2) /\
         \/ k.name = "embedding" /\ k.row = k.rows - 1 /\ k2.name = "attnNorm" /\ k2.layer = 1
         \/ k.name = "finalResidual" /\ k.layer < Layers /\ k2.name = "attnNorm" /\ k2.layer = k.layer + 1
         \/ k.name = "finalResidual" /\ k.layer = Layers /\ k2.name = "finalNorm"
    \/ /\ k.name = "classifier" /\ k2.call = k.call
       /\ \/ k2.name = "embedding" /\ k2.row = 0 /\ k2.pos = k.pos + k.rows
          \/ k2.name \in {"argmax", "forwarded"} /\ k2.pos = k.pos /\ Span(k2) = k.rows
    \/ k.name = "argmax" /\ k2.name = "chosen" /\ k2.call = k.call /\ k2.pos = k.pos /\ k2.rows = rows

(* The arguments of a chunk of the prompt and of a token of the answer.    *)
OfChunk(k) ==
    /\ k.pos % BatchSize = 0 /\ k.rows \in 1 .. BatchSize /\ k.pos + k.rows <= prompt
    /\ k.kvPos = k.pos /\ k.kvLen = k.pos + 1 /\ k.sinks = 0
OfToken(k) ==
    /\ k.pos >= prompt /\ k.rows = 1
    /\ k.kvPos = KvPos(k.pos) /\ k.kvLen = KvLen(k.pos) /\ k.sinks = NumSink(k.pos)

(* A kernel of a chunk, of a token, or the one that chooses.               *)
Proper(k) ==
    /\ k.name = "argmax" \/ OfChunk(k) \/ OfToken(k)
    /\ k.name \notin BlockNames => k.layer = 0

(* A kernel, or the host behind the last one.                              *)
Waiting(c, k) ==
    \/ k \in Launches(c) /\ Proper(k)
    \/ k.name \in {"forwarded", "chosen"} /\ k.layer = 0 /\ k.call = c /\ k.pos \in Nat /\ k.rows \in Nat

StampOf(k) == Stamp(k.name, k.layer, k.call, k.pos)

(***************************************************************************)
(* The inductive invariant of a request that is answered.                  *)
(***************************************************************************)
Answering == pc \in {"prefill", "sample", "argmax", "callback", "forward"}

ProgressInv ==
    /\ pc = "prefill" => \/ start = 0 /\ rows = 0
                         \/ /\ start % BatchSize = 0 /\ rows > 0
                            /\ start + rows < prompt => rows = BatchSize
    /\ pc \in {"sample", "argmax", "callback", "forward"} => rows > 0 /\ start + rows >= prompt
    /\ pc = "argmax" => greedy
    /\ pc = "callback" => stream = <<>>

QueueInv ==
    /\ \A i \in 1 .. Count : Proper(Pending(i))
    /\ \A i \in 1 .. Count - 1 : Follows(Pending(i), Pending(i + 1))
    /\ Count > 0 => Follows(Pending(Count), Rest)

RanInv ==
    /\ stream = <<>> => ran = {}
    /\ stream # <<>> => ran \subseteq Blocks(Head(stream))

\* What memory holds when kernel k is the next to finish.
DeviceAt(k) ==
    \A l \in Locations :
        IF \E n \in ran : l \in Writes(k, n)
        THEN memory[l] = StampOf(k)
        ELSE Needed(k, l) => memory[l] = Held(k, l)

AnswerInv ==
    /\ DOMAIN memory = Locations
    /\ RanInv
    /\ Answering => ProgressInv /\ QueueInv /\ DeviceAt(Due)
    /\ HostReadsLastForward

-----------------------------------------------------------------------------
(* The row of a position below MaxSeqLen is its own; later ones do not     *)
(* take the rows of others.                                                *)
LEMMA HeldFirst ==
    ASSUME NEW last \in 0 .. MaxSeqLen - 1, NEW row \in 0 .. last
    PROVE  HeldBy(row, last) = row
<1> DEFINE ok(p) == KvPos(p) = row /\ \A o \in p + 1 .. last : KvPos(o) # row
<1>1. \A p \in 0 .. last : KvPos(p) = p  BY RowsOfPosition, RowCounts
<1>2. \A p \in 0 .. last : ok(p) <=> p = row  BY <1>1
<1>3. HeldBy(row, last) = CHOOSE p \in 0 .. last : ok(p)  BY DEF HeldBy
<1> HIDE DEF ok
<1> QED BY <1>2, <1>3

LEMMA HeldLast ==
    ASSUME NEW p \in Nat
    PROVE  HeldBy(KvPos(p), p) = p
<1> DEFINE row == KvPos(p)  ok(q) == KvPos(q) = row /\ \A o \in q + 1 .. p : KvPos(o) # row
<1>1. \A q \in 0 .. p : ok(q) <=> q = p  OBVIOUS
<1>2. HeldBy(row, p) = CHOOSE q \in 0 .. p : ok(q)  BY DEF HeldBy
<1> HIDE DEF ok
<1> QED BY <1>1, <1>2

LEMMA HeldStays ==
    ASSUME NEW p \in Nat \ {0}, NEW row, row # KvPos(p)
    PROVE  HeldBy(row, p) = HeldBy(row, p - 1)
<1> DEFINE ok(q, last) == q \in 0 .. last /\ KvPos(q) = row /\ \A o \in q + 1 .. last : KvPos(o) # row
<1>1. \A q : ok(q, p) <=> ok(q, p - 1)
    <2> TAKE q
    <2>1. q \in 0 .. p - 1 => q + 1 .. p = (q + 1 .. p - 1) \cup {p}  OBVIOUS
    <2>2. q \in 0 .. p <=> q \in 0 .. p - 1 \/ q = p  OBVIOUS
    <2> QED BY <2>1, <2>2
<1>2. HeldBy(row, p) = (CHOOSE q : ok(q, p)) /\ HeldBy(row, p - 1) = (CHOOSE q : ok(q, p - 1))
    BY Zenon DEF HeldBy
<1> HIDE DEF ok
<1> QED BY <1>1, <1>2

-----------------------------------------------------------------------------
(* The parts of a location. *)
LEMMA LocationParts ==
    ASSUME NEW l \in Locations
    PROVE  /\ l[1] \in DOMAIN Size /\ l[3] \in 0 .. Size[l[1]] - 1 /\ l = <<l[1], l[2], l[3]>>
           /\ l[1] \in Caches => l[2] \in 1 .. Layers
           /\ l[1] \notin Caches => l[2] = 0
           /\ l[3] \in Nat
<1>1. PICK b \in DOMAIN Size :
        l \in IF b \in Caches
              THEN UNION {AtCache(b, m, 0 .. Size[b] - 1) : m \in 1 .. Layers}
              ELSE At(b, 0 .. Size[b] - 1)
    BY DEF Locations
<1>2. \A n \in 0 .. Size[b] - 1 : n \in Nat  OBVIOUS
<1>3. CASE b \in Caches
    <2>1. PICK m \in 1 .. Layers : l \in AtCache(b, m, 0 .. Size[b] - 1)  BY <1>1, <1>3
    <2> QED BY <2>1, <1>2, <1>3 DEF AtCache
<1>4. CASE b \notin Caches
    <2>1. l \in At(b, 0 .. Size[b] - 1)  BY <1>1, <1>4
    <2> QED BY <2>1, <1>2, <1>4 DEF At
<1> QED BY <1>3, <1>4

LEMMA LocationIn ==
    ASSUME NEW l \in Locations, NEW b, NEW S
    PROVE  /\ b \notin Caches => (l \in At(b, S) <=> l[1] = b /\ l[3] \in S)
           /\ \A m : b \in Caches => (l \in AtCache(b, m, S) <=> l[1] = b /\ l[2] = m /\ l[3] \in S)
BY LocationParts DEF At, AtCache

LEMMA BufferNames ==
    /\ DOMAIN Size = {"x", "final", "logits", "sampled", "norm", "projected", "q", "out", "k", "v",
                      "lin1", "lin2", "scores", "cacheK", "cacheV"}
    /\ Caches = {"cacheK", "cacheV"}
    /\ Size["logits"] = 1 /\ Size["sampled"] = 1
BY DEF Size, Caches

(* What a kernel writes. *)
Touched(k, l) ==
    LET name == k.name  b == l[1]  i == l[3] IN
    \/ b = "x" /\ name = "embedding" /\ i = k.row
    \/ b = "x" /\ name \in {"residual", "finalResidual"} /\ i < k.rows
    \/ b = "norm" /\ name \in {"attnNorm", "mlpNorm"} /\ i < k.rows
    \/ b = "final" /\ name = "finalNorm" /\ i < k.rows
    \/ b = "q" /\ name \in {"projectQ", "qkNormRope"} /\ i < k.rows * Heads
    \/ b = "k" /\ name \in {"projectK", "qkNormRope"} /\ i < k.rows * KvHeads
    \/ b = "v" /\ name = "projectV" /\ i < k.rows * KvHeads
    \/ b \in Caches /\ name = "qkNormRope" /\ l[2] = k.layer
           /\ i \div KvHeads \in k.kvPos .. k.kvPos + k.rows - 1
    \/ b = "cacheK" /\ name = "rotateSinks" /\ l[2] = k.layer /\ i \div KvHeads < SinksTurned(k)
    \/ b = "scores" /\ name \in {"scores", "softmax"}
           /\ \E n \in 0 .. (k.rows * Heads) - 1 : i \in ScoreRow(k, n)
    \/ b = "out" /\ name = "output" /\ i < k.rows * Heads
    \/ b = "projected" /\ name \in {"projectOut", "down"} /\ i < k.rows
    \/ b = "lin1" /\ name \in {"gate", "silu"} /\ i < k.rows
    \/ b = "lin2" /\ name = "up" /\ i < k.rows
    \/ b = "logits" /\ name = "classifier"
    \/ b = "sampled" /\ name = "argmax"

LEMMA KernelTouches ==
    ASSUME NEW c, NEW k \in Launches(c), NEW l \in Locations
    PROVE  (\E n \in Blocks(k) : l \in Writes(k, n)) <=> Touched(k, l)
<1> DEFINE b == l[1]  i == l[3]
<1>1. /\ k.rows \in Nat \ {0} /\ k.kvPos \in Nat /\ SinksTurned(k) \in Nat /\ k.name \in Names
    BY Sizes DEF Launches, Fits, SinksTurned
<1>2. Heads \in Nat \ {0} /\ KvHeads \in Nat \ {0}  BY Sizes
<1>3. i \in Nat /\ b \in DOMAIN Size /\ i \in 0 .. Size[b] - 1  BY LocationParts
<1>4. /\ \A o, S : o \notin Caches => (l \in At(o, S) <=> b = o /\ i \in S)
      /\ \A o, m, S : o \in Caches => (l \in AtCache(o, m, S) <=> b = o /\ l[2] = m /\ i \in S)
    BY LocationIn, Zenon
<1>s. \A o, n : o \notin Caches => (l \in At(o, {n}) <=> b = o /\ i = n)
    BY LocationIn
<1>5. \A w \in Nat : i \in 0 .. (k.rows * w) - 1 <=> i < k.rows * w
    BY <1>1, <1>3
<1>a. CASE k.name \in {"embedding", "classifier", "argmax"}
    <2>1. b \in {"logits", "sampled"} => i = 0  BY <1>3, BufferNames
    <2> QED BY <1>a, <1>4, <2>1, BufferNames, ZenonT(40) DEF Blocks, Writes, Touched
<1>b. CASE k.name \in {"attnNorm", "mlpNorm", "finalNorm", "residual", "finalResidual",
                       "gate", "up", "silu", "down", "projectOut"}
    <2>1. Blocks(k) = 0 .. k.rows - 1  BY <1>b DEF Blocks
    <2>2. ASSUME NEW o, o \notin Caches, \A n : Writes(k, n) = At(o, {n}),
                 Touched(k, l) <=> b = o /\ i < k.rows
          PROVE  (\E n \in Blocks(k) : l \in Writes(k, n)) <=> Touched(k, l)
        <3>1. \A n : l \in Writes(k, n) <=> b = o /\ i = n
            <4> TAKE n
            <4>1. Writes(k, n) = At(o, {n})  BY <2>2
            <4>2. l \in At(o, {n}) <=> b = o /\ i = n  BY <2>2, <1>s
            <4> QED BY <4>1, <4>2
        <3>2. i < k.rows <=> i \in 0 .. k.rows - 1  BY <1>1, <1>3
        <3> QED BY <2>1, <2>2, <3>1, <3>2
    <2>3. CASE k.name \in {"attnNorm", "mlpNorm"}
        <3>1. Touched(k, l) <=> b = "norm" /\ i < k.rows  BY <2>3 DEF Touched
        <3>2. \A n : Writes(k, n) = At("norm", {n})  BY <2>3 DEF Writes
        <3> QED BY <3>1, <3>2, <2>2, BufferNames
    <2>4. CASE k.name = "finalNorm"
        <3>1. Touched(k, l) <=> b = "final" /\ i < k.rows  BY <2>4 DEF Touched
        <3>2. \A n : Writes(k, n) = At("final", {n})  BY <2>4 DEF Writes
        <3> QED BY <3>1, <3>2, <2>2, BufferNames
    <2>5. CASE k.name \in {"residual", "finalResidual"}
        <3>1. Touched(k, l) <=> b = "x" /\ i < k.rows  BY <2>5 DEF Touched
        <3>2. \A n : Writes(k, n) = At("x", {n})  BY <2>5 DEF Writes
        <3> QED BY <3>1, <3>2, <2>2, BufferNames
    <2>6. CASE k.name \in {"gate", "silu"}
        <3>1. Touched(k, l) <=> b = "lin1" /\ i < k.rows  BY <2>6 DEF Touched
        <3>2. \A n : Writes(k, n) = At("lin1", {n})  BY <2>6 DEF Writes
        <3> QED BY <3>1, <3>2, <2>2, BufferNames
    <2>7. CASE k.name = "up"
        <3>1. Touched(k, l) <=> b = "lin2" /\ i < k.rows  BY <2>7 DEF Touched
        <3>2. \A n : Writes(k, n) = At("lin2", {n})  BY <2>7 DEF Writes
        <3> QED BY <3>1, <3>2, <2>2, BufferNames
    <2>8. CASE k.name \in {"projectOut", "down"}
        <3>1. Touched(k, l) <=> b = "projected" /\ i < k.rows  BY <2>8 DEF Touched
        <3>2. \A n : Writes(k, n) = At("projected", {n})  BY <2>8 DEF Writes
        <3> QED BY <3>1, <3>2, <2>2, BufferNames
    <2> QED BY <1>b, <2>3, <2>4, <2>5, <2>6, <2>7, <2>8
<1>6. ASSUME NEW o, o \notin Caches, NEW w \in Nat \ {0}, Blocks(k) = 0 .. (k.rows * w) - 1,
             \A n : Writes(k, n) = At(o, {n}), Touched(k, l) <=> b = o /\ i < k.rows * w
      PROVE  (\E n \in Blocks(k) : l \in Writes(k, n)) <=> Touched(k, l)
    <2>1. \A n : l \in Writes(k, n) <=> b = o /\ i = n
        <3> TAKE n
        <3>1. Writes(k, n) = At(o, {n})  BY <1>6
        <3>2. l \in At(o, {n}) <=> b = o /\ i = n  BY <1>6, <1>s
        <3> QED BY <3>1, <3>2
    <2> QED BY <1>6, <2>1, <1>5
<1>c. CASE k.name = "projectQ"
    <2>1. Touched(k, l) <=> b = "q" /\ i < k.rows * Heads  BY <1>c DEF Touched
    <2>2. \A n : Writes(k, n) = At("q", {n})  BY <1>c DEF Writes
    <2>3. Blocks(k) = 0 .. (k.rows * Heads) - 1  BY <1>c DEF Blocks
    <2> QED BY <2>1, <2>2, <2>3, <1>2, <1>6, BufferNames
<1>d. CASE k.name = "projectK"
    <2>1. Touched(k, l) <=> b = "k" /\ i < k.rows * KvHeads  BY <1>d DEF Touched
    <2>2. \A n : Writes(k, n) = At("k", {n})  BY <1>d DEF Writes
    <2>3. Blocks(k) = 0 .. (k.rows * KvHeads) - 1  BY <1>d DEF Blocks
    <2> QED BY <2>1, <2>2, <2>3, <1>2, <1>6, BufferNames
<1>e. CASE k.name = "projectV"
    <2>1. Touched(k, l) <=> b = "v" /\ i < k.rows * KvHeads  BY <1>e DEF Touched
    <2>2. \A n : Writes(k, n) = At("v", {n})  BY <1>e DEF Writes
    <2>3. Blocks(k) = 0 .. (k.rows * KvHeads) - 1  BY <1>e DEF Blocks
    <2> QED BY <2>1, <2>2, <2>3, <1>2, <1>6, BufferNames
<1>f. CASE k.name = "output"
    <2>1. Touched(k, l) <=> b = "out" /\ i < k.rows * Heads  BY <1>f DEF Touched
    <2>2. \A n : Writes(k, n) = At("out", {n})  BY <1>f DEF Writes
    <2>3. Blocks(k) = 0 .. (k.rows * Heads) - 1  BY <1>f DEF Blocks
    <2> QED BY <2>1, <2>2, <2>3, <1>2, <1>6, BufferNames
<1>g. CASE k.name \in {"scores", "softmax"}
    <2>1. Touched(k, l) <=> b = "scores" /\ \E n \in 0 .. (k.rows * Heads) - 1 : i \in ScoreRow(k, n)
        BY <1>g DEF Touched
    <2>2. \A n : Writes(k, n) = At("scores", ScoreRow(k, n))  BY <1>g DEF Writes
    <2>3. Blocks(k) = 0 .. (k.rows * Heads) - 1  BY <1>g DEF Blocks
    <2>4. \A n : l \in Writes(k, n) <=> b = "scores" /\ i \in ScoreRow(k, n)
        BY <2>2, <1>4, BufferNames
    <2> QED BY <2>1, <2>3, <2>4
<1>h. CASE k.name = "rotateSinks"
    <2>1. Touched(k, l) <=> b = "cacheK" /\ l[2] = k.layer /\ i \div KvHeads < SinksTurned(k)
        BY <1>h, BufferNames DEF Touched
    <2>2. Blocks(k) = 0 .. (SinksTurned(k) * KvHeads) - 1  BY <1>h DEF Blocks
    <2>3. \A n : l \in Writes(k, n) <=> b = "cacheK" /\ l[2] = k.layer /\ i = n
        BY <1>h, <1>4, BufferNames DEF Writes
    <2>4. i \in 0 .. (SinksTurned(k) * KvHeads) - 1 <=> i < SinksTurned(k) * KvHeads  BY <1>1, <1>2, <1>3
    <2>5. i < SinksTurned(k) * KvHeads <=> i \div KvHeads < SinksTurned(k)  BY <1>1, <1>2, <1>3, QuotientBelow
    <2> QED BY <2>1, <2>2, <2>3, <2>4, <2>5
<1>i. CASE k.name = "qkNormRope"
    <2>1. Touched(k, l) <=>
            \/ b = "q" /\ i < k.rows * Heads
            \/ b = "k" /\ i < k.rows * KvHeads
            \/ b \in Caches /\ l[2] = k.layer /\ i \div KvHeads \in k.kvPos .. k.kvPos + k.rows - 1
        BY <1>i, BufferNames DEF Touched
    <2>2. /\ Blocks(k) = 0 .. (k.rows * Heads) + (k.rows * KvHeads) - 1
          /\ k.rows * Heads \in Nat /\ k.rows * KvHeads \in Nat
        <3>1. k.rows * (Heads + KvHeads) = (k.rows * Heads) + (k.rows * KvHeads)  BY <1>1, <1>2
        <3>2. k.rows * Heads \in Nat /\ k.rows * KvHeads \in Nat  BY <1>1, <1>2
        <3> QED BY <1>i, <3>1, <3>2 DEF Blocks
    <2>3. \A n : l \in Writes(k, n) <=>
            \/ n < k.rows * Heads /\ b = "q" /\ i = n
            \/ ~(n < k.rows * Heads) /\ b = "k" /\ i = KeyRow(k, n)
            \/ ~(n < k.rows * Heads) /\ b \in Caches /\ l[2] = k.layer /\ i = CacheSlot(k, KeyRow(k, n))
        <3> TAKE n
        <3>1. l \in UNION {AtCache(o, k.layer, {CacheSlot(k, KeyRow(k, n))}) : o \in Caches}
                <=> b \in Caches /\ l[2] = k.layer /\ i = CacheSlot(k, KeyRow(k, n))
            BY <1>4
        <3> QED BY <1>i, <3>1, <1>4, BufferNames DEF Writes
    <2>4. \A n \in Blocks(k) : ~(n < k.rows * Heads) =>
            /\ KeyRow(k, n) \in 0 .. (k.rows * KvHeads) - 1
            /\ CacheSlot(k, KeyRow(k, n)) = (k.kvPos * KvHeads) + KeyRow(k, n)
        <3> TAKE n \in Blocks(k)
        <3> HAVE ~(n < k.rows * Heads)
        <3>1. KeyRow(k, n) \in 0 .. (k.rows * KvHeads) - 1  BY <2>2 DEF KeyRow
        <3>2. KeyRow(k, n) \in Nat  BY <3>1, <2>2
        <3> QED BY <3>1, <3>2, <1>1, SlotOffset
    <2>5. \A j \in 0 .. (k.rows * KvHeads) - 1 :
            /\ (k.rows * Heads) + j \in Blocks(k) /\ ~((k.rows * Heads) + j < k.rows * Heads)
            /\ KeyRow(k, (k.rows * Heads) + j) = j
        BY <2>2 DEF KeyRow
    <2>6. i \div KvHeads \in k.kvPos .. k.kvPos + k.rows - 1
            <=> \E j \in 0 .. (k.rows * KvHeads) - 1 : i = (k.kvPos * KvHeads) + j
        <3>1. /\ i \div KvHeads \in Nat
              /\ i \div KvHeads < k.kvPos <=> i < k.kvPos * KvHeads
              /\ i \div KvHeads < k.kvPos + k.rows <=> i < (k.kvPos + k.rows) * KvHeads
            <4>1. k.kvPos + k.rows \in Nat  BY <1>1
            <4> QED BY <4>1, <1>1, <1>2, <1>3, QuotientBelow, Zenon
        <3>2. (k.kvPos + k.rows) * KvHeads = (k.kvPos * KvHeads) + (k.rows * KvHeads)  BY <1>1, <1>2
        <3>3. k.kvPos * KvHeads \in Nat  BY <1>1, <1>2
        <3>4. i \div KvHeads \in k.kvPos .. k.kvPos + k.rows - 1
                <=> ~(i \div KvHeads < k.kvPos) /\ i \div KvHeads < k.kvPos + k.rows
            BY <3>1, <1>1
        <3>5. \A s, w \in Nat : ~(i < s) /\ i < s + w <=> \E j \in 0 .. w - 1 : i = s + j
            <4> TAKE s, w \in Nat
            <4>1. ASSUME ~(i < s), i < s + w PROVE \E j \in 0 .. w - 1 : i = s + j
                <5>1. i - s \in 0 .. w - 1 /\ i = s + (i - s)  BY <1>3, <4>1
                <5> QED BY <5>1
            <4>2. ASSUME NEW j \in 0 .. w - 1, i = s + j PROVE ~(i < s) /\ i < s + w
                BY <4>2
            <4> QED BY <4>1, <4>2
        <3>6. ~(i < k.kvPos * KvHeads) /\ i < (k.kvPos * KvHeads) + (k.rows * KvHeads)
                <=> \E j \in 0 .. (k.rows * KvHeads) - 1 : i = (k.kvPos * KvHeads) + j
            BY <3>3, <3>5, <2>2, Zenon
        <3> QED BY <3>1, <3>2, <3>4, <3>6, Zenon
    <2>7. Touched(k, l) => \E n \in Blocks(k) : l \in Writes(k, n)
        <3>1. ASSUME b = "q", i < k.rows * Heads PROVE \E n \in Blocks(k) : l \in Writes(k, n)
            <4>1. i \in Blocks(k)  BY <3>1, <2>2, <1>3
            <4> QED BY <3>1, <4>1, <2>3
        <3>2. ASSUME b = "k", i < k.rows * KvHeads PROVE \E n \in Blocks(k) : l \in Writes(k, n)
            <4>1. i \in 0 .. (k.rows * KvHeads) - 1  BY <3>2, <2>2, <1>3
            <4> QED BY <3>2, <4>1, <2>3, <2>5
        <3>3. ASSUME b \in Caches, l[2] = k.layer, NEW j \in 0 .. (k.rows * KvHeads) - 1,
                     i = (k.kvPos * KvHeads) + j
              PROVE  \E n \in Blocks(k) : l \in Writes(k, n)
            <4>1. CacheSlot(k, KeyRow(k, (k.rows * Heads) + j)) = i  BY <3>3, <2>4, <2>5
            <4> QED BY <3>3, <4>1, <2>3, <2>5
        <3> QED BY <2>1, <2>6, <3>1, <3>2, <3>3
    <2>8. ASSUME NEW n \in Blocks(k), l \in Writes(k, n) PROVE Touched(k, l)
        BY <2>1, <2>2, <2>3, <2>4, <2>6, <2>8
    <2> QED BY <2>7, <2>8
<1> QED BY <1>1, <1>a, <1>b, <1>c, <1>d, <1>e, <1>f, <1>g, <1>h, <1>i DEF Names, BlockNames

-----------------------------------------------------------------------------
(* Source and Held, buffer by buffer.                                      *)
LEMMA SourceOf ==
    ASSUME NEW k, NEW l
    PROVE  /\ l[1] = "x" => Source(k, l) =
                IF k.name = "finalNorm" THEN Stamp("finalResidual", Layers, k.call, k.pos)
                ELSE IF k.name \in {"mlpNorm", "finalResidual"} THEN Stamp("residual", k.layer, k.call, k.pos)
                ELSE IF k.layer = 1 THEN Stamp("embedding", 0, k.call, k.pos)
                ELSE Stamp("finalResidual", k.layer - 1, k.call, k.pos)
           /\ l[1] = "norm" => Source(k, l) =
                Stamp(IF k.name \in {"gate", "up"} THEN "mlpNorm" ELSE "attnNorm", k.layer, k.call, k.pos)
           /\ l[1] = "q" => Source(k, l) =
                Stamp(IF k.name = "scores" THEN "qkNormRope" ELSE "projectQ", k.layer, k.call, k.pos)
           /\ l[1] = "k" => Source(k, l) = Stamp("projectK", k.layer, k.call, k.pos)
           /\ l[1] = "v" => Source(k, l) = Stamp("projectV", k.layer, k.call, k.pos)
           /\ l[1] = "scores" => Source(k, l) =
                Stamp(IF k.name = "softmax" THEN "scores" ELSE "softmax", k.layer, k.call, k.pos)
           /\ l[1] = "out" => Source(k, l) = Stamp("output", k.layer, k.call, k.pos)
           /\ l[1] = "projected" => Source(k, l) =
                Stamp(IF k.name = "residual" THEN "projectOut" ELSE "down", k.layer, k.call, k.pos)
           /\ l[1] = "lin1" => Source(k, l) =
                Stamp(IF k.name = "silu" THEN "gate" ELSE "silu", k.layer, k.call, k.pos)
           /\ l[1] = "lin2" => Source(k, l) = Stamp("up", k.layer, k.call, k.pos)
           /\ l[1] = "final" => Source(k, l) = Stamp("finalNorm", k.layer, k.call, k.pos)
           /\ l[1] = "logits" => Source(k, l) = Stamp("classifier", k.layer, k.call, k.pos)
BY DEF Source

LEMMA HeldOf ==
    ASSUME NEW k, NEW l
    PROVE  /\ l[1] = "x" => Held(k, l) =
                IF k.name = "finalNorm" THEN Stamp("finalResidual", Layers, k.call, k.pos)
                ELSE IF k.name \in {"mlpNorm", "gate", "up", "silu", "down", "finalResidual"}
                THEN Stamp("residual", k.layer, k.call, k.pos)
                ELSE IF k.layer \in {0, 1} THEN Stamp("embedding", 0, k.call, k.pos)
                ELSE Stamp("finalResidual", k.layer - 1, k.call, k.pos)
           /\ l[1] = "norm" => Held(k, l) =
                Stamp(IF k.name \in {"gate", "up"} THEN "mlpNorm" ELSE "attnNorm", k.layer, k.call, k.pos)
           /\ l[1] = "q" => Held(k, l) =
                Stamp(IF k.name \in {"rotateSinks", "scores"} THEN "qkNormRope" ELSE "projectQ",
                      k.layer, k.call, k.pos)
           /\ l[1] = "k" => Held(k, l) = Stamp("projectK", k.layer, k.call, k.pos)
           /\ l[1] = "v" => Held(k, l) = Stamp("projectV", k.layer, k.call, k.pos)
           /\ l[1] = "scores" => Held(k, l) =
                Stamp(IF k.name = "softmax" THEN "scores" ELSE "softmax", k.layer, k.call, k.pos)
           /\ l[1] = "out" => Held(k, l) = Stamp("output", k.layer, k.call, k.pos)
           /\ l[1] = "projected" => Held(k, l) =
                Stamp(IF k.name = "residual" THEN "projectOut" ELSE "down", k.layer, k.call, k.pos)
           /\ l[1] = "lin1" => Held(k, l) =
                Stamp(IF k.name = "down" THEN "silu" ELSE "gate", k.layer, k.call, k.pos)
           /\ l[1] = "lin2" => Held(k, l) = Stamp("up", k.layer, k.call, k.pos)
           /\ l[1] = "final" => Held(k, l) = Stamp("finalNorm", k.layer, k.call, k.pos)
           /\ l[1] = "logits" => Held(k, l) = Stamp("classifier", k.layer, k.call, k.pos)
           /\ l[1] = "sampled" => Held(k, l) = Stamp("argmax", k.layer, k.call, k.pos)
           /\ l[1] \in Caches => Held(k, l) =
                CacheRow(l[1], l[2], k.call, l[3] \div KvHeads, LastStored(k, l[2]), LastTurned(k, l[2]))
BY DEF Held, Caches

(* Sinks are turned for a token past the end of the cache only.            *)
LEMMA ProperSinks ==
    ASSUME prompt \in 1 .. MaxSeqLen, NEW c, NEW k \in Launches(c), Proper(k), k.name # "argmax"
    PROVE  /\ k.pos \in Nat /\ k.rows \in Nat \ {0}
           /\ k.pos + k.rows - 1 < MaxSeqLen => SinksTurned(k) = 0
           /\ k.pos + k.rows - 1 >= MaxSeqLen =>
                k.rows = 1 /\ SinksTurned(k) = TurnedRows /\ k.pos >= MaxSeqLen /\ k.kvPos = KvPos(k.pos)
           /\ k.kvLen + k.rows - 1 <= k.pos + k.rows
<1>1. k.pos \in Nat /\ k.rows \in Nat \ {0}  BY Sizes DEF Launches, Fits
<1>2. CASE OfChunk(k)
    <2>1. k.rows >= 1 /\ k.pos + k.rows <= prompt /\ k.kvLen = k.pos + 1 /\ SinksTurned(k) = 0
        BY <1>2, <1>1 DEF OfChunk, SinksTurned
    <2>2. prompt \in Nat /\ prompt <= MaxSeqLen /\ MaxSeqLen \in Nat  BY RowCounts
    <2>3. k.pos + k.rows - 1 < MaxSeqLen  BY <1>1, <2>1, <2>2
    <2> QED BY <1>1, <2>1, <2>2, <2>3
<1>3. CASE OfToken(k)
    <2>1. k.rows = 1 /\ k.sinks = NumSink(k.pos) /\ k.kvPos = KvPos(k.pos) /\ k.kvLen = KvLen(k.pos)
        BY <1>3 DEF OfToken
    <2>2. SinksTurned(k) = IF k.pos >= MaxSeqLen THEN TurnedRows ELSE 0
        BY <1>1, <2>1, RowsOfPosition DEF SinksTurned, TurnedRows
    <2>3. KvLen(k.pos) <= k.pos + 1  BY <1>1, RowCounts DEF KvLen
    <2>4. KvLen(k.pos) \in Nat  BY <1>1, RowsOfPosition, RowCounts
    <2> QED BY <1>1, <2>1, <2>2, <2>3, <2>4, RowCounts
<1> QED BY <1>2, <1>3 DEF Proper

(* What a kernel reads of a cache is there.                                *)
LEMMA CacheHeld ==
    ASSUME prompt \in 1 .. MaxSeqLen, NEW c, NEW k \in Launches(c), Proper(k),
           k.name \in {"rotateSinks", "scores", "output"},
           NEW l \in Locations, l[1] \in Caches, l[2] = k.layer,
           l[3] \div KvHeads < k.pos + k.rows,
           k.name = "rotateSinks" => l[1] = "cacheK" /\ l[3] \div KvHeads < SinksTurned(k),
           k.name = "output" => l[1] = "cacheV"
    PROVE  Needed(k, l) /\ Source(k, l) = Held(k, l)
<1> DEFINE row == l[3] \div KvHeads  last == k.pos + k.rows - 1
<1>1. /\ k.pos \in Nat /\ k.rows \in Nat \ {0} /\ SinksTurned(k) \in Nat /\ k.layer \in 1 .. Layers
      /\ row \in Nat /\ TurnedRows \in 0 .. MaxSeqLen - 1 /\ MaxSeqLen \in Nat \ {0}
    <2>1. row \in Nat  BY LocationParts, Sizes, QuotientBelow
    <2>2. k.name \in BlockNames  BY DEF BlockNames
    <2> QED BY <2>1, <2>2, Sizes, RowCounts DEF Launches, Fits, SinksTurned
<1>2. /\ last < MaxSeqLen => SinksTurned(k) = 0
      /\ last >= MaxSeqLen => k.rows = 1 /\ SinksTurned(k) = TurnedRows
    BY ProperSinks
<1>3. /\ LastStored(k, l[2]) = last
      /\ LastTurned(k, l[2]) = IF k.name = "rotateSinks" THEN k.pos - 1 ELSE last
    BY <1>1 DEF LastStored, LastTurned, Past, Span, Storing, BlockNames, Ending
<1>4. Needed(k, l)  BY <1>1, <1>3 DEF Needed
<1>5. Source(k, l) =
        IF l[1] = "cacheV" \/ row >= SinksTurned(k)
        THEN Stamp("qkNormRope", k.layer, k.call, ForwardOf(HeldBy(row, last)))
        ELSE IF k.name = "scores" THEN Stamp("rotateSinks", k.layer, k.call, k.pos)
        ELSE IF k.pos > MaxSeqLen THEN Stamp("rotateSinks", k.layer, k.call, k.pos - 1)
        ELSE Stamp("qkNormRope", k.layer, k.call, ForwardOf(HeldBy(row, last)))
    <2>1. CASE l[1] = "cacheV"  BY <2>1 DEF Source
    <2>2. CASE l[1] = "cacheK"  BY <2>2 DEF Source
    <2> QED BY <2>1, <2>2, BufferNames
<1>6. Held(k, l) =
        IF l[1] = "cacheK" /\ row < TurnedRows /\ LastTurned(k, l[2]) >= MaxSeqLen
        THEN Stamp("rotateSinks", k.layer, k.call, LastTurned(k, l[2]))
        ELSE Stamp("qkNormRope", k.layer, k.call, ForwardOf(HeldBy(row, last)))
    BY <1>3, BufferNames, HeldOf DEF CacheRow
<1> HIDE DEF row
<1>7. CASE k.name = "rotateSinks"
    <2>1. last >= MaxSeqLen /\ k.pos >= MaxSeqLen /\ SinksTurned(k) = TurnedRows /\ row < TurnedRows
        BY <1>7, <1>1, <1>2 DEF row
    <2> QED BY <1>7, <1>1, <1>3, <1>4, <1>5, <1>6, <2>1, BufferNames
<1>8. CASE k.name = "output"
    BY <1>8, <1>4, <1>5, <1>6
<1>9. CASE k.name = "scores"
    <2>1. CASE last < MaxSeqLen
        <3>1. row >= SinksTurned(k) /\ ~(LastTurned(k, l[2]) >= MaxSeqLen)  BY <2>1, <1>1, <1>2, <1>3, <1>9
        <3> QED BY <3>1, <1>4, <1>5, <1>6
    <2>2. CASE last >= MaxSeqLen
        <3>1. SinksTurned(k) = TurnedRows /\ LastTurned(k, l[2]) = k.pos /\ k.pos >= MaxSeqLen
            BY <2>2, <1>1, <1>2, <1>3, <1>9
        <3> QED BY <3>1, <1>1, <1>4, <1>5, <1>6, <1>9, BufferNames
    <2> QED BY <2>1, <2>2, <1>1
<1> QED BY <1>7, <1>8, <1>9

(***************************************************************************)
(* A kernel needs what it reads, and finds in it what it is due to.        *)
(***************************************************************************)
LEMMA ReadsNeeded ==
    ASSUME prompt \in 1 .. MaxSeqLen, rows \in Nat \ {0},
           NEW c, NEW k \in Launches(c), Proper(k), NEW n \in Blocks(k), NEW l \in Reads(k, n)
    PROVE  l \in Locations /\ Needed(k, l) /\ Source(k, l) = Held(k, l)
<1>0. l \in Locations  BY KernelWithin
<1>1. /\ k.rows \in Nat \ {0} /\ k.name \in Names /\ Heads \in Nat \ {0} /\ KvHeads \in Nat \ {0}
      /\ k.name \in BlockNames => k.layer \in 1 .. Layers
    BY Sizes DEF Launches, Fits
<1>2. /\ \A o, S : o \notin Caches => (l \in At(o, S) <=> l[1] = o /\ l[3] \in S)
      /\ \A o, m, S : o \in Caches => (l \in AtCache(o, m, S) <=> l[1] = o /\ l[2] = m /\ l[3] \in S)
    BY <1>0, LocationIn, Zenon
<1>3. k.rows * Heads \in Nat /\ k.rows * KvHeads \in Nat  BY <1>1
<1>a. CASE k.name \in {"attnNorm", "mlpNorm", "finalNorm"}
    <2>1. n \in 0 .. k.rows - 1 /\ l[1] = "x" /\ l[3] = n
        BY <1>a, <1>2, BufferNames DEF Blocks, Reads
    <2>2. Needed(k, l)  BY <1>a, <2>1, <1>1 DEF Needed, BlockNames
    <2>3. k.name # "finalNorm" => k.layer # 0  BY <1>a, <1>1 DEF BlockNames
    <2> QED BY <1>0, <1>a, <2>1, <2>2, <2>3, SourceOf, HeldOf
<1>b. CASE k.name \in {"residual", "finalResidual"}
    <2>1. n \in 0 .. k.rows - 1 /\ (l[1] = "x" \/ l[1] = "projected") /\ l[3] = n
        BY <1>b, <1>2, BufferNames DEF Blocks, Reads
    <2>2. Needed(k, l)  BY <1>b, <2>1, <1>1 DEF Needed, BlockNames
    <2>3. k.layer # 0  BY <1>b, <1>1 DEF BlockNames
    <2> QED BY <1>0, <1>b, <2>1, <2>2, <2>3, SourceOf, HeldOf
<1>c. CASE k.name \in {"projectQ", "projectK", "projectV", "gate", "up"}
    <2>1. l[1] = "norm" /\ l[3] \in 0 .. k.rows - 1
        <3>1. CASE k.name = "projectQ"
            <4>1. n \div Heads \in 0 .. k.rows - 1  BY <3>1, RowsWithin DEF Blocks
            <4> QED BY <3>1, <4>1, <1>2, BufferNames DEF Reads
        <3>2. CASE k.name \in {"projectK", "projectV"}
            <4>1. n \div KvHeads \in 0 .. k.rows - 1  BY <3>2, RowsWithin DEF Blocks
            <4> QED BY <3>2, <4>1, <1>2, BufferNames DEF Reads
        <3>3. CASE k.name \in {"gate", "up"}
            BY <3>3, <1>2, BufferNames DEF Blocks, Reads
        <3> QED BY <1>c, <3>1, <3>2, <3>3
    <2> QED BY <1>0, <1>c, <2>1, <1>1, SourceOf, HeldOf DEF Needed
<1>d. CASE k.name = "qkNormRope"
    <2>1. \/ l[1] = "q" /\ l[3] < k.rows * Heads
          \/ l[1] \in {"k", "v"} /\ l[3] < k.rows * KvHeads
        <3>1. k.rows * (Heads + KvHeads) = (k.rows * Heads) + (k.rows * KvHeads)  BY <1>1
        <3> DEFINE all == k.rows * (Heads + KvHeads)
        <3>a. n \in 0 .. all - 1  BY <1>d DEF Blocks
        <3>b. all = (k.rows * Heads) + (k.rows * KvHeads)  BY <3>1
        <3> HIDE DEF all
        <3>2. n \in 0 .. ((k.rows * Heads) + (k.rows * KvHeads)) - 1  BY <3>a, <3>b, Zenon
        <3>3. CASE n < k.rows * Heads
            BY <1>d, <3>3, <1>2, BufferNames DEF Reads
        <3>4. CASE ~(n < k.rows * Heads)
            <4>1. l[1] \in {"k", "v"} /\ l[3] = n - (k.rows * Heads)
                BY <1>d, <3>4, <1>2, BufferNames DEF Reads, KeyRow
            <4> QED BY <4>1, <3>2, <3>4, <1>3
        <3> QED BY <3>3, <3>4
    <2> QED BY <1>0, <1>d, <2>1, SourceOf, HeldOf DEF Needed
<1>e. CASE k.name = "rotateSinks"
    <2>1. n \in 0 .. (SinksTurned(k) * KvHeads) - 1 /\ l[1] = "cacheK" /\ l[2] = k.layer /\ l[3] = n
        BY <1>e, <1>2, BufferNames DEF Blocks, Reads
    <2>2. SinksTurned(k) \in Nat /\ SinksTurned(k) <= MaxSeqLen
        BY RowCounts DEF Launches, Fits, SinksTurned
    <2>3. l[3] \div KvHeads \in Nat /\ l[3] \div KvHeads < SinksTurned(k)
        <3>1. n \in Nat /\ n < SinksTurned(k) * KvHeads  BY <2>1, <2>2, <1>1
        <3> QED BY <3>1, <2>1, <2>2, <1>1, QuotientBelow
    <2>4. l[3] \div KvHeads < k.pos + k.rows
        <3>1. /\ k.pos \in Nat /\ k.rows \in Nat \ {0}
              /\ k.pos + k.rows - 1 < MaxSeqLen => SinksTurned(k) = 0
              /\ k.pos + k.rows - 1 >= MaxSeqLen => k.pos >= MaxSeqLen
            BY <1>e, ProperSinks
        <3> QED BY <3>1, <2>2, <2>3, RowCounts
    <2> QED BY <1>0, <1>e, <2>1, <2>3, <2>4, BufferNames, CacheHeld
<1>f. CASE k.name \in {"scores", "output"} /\ l[1] \in Caches
    <2>1. n \in 0 .. (k.rows * Heads) - 1  BY <1>f DEF Blocks
    <2>2. l[2] = k.layer /\ l[3] \in CacheRead(k, n) /\ (k.name = "output" => l[1] = "cacheV")
        BY <1>f, <1>2, BufferNames DEF Reads
    <2>3. PICK t \in 0 .. KvLenOf(k, n) - 1 : l[3] = (t * KvHeads) + KvHead(n % Heads)
        BY <2>2 DEF CacheRead
    <2>4. n \in Nat /\ n \div Heads \in 0 .. k.rows - 1 /\ n % Heads \in 0 .. Heads - 1
        <3>1. n \in Nat /\ n < k.rows * Heads /\ k.rows \in Nat  BY <2>1, <1>1, <1>3
        <3> QED BY <3>1, <1>1, QuotientBound
    <2>5. KvHead(n % Heads) \in 0 .. KvHeads - 1
        BY <2>4, <1>1, GpuAssumption, Grouped DEF KvHead
    <2>6. k.kvLen \in Nat  BY DEF Launches
    <2>7. t \in Nat /\ t < k.pos + k.rows
        <3>1. k.pos \in Nat /\ k.kvLen + k.rows - 1 <= k.pos + k.rows  BY <1>f, ProperSinks
        <3> QED BY <3>1, <2>3, <2>4, <2>6, <1>1 DEF KvLenOf
    <2>8. l[3] \div KvHeads = t  BY <2>3, <2>5, <2>7, <1>1, QuotientOfOffset
    <2> QED BY <1>0, <1>f, <2>2, <2>7, <2>8, CacheHeld
<1>g. CASE k.name \in {"scores", "softmax", "output"} /\ l[1] \notin Caches
    <2>1. n \in 0 .. (k.rows * Heads) - 1  BY <1>g DEF Blocks
    <2>2. CASE k.name = "scores"
        <3>1. l[1] = "q" /\ l[3] = n  BY <2>2, <1>g, <1>2, BufferNames DEF Reads
        <3> QED BY <1>0, <2>1, <2>2, <3>1, <1>3, SourceOf, HeldOf DEF Needed
    <2>3. CASE k.name \in {"softmax", "output"}
        <3>1. l[1] = "scores" /\ l[3] \in ScoreRow(k, n)
            BY <2>3, <1>g, <1>2, BufferNames DEF Reads
        <3> QED BY <1>0, <2>1, <2>3, <3>1, SourceOf, HeldOf DEF Needed
    <2> QED BY <1>g, <2>2, <2>3
<1>h. CASE k.name = "projectOut"
    <2>1. n \in 0 .. k.rows - 1 /\ l[1] = "out" /\ l[3] \in OfRow(n, Heads)
        BY <1>h, <1>2, BufferNames DEF Blocks, Reads
    <2>2. \A head \in 0 .. Heads - 1 : (n * Heads) + head \in 0 .. (k.rows * Heads) - 1
        BY <2>1, <1>1, Offsets
    <2>3. l[3] < k.rows * Heads  BY <2>1, <2>2, <1>3 DEF OfRow
    <2> QED BY <1>0, <1>h, <2>1, <2>3, SourceOf, HeldOf DEF Needed
<1>i. CASE k.name \in {"silu", "down"}
    <2>1. n \in 0 .. k.rows - 1 /\ l[3] = n
          /\ (l[1] = "lin1" \/ (k.name = "silu" /\ l[1] = "lin2"))
        BY <1>i, <1>2, BufferNames DEF Blocks, Reads
    <2> QED BY <1>0, <1>i, <2>1, <1>1, SourceOf, HeldOf DEF Needed
<1>j. CASE k.name = "classifier"
    <2>1. l[1] = "final" /\ l[3] = k.rows - 1  BY <1>j, <1>2, BufferNames DEF Reads
    <2> QED BY <1>0, <1>j, <2>1, <1>1, SourceOf, HeldOf DEF Needed
<1>k. CASE k.name = "argmax"
    <2>1. l[1] = "logits"  BY <1>k, <1>2, BufferNames DEF Reads
    <2> QED BY <1>0, <1>k, <2>1, <1>1, SourceOf, HeldOf DEF Needed, Span
<1>l. CASE k.name = "embedding"
    BY <1>l DEF Reads
<1>m. k.name \in {"scores", "output"} => l[1] \in Caches \/ l[1] \notin Caches  OBVIOUS
<1>n. k.name = "softmax" => l[1] \notin Caches
    BY <1>2, BufferNames DEF Reads
<1>o. k.name \in {"attnNorm", "mlpNorm", "finalNorm", "residual", "finalResidual", "projectQ",
                  "projectK", "projectV", "gate", "up", "qkNormRope", "rotateSinks", "scores",
                  "softmax", "output", "projectOut", "silu", "down", "classifier", "argmax", "embedding"}
    BY <1>1 DEF Names, BlockNames
<1> QED BY <1>o, <1>m, <1>n, <1>a, <1>b, <1>c, <1>d, <1>e, <1>f, <1>g, <1>h, <1>i, <1>j, <1>k, <1>l

-----------------------------------------------------------------------------
(* The chunk of a position of the prompt begins at a multiple of BatchSize.*)
LEMMA ChunkOfRow ==
    ASSUME prompt \in 1 .. MaxSeqLen, NEW k, k.pos \in Nat, OfChunk(k),
           NEW row \in k.pos .. k.pos + k.rows - 1
    PROVE  ForwardOf(row) = k.pos
<1>1. BatchSize \in Nat \ {0}  BY Sizes DEF BatchSize, Lesser
<1> DEFINE q == k.pos \div BatchSize  r == row - k.pos
<1>2. /\ k.pos % BatchSize = 0 /\ k.rows \in 1 .. BatchSize /\ k.pos + k.rows <= prompt
    BY DEF OfChunk
<1> HIDE DEF BatchSize
<1>3. k.pos = (BatchSize * q) + 0 /\ q \in Int  BY <1>1, <1>2, Division
<1>4. q \in Nat  BY <1>1, QuotientBelow
<1>5. r \in 0 .. BatchSize - 1 /\ row < prompt /\ row \in Nat
    <2>1. prompt \in Nat  BY RowCounts
    <2> QED BY <1>1, <1>2, <2>1
<1>6. q * BatchSize = k.pos
    <2> HIDE DEF q
    <2> QED BY <1>1, <1>3, <1>4
<1>7. row = (q * BatchSize) + r  BY <1>5, <1>6
<1>8. row \div BatchSize = q
    <2> HIDE DEF q, r
    <2> QED BY <1>1, <1>4, <1>5, <1>7, QuotientOfOffset
<1> QED BY <1>5, <1>6, <1>8 DEF ForwardOf

(* The kernel that stores the keys of its rows.                            *)
LEMMA StoreStep ==
    ASSUME prompt \in 1 .. MaxSeqLen, NEW c, NEW k \in Launches(c), Proper(k), k.name = "qkNormRope",
           NEW row \in 0 .. MaxSeqLen - 1, row <= k.pos + k.rows - 1, NEW b,
           NEW turned, turned = IF SinksTurned(k) = 0 THEN k.pos + k.rows - 1 ELSE k.pos - 1
    PROVE  /\ CacheRow(b, k.layer, k.call, row, k.pos + k.rows - 1, turned) =
                IF row \in k.kvPos .. k.kvPos + k.rows - 1
                THEN Stamp("qkNormRope", k.layer, k.call, k.pos)
                ELSE CacheRow(b, k.layer, k.call, row, k.pos - 1, k.pos - 1)
           /\ row \notin k.kvPos .. k.kvPos + k.rows - 1 => row <= k.pos - 1
<1> DEFINE last == k.pos + k.rows - 1  new == row \in k.kvPos .. k.kvPos + k.rows - 1
<1>1. /\ k.pos \in Nat /\ k.rows \in Nat \ {0}
      /\ last < MaxSeqLen => SinksTurned(k) = 0
      /\ last >= MaxSeqLen =>
           k.rows = 1 /\ SinksTurned(k) = TurnedRows /\ k.pos >= MaxSeqLen /\ k.kvPos = KvPos(k.pos)
    BY ProperSinks
<1>2. MaxSeqLen \in Nat \ {0} /\ TurnedRows \in 0 .. MaxSeqLen - 1  BY RowCounts
<1>3. CASE last < MaxSeqLen
    <2>1. k.kvPos = k.pos
        <3>1. CASE OfChunk(k)  BY <3>1 DEF OfChunk
        <3>2. CASE OfToken(k)
            <4>1. k.pos < MaxSeqLen  BY <1>1, <1>2, <1>3
            <4> QED BY <3>2, <4>1, <1>1, RowsOfPosition DEF OfToken
        <3> QED BY <3>1, <3>2 DEF Proper
    <2>2. HeldBy(row, last) = row
        <3>1. last \in 0 .. MaxSeqLen - 1 /\ row \in 0 .. last  BY <1>1, <1>2, <1>3
        <3> QED BY <3>1, HeldFirst
    <2>3. new => ForwardOf(row) = k.pos
        <3>1. CASE OfChunk(k)  BY <3>1, <2>1, <1>1, ChunkOfRow
        <3>2. CASE OfToken(k)
            <4>1. k.rows = 1 /\ k.pos >= prompt /\ prompt \in Nat  BY <3>2, <1>2 DEF OfToken
            <4>2. new => row = k.pos  BY <4>1, <2>1, <1>1
            <4> QED BY <4>1, <4>2, <1>1 DEF ForwardOf
        <3> QED BY <3>1, <3>2 DEF Proper
    <2>4. ~new => row <= k.pos - 1 /\ HeldBy(row, k.pos - 1) = row
        <3> SUFFICES ASSUME ~new PROVE row <= k.pos - 1 /\ HeldBy(row, k.pos - 1) = row  OBVIOUS
        <3>1. row <= k.pos - 1  BY <2>1, <1>1
        <3>2. k.pos - 1 \in 0 .. MaxSeqLen - 1 /\ row \in 0 .. k.pos - 1  BY <3>1, <1>1, <1>2, <1>3
        <3> QED BY <3>1, <3>2, HeldFirst
    <2>5. ~(turned >= MaxSeqLen) /\ ~(k.pos - 1 >= MaxSeqLen)  BY <1>1, <1>2, <1>3
    <2> QED BY <2>2, <2>3, <2>4, <2>5 DEF CacheRow
<1>4. CASE last >= MaxSeqLen
    <2>1. k.rows = 1 /\ SinksTurned(k) = TurnedRows /\ k.pos >= MaxSeqLen /\ k.kvPos = KvPos(k.pos) /\ last = k.pos
        BY <1>1, <1>4
    <2>2. KvPos(k.pos) \in TurnedRows .. MaxSeqLen - 1  BY <1>1, <2>1, RowsOfPosition, RowCounts
    <2>3. new <=> row = KvPos(k.pos)  BY <1>2, <2>1, <2>2
    <2>4. ForwardOf(k.pos) = k.pos
        <3>1. prompt <= k.pos /\ prompt \in Nat  BY <1>1, <1>2, <2>1
        <3> QED BY <3>1, <1>1 DEF ForwardOf
    <2>5. CASE new
        <3>1. HeldBy(row, last) = k.pos  BY <2>1, <2>3, <2>5, <1>1, HeldLast
        <3>2. ~(row < TurnedRows)  BY <2>2, <2>3, <2>5, <1>2
        <3> QED BY <2>4, <2>5, <3>1, <3>2 DEF CacheRow
    <2>6. CASE ~new
        <3>1. HeldBy(row, last) = HeldBy(row, k.pos - 1)
            BY <2>1, <2>3, <2>6, <1>1, <1>2, HeldStays
        <3>2. row <= k.pos - 1  BY <2>1, <1>1, <1>2
        <3>3. row < TurnedRows => turned = k.pos - 1  BY <2>1, <1>2
        <3> QED BY <2>6, <3>1, <3>2, <3>3 DEF CacheRow
    <2> QED BY <2>5, <2>6
<1> QED BY <1>1, <1>2, <1>3, <1>4

LEMMA CacheStep ==
    ASSUME prompt \in 1 .. MaxSeqLen, rows \in Nat,
           NEW c, NEW k \in Launches(c), Proper(k), NEW k2, Waiting(c, k2), Follows(k, k2),
           NEW l \in Locations, l[1] \in Caches, Needed(k2, l)
    PROVE  IF Touched(k, l) THEN Held(k2, l) = StampOf(k)
                            ELSE Needed(k, l) /\ Held(k2, l) = Held(k, l)
<1> DEFINE b == l[1]  m == l[2]  row == l[3] \div KvHeads
<1>1. /\ m \in 1 .. Layers /\ row \in 0 .. MaxSeqLen - 1 /\ Layers \in Nat \ {0}
      /\ TurnedRows \in 0 .. MaxSeqLen - 1 /\ MaxSeqLen \in Nat \ {0}
    <2>1. m \in 1 .. Layers /\ b \in DOMAIN Size /\ l[3] \in 0 .. Size[b] - 1 /\ l[3] \in Nat
        BY LocationParts
    <2>2. Size[b] = MaxSeqLen * KvHeads  BY BufferNames DEF Size
    <2>3. l[3] < MaxSeqLen * KvHeads
        <3>1. MaxSeqLen * KvHeads \in Nat  BY Sizes
        <3> QED BY <3>1, <2>1, <2>2
    <2>4. row \in 0 .. MaxSeqLen - 1  BY <2>1, <2>3, Sizes, QuotientBound
    <2> QED BY <2>1, <2>4, Sizes, RowCounts
<1>2. /\ k.call = c /\ k.name \in Names /\ k.pos \in Nat /\ k.rows \in Nat /\ SinksTurned(k) \in Nat
      /\ k.layer \in 0 .. Layers /\ k2.call = c /\ k2.pos \in Nat
      /\ k.name \in BlockNames => k.layer \in 1 .. Layers
      /\ k2.name \in BlockNames => k2.layer \in 1 .. Layers
    <2>1. k2 \in Launches(c) => k2.call = c /\ k2.pos \in Nat
                                /\ (k2.name \in BlockNames => k2.layer \in 1 .. Layers)
        BY DEF Launches
    <2>2. {"forwarded", "chosen"} \cap BlockNames = {}  BY DEF BlockNames
    <2>3. /\ k2.call = c /\ k2.pos \in Nat
          /\ k2.name \in BlockNames => k2.layer \in 1 .. Layers
        BY <2>1, <2>2 DEF Waiting
    <2>4. /\ k.call = c /\ k.name \in Names /\ k.pos \in Nat /\ k.rows \in Nat /\ SinksTurned(k) \in Nat
          /\ k.layer \in 0 .. Layers
          /\ k.name \in BlockNames => k.layer \in 1 .. Layers
        BY DEF Launches, SinksTurned
    <2> QED BY <2>3, <2>4
<1>3. Held(k2, l) = CacheRow(b, m, c, row, LastStored(k2, m), LastTurned(k2, m))
      /\ Held(k, l) = CacheRow(b, m, c, row, LastStored(k, m), LastTurned(k, m))
    BY <1>2, HeldOf
<1>4. row <= LastStored(k2, m)  BY BufferNames DEF Needed
<1>5. row <= LastStored(k, m) => Needed(k, l)  BY DEF Needed
<1> DEFINE stores == k.name = "qkNormRope" /\ m = k.layer
           turns == k.name = "rotateSinks" /\ m = k.layer
<1>6. CASE stores
    <2>1. /\ k2.name = (IF SinksTurned(k) = 0 THEN "scores" ELSE "rotateSinks") /\ k2.layer = m
          /\ k2.pos = k.pos /\ k2.rows = k.rows
        BY <1>6 DEF Follows, SameForward, After
    <2>2. /\ LastStored(k, m) = k.pos - 1 /\ LastTurned(k, m) = k.pos - 1
          /\ LastStored(k2, m) = k.pos + k.rows - 1
          /\ LastTurned(k2, m) = IF SinksTurned(k) = 0 THEN k.pos + k.rows - 1 ELSE k.pos - 1
        BY <1>1, <1>2, <1>6, <2>1 DEF LastStored, LastTurned, Past, Span, Storing, BlockNames, Ending
    <2>3. Touched(k, l) <=> row \in k.kvPos .. k.kvPos + k.rows - 1
        BY <1>6, BufferNames DEF Touched
    <2>4. /\ Held(k2, l) = IF Touched(k, l) THEN StampOf(k)
                           ELSE CacheRow(b, m, c, row, k.pos - 1, k.pos - 1)
          /\ ~Touched(k, l) => row <= k.pos - 1
        <3> HIDE DEF row, b
        <3> QED BY <1>1, <1>2, <1>3, <1>4, <1>6, <2>2, <2>3, StoreStep DEF StampOf
    <2> QED BY <1>3, <1>5, <2>2, <2>4
<1>7. CASE turns
    <2>1. k2.name = "scores" /\ k2.layer = m /\ k2.pos = k.pos /\ k2.rows = k.rows
        BY <1>7 DEF Follows, SameForward, After
    <2>2. /\ LastStored(k, m) = k.pos + k.rows - 1 /\ LastTurned(k, m) = k.pos - 1
          /\ LastStored(k2, m) = k.pos + k.rows - 1
          /\ LastTurned(k2, m) = k.pos + k.rows - 1
        BY <1>1, <1>2, <1>7, <2>1 DEF LastStored, LastTurned, Past, Span, Storing, BlockNames, Ending
    <2>3. Touched(k, l) <=> b = "cacheK" /\ row < SinksTurned(k)
        BY <1>7, BufferNames DEF Touched
    <2>4. /\ k.pos + k.rows - 1 < MaxSeqLen => SinksTurned(k) = 0
          /\ k.pos + k.rows - 1 >= MaxSeqLen => k.rows = 1 /\ SinksTurned(k) = TurnedRows /\ k.pos >= MaxSeqLen
        BY <1>7, ProperSinks
    <2>5. Touched(k, l) => Held(k2, l) = StampOf(k)
        <3> HAVE Touched(k, l)
        <3>1. k.pos + k.rows - 1 >= MaxSeqLen /\ SinksTurned(k) = TurnedRows /\ k.rows = 1
            BY <1>1, <1>2, <2>3, <2>4
        <3>2. k.pos + k.rows - 1 = k.pos  BY <3>1, <1>2
        <3> QED BY <3>1, <3>2, <1>1, <1>2, <1>3, <1>7, <2>2, <2>3 DEF CacheRow, StampOf
    <2>6. ~Touched(k, l) => Held(k2, l) = Held(k, l)
        <3> HAVE ~Touched(k, l)
        <3>1. ~(b = "cacheK" /\ row < TurnedRows) \/ k.pos + k.rows - 1 < MaxSeqLen
            BY <1>1, <1>2, <2>3, <2>4
        <3>2. k.pos + k.rows - 1 < MaxSeqLen => ~(k.pos - 1 >= MaxSeqLen) /\ ~(k.pos + k.rows - 1 >= MaxSeqLen)
            BY <1>1, <1>2
        <3> QED BY <3>1, <3>2, <1>3, <2>2 DEF CacheRow
    <2> QED BY <1>4, <1>5, <2>2, <2>5, <2>6
<1>8. CASE ~stores /\ ~turns
    <2>1. ~Touched(k, l)
        BY <1>8, BufferNames DEF Touched
    <2>2. LastStored(k2, m) = LastStored(k, m) /\ LastTurned(k2, m) = LastTurned(k, m)
        <3>1. CASE /\ SameForward(k, k2) /\ k2.layer = k.layer
                   /\ \/ After(k.name, k2.name)
                      \/ k.name = "qkNormRope" /\ k2.name = IF SinksTurned(k) = 0 THEN "scores" ELSE "rotateSinks"
                      \/ k.name = "embedding" /\ k2.name = "embedding" /\ k2.row = k.row + 1
                      \/ k.name = "finalNorm" /\ k2.name = "classifier"
            BY <3>1, <1>1, <1>2, <1>8
               DEF SameForward, After, LastStored, LastTurned, Past, Span, Storing, BlockNames, Ending
        <3>2. CASE /\ SameForward(k, k2)
                   /\ \/ k.name = "embedding" /\ k.row = k.rows - 1 /\ k2.name = "attnNorm" /\ k2.layer = 1
                      \/ k.name = "finalResidual" /\ k.layer < Layers /\ k2.name = "attnNorm" /\ k2.layer = k.layer + 1
                      \/ k.name = "finalResidual" /\ k.layer = Layers /\ k2.name = "finalNorm"
            BY <3>2, <1>1, <1>2, <1>8
               DEF SameForward, LastStored, LastTurned, Past, Span, Storing, BlockNames, Ending
        <3>3. CASE k.name = "classifier"
            BY <3>3, <1>1, <1>2, <1>8
               DEF Follows, SameForward, After, LastStored, LastTurned, Past, Span, Storing, BlockNames, Ending
        <3>4. CASE k.name = "argmax"
            BY <3>4, <1>1, <1>2, <1>8
               DEF Follows, SameForward, After, LastStored, LastTurned, Past, Span, Storing, BlockNames, Ending
        <3> QED BY <3>1, <3>2, <3>3, <3>4 DEF Follows
    <2> QED BY <1>3, <1>4, <1>5, <2>1, <2>2
<1> QED BY <1>6, <1>7, <1>8
(* The names that follow a kernel. *)
LEMMA FollowsNames ==
    ASSUME NEW k, NEW k2, Follows(k, k2)
    PROVE  \/ SameForward(k, k2) /\ k2.layer = k.layer /\
                \/ After(k.name, k2.name)
                \/ k.name = "qkNormRope" /\ k2.name \in {"scores", "rotateSinks"}
                \/ k.name = "finalNorm" /\ k2.name = "classifier"
                \/ k.name = "embedding" /\ k2.name = "embedding" /\ k2.row = k.row + 1
           \/ SameForward(k, k2) /\
                \/ k.name = "embedding" /\ k.row = k.rows - 1 /\ k2.name = "attnNorm" /\ k2.layer = 1
                \/ k.name = "finalResidual" /\ k.layer < Layers /\ k2.name = "attnNorm" /\ k2.layer = k.layer + 1
                \/ k.name = "finalResidual" /\ k.layer = Layers /\ k2.name = "finalNorm"
           \/ k.name = "classifier" /\ k2.name = "embedding" /\ k2.row = 0
           \/ /\ k.name = "classifier" /\ k2.name \in {"argmax", "forwarded"}
              /\ k2.call = k.call /\ k2.pos = k.pos /\ Span(k2) = k.rows
           \/ k.name = "argmax" /\ k2.name = "chosen" /\ k2.call = k.call /\ k2.pos = k.pos /\ k2.rows = rows
BY DEF Follows

(* What k2 needs, kernel k has just written, or it was there before.       *)
LEMMA StepNeeded ==
    ASSUME prompt \in 1 .. MaxSeqLen, rows \in Nat,
           NEW c, NEW k \in Launches(c), Proper(k), NEW k2, Waiting(c, k2), Follows(k, k2),
           NEW l \in Locations, Needed(k2, l)
    PROVE  IF Touched(k, l) THEN Held(k2, l) = StampOf(k)
                            ELSE Needed(k, l) /\ Held(k2, l) = Held(k, l)
<1> DEFINE b == l[1]  i == l[3]
<1>1. /\ k.call = c /\ k.rows \in Nat \ {0} /\ k.row \in Nat /\ k.row < k.rows /\ k.layer \in Nat
      /\ k.name \in BlockNames => k.layer \in 1 .. Layers
      /\ k.name \notin BlockNames => k.layer = 0
      /\ k2.call = c /\ i \in Nat /\ Layers \in Nat \ {0}
    <2>1. k2 \in Launches(c) => k2.call = c  BY DEF Launches
    <2> QED BY <2>1, LocationParts, Sizes DEF Launches, Fits, Proper, Waiting
<1>2. k2.name \notin BlockNames => k2.layer = 0  BY DEF Waiting, Proper
<1>x. CASE b = "x"
    <2>1. /\ i < (IF k2.name = "embedding" THEN k2.row ELSE k2.rows)
          /\ k2.name \in BlockNames \cup {"embedding", "finalNorm"}
        BY <1>x, BufferNames DEF Needed
    <2>2. Touched(k, l) <=> \/ k.name = "embedding" /\ i = k.row
                            \/ k.name \in {"residual", "finalResidual"} /\ i < k.rows
        BY <1>x, BufferNames DEF Touched
    <2>3. Needed(k, l) <=> /\ i < (IF k.name = "embedding" THEN k.row ELSE k.rows)
                           /\ k.name \in BlockNames \cup {"embedding", "finalNorm"}
        BY <1>x, BufferNames DEF Needed
    <2> QED BY <1>1, <1>2, <1>x, <2>1, <2>2, <2>3, HeldOf, FollowsNames DEF SameForward, After, StampOf, BlockNames
<1>n. CASE b = "norm"
    <2>1. i < k2.rows /\ k2.name \in {"projectQ", "projectK", "projectV", "gate", "up"}  BY <1>n, BufferNames DEF Needed
    <2>2. Touched(k, l) <=> k.name \in {"attnNorm", "mlpNorm"} /\ i < k.rows
        BY <1>n, BufferNames DEF Touched
    <2>3. Needed(k, l) <=> k.name \in {"projectQ", "projectK", "projectV", "gate", "up"} /\ i < k.rows
        BY <1>n, BufferNames DEF Needed
    <2> QED BY <1>1, <1>2, <1>n, <2>1, <2>2, <2>3, HeldOf, FollowsNames
            DEF SameForward, After, StampOf, BlockNames
<1>q. CASE b = "q"
    <2>1. i < k2.rows * Heads /\ k2.name \in {"projectK", "projectV", "qkNormRope", "rotateSinks", "scores"}  BY <1>q, BufferNames DEF Needed
    <2>2. Touched(k, l) <=> k.name \in {"projectQ", "qkNormRope"} /\ i < k.rows * Heads
        BY <1>q, BufferNames DEF Touched
    <2>3. Needed(k, l) <=> k.name \in {"projectK", "projectV", "qkNormRope", "rotateSinks", "scores"} /\ i < k.rows * Heads
        BY <1>q, BufferNames DEF Needed
    <2> QED BY <1>1, <1>2, <1>q, <2>1, <2>2, <2>3, HeldOf, FollowsNames
            DEF SameForward, After, StampOf, BlockNames
<1>k. CASE b = "k"
    <2>1. i < k2.rows * KvHeads /\ k2.name \in {"projectV", "qkNormRope"}  BY <1>k, BufferNames DEF Needed
    <2>2. Touched(k, l) <=> k.name \in {"projectK", "qkNormRope"} /\ i < k.rows * KvHeads
        BY <1>k, BufferNames DEF Touched
    <2>3. Needed(k, l) <=> k.name \in {"projectV", "qkNormRope"} /\ i < k.rows * KvHeads
        BY <1>k, BufferNames DEF Needed
    <2> QED BY <1>1, <1>2, <1>k, <2>1, <2>2, <2>3, HeldOf, FollowsNames
            DEF SameForward, After, StampOf, BlockNames
<1>v. CASE b = "v"
    <2>1. i < k2.rows * KvHeads /\ k2.name \in {"qkNormRope"}  BY <1>v, BufferNames DEF Needed
    <2>2. Touched(k, l) <=> k.name \in {"projectV"} /\ i < k.rows * KvHeads
        BY <1>v, BufferNames DEF Touched
    <2>3. Needed(k, l) <=> k.name \in {"qkNormRope"} /\ i < k.rows * KvHeads
        BY <1>v, BufferNames DEF Needed
    <2> QED BY <1>1, <1>2, <1>v, <2>1, <2>2, <2>3, HeldOf, FollowsNames
            DEF SameForward, After, StampOf, BlockNames
<1>o. CASE b = "out"
    <2>1. i < k2.rows * Heads /\ k2.name \in {"projectOut"}  BY <1>o, BufferNames DEF Needed
    <2>2. Touched(k, l) <=> k.name \in {"output"} /\ i < k.rows * Heads
        BY <1>o, BufferNames DEF Touched
    <2>3. Needed(k, l) <=> k.name \in {"projectOut"} /\ i < k.rows * Heads
        BY <1>o, BufferNames DEF Needed
    <2> QED BY <1>1, <1>2, <1>o, <2>1, <2>2, <2>3, HeldOf, FollowsNames
            DEF SameForward, After, StampOf, BlockNames
<1>p. CASE b = "projected"
    <2>1. i < k2.rows /\ k2.name \in {"residual", "finalResidual"}  BY <1>p, BufferNames DEF Needed
    <2>2. Touched(k, l) <=> k.name \in {"projectOut", "down"} /\ i < k.rows
        BY <1>p, BufferNames DEF Touched
    <2>3. Needed(k, l) <=> k.name \in {"residual", "finalResidual"} /\ i < k.rows
        BY <1>p, BufferNames DEF Needed
    <2> QED BY <1>1, <1>2, <1>p, <2>1, <2>2, <2>3, HeldOf, FollowsNames
            DEF SameForward, After, StampOf, BlockNames
<1>g. CASE b = "lin1"
    <2>1. i < k2.rows /\ k2.name \in {"up", "silu", "down"}  BY <1>g, BufferNames DEF Needed
    <2>2. Touched(k, l) <=> k.name \in {"gate", "silu"} /\ i < k.rows
        BY <1>g, BufferNames DEF Touched
    <2>3. Needed(k, l) <=> k.name \in {"up", "silu", "down"} /\ i < k.rows
        BY <1>g, BufferNames DEF Needed
    <2> QED BY <1>1, <1>2, <1>g, <2>1, <2>2, <2>3, HeldOf, FollowsNames
            DEF SameForward, After, StampOf, BlockNames
<1>u. CASE b = "lin2"
    <2>1. i < k2.rows /\ k2.name \in {"silu"}  BY <1>u, BufferNames DEF Needed
    <2>2. Touched(k, l) <=> k.name \in {"up"} /\ i < k.rows
        BY <1>u, BufferNames DEF Touched
    <2>3. Needed(k, l) <=> k.name \in {"silu"} /\ i < k.rows
        BY <1>u, BufferNames DEF Needed
    <2> QED BY <1>1, <1>2, <1>u, <2>1, <2>2, <2>3, HeldOf, FollowsNames
            DEF SameForward, After, StampOf, BlockNames
<1>f. CASE b = "final"
    <2>1. i < k2.rows /\ k2.name \in {"classifier"}  BY <1>f, BufferNames DEF Needed
    <2>2. Touched(k, l) <=> k.name \in {"finalNorm"} /\ i < k.rows
        BY <1>f, BufferNames DEF Touched
    <2>3. Needed(k, l) <=> k.name \in {"classifier"} /\ i < k.rows
        BY <1>f, BufferNames DEF Needed
    <2> QED BY <1>1, <1>2, <1>f, <2>1, <2>2, <2>3, HeldOf, FollowsNames
            DEF SameForward, After, StampOf, BlockNames
<1>s. CASE b = "scores"
    <2> DEFINE in(o) == \E n \in 0 .. (o.rows * Heads) - 1 : i \in ScoreRow(o, n)
    <2>1. k2.name \in {"softmax", "output"} /\ in(k2)  BY <1>s, BufferNames DEF Needed
    <2>2. Touched(k, l) <=> k.name \in {"scores", "softmax"} /\ in(k)
        BY <1>s, BufferNames DEF Touched
    <2>3. SameForward(k, k2) => (in(k) <=> in(k2))
        BY DEF SameForward, ScoreRow, KvLenOf
    <2> HIDE DEF in
    <2> QED BY <1>1, <1>2, <1>s, <2>1, <2>2, <2>3, HeldOf, FollowsNames
            DEF SameForward, After, StampOf, BlockNames
<1>l. CASE b = "logits"
    <2>1. k2.name \in {"argmax", "chosen", "forwarded"} /\ Span(k2) > 0
        BY <1>l, BufferNames DEF Needed
    <2>2. Touched(k, l) <=> k.name = "classifier"  BY <1>l, BufferNames DEF Touched
    <2>3. Needed(k, l) <=> k.name \in {"argmax", "chosen", "forwarded"} /\ Span(k) > 0
        BY <1>l, BufferNames DEF Needed
    <2>4. k.name = "argmax" => Span(k) = rows  BY DEF Span
    <2>5. k2.name = "chosen" => Span(k2) = k2.rows  BY DEF Span
    <2> QED BY <1>1, <1>2, <1>l, <2>1, <2>2, <2>3, <2>4, <2>5, HeldOf, FollowsNames
            DEF SameForward, After, StampOf, BlockNames
<1>a. CASE b = "sampled"
    <2>1. k2.name = "chosen"  BY <1>a, BufferNames DEF Needed
    <2>2. Touched(k, l) <=> k.name = "argmax"  BY <1>a, BufferNames DEF Touched
    <2> QED BY <1>1, <1>2, <1>a, <2>1, <2>2, HeldOf, FollowsNames
            DEF SameForward, After, StampOf, BlockNames
<1>c. CASE b \in Caches
    BY <1>c, CacheStep
<1> QED BY <1>x, <1>n, <1>q, <1>k, <1>v, <1>o, <1>p, <1>g, <1>u, <1>f, <1>s, <1>l, <1>a, <1>c,
           LocationParts, BufferNames
(* The kernels of a block follow each other. *)
LEMMA BlockOrder ==
    ASSUME NEW f
    PROVE  LET block == BlockLaunches(f) IN
           /\ block[1] = "attnNorm" /\ block[Len(block)] = "finalResidual"
           /\ \A i \in 1 .. Len(block) - 1 :
                \/ After(block[i], block[i + 1])
                \/ block[i] = "qkNormRope"
                   /\ block[i + 1] = IF SinksTurned(f) = 0 THEN "scores" ELSE "rotateSinks"
<1> DEFINE front == <<"attnNorm", "projectQ", "projectK", "projectV", "qkNormRope">>
           back == <<"scores", "softmax", "output", "projectOut", "residual",
                     "mlpNorm", "gate", "up", "silu", "down", "finalResidual">>
           sink == SinkLaunch(f)
           block == BlockLaunches(f)
           w == Len(sink)
<1>1. front \in Seq(BlockNames) /\ back \in Seq(BlockNames)  BY DEF BlockNames
<1>2. sink \in Seq(BlockNames) /\ w = (IF SinksTurned(f) = 0 THEN 0 ELSE 1) /\ (SinksTurned(f) # 0 => sink[1] = "rotateSinks")
    <2>1. <<>> \in Seq(BlockNames) /\ Len(<<>>) = 0  BY EmptySeq
    <2>2. <<"rotateSinks">> \in Seq(BlockNames) /\ Len(<<"rotateSinks">>) = 1  BY DEF BlockNames
    <2> QED BY <2>1, <2>2 DEF SinkLaunch, SinksTurned
<1>3. block = (front \o sink) \o back  BY DEF BlockLaunches
<1>4. Len(front) = 5 /\ Len(back) = 11  OBVIOUS
<1>5. /\ front[1] = "attnNorm" /\ front[2] = "projectQ" /\ front[3] = "projectK"
      /\ front[4] = "projectV" /\ front[5] = "qkNormRope"
      /\ back[1] = "scores" /\ back[2] = "softmax" /\ back[3] = "output" /\ back[4] = "projectOut"
      /\ back[5] = "residual" /\ back[6] = "mlpNorm" /\ back[7] = "gate" /\ back[8] = "up"
      /\ back[9] = "silu" /\ back[10] = "down" /\ back[11] = "finalResidual"
    OBVIOUS
<1> HIDE DEF front, back, block, sink
<1>6. /\ front \o sink \in Seq(BlockNames) /\ Len(front \o sink) = 5 + w
      /\ \A i \in 1 .. 5 : (front \o sink)[i] = front[i]
      /\ \A i \in 1 .. w : (front \o sink)[5 + i] = sink[i]
    <2>1. /\ front \o sink \in Seq(BlockNames)
          /\ Len(front \o sink) = Len(front) + Len(sink)
          /\ \A i \in 1 .. Len(front) + Len(sink) :
               (front \o sink)[i] = IF i <= Len(front) THEN front[i] ELSE sink[i - Len(front)]
        BY <1>1, <1>2, ConcatProperties, Zenon
    <2> QED BY <2>1, <1>2, <1>4
<1>7. /\ Len(block) = 16 + w
      /\ \A i \in 1 .. 5 + w : block[i] = (front \o sink)[i]
      /\ \A i \in 1 .. 11 : block[5 + w + i] = back[i]
    <2> DEFINE head == front \o sink
    <2>1. head \in Seq(BlockNames) /\ Len(head) = 5 + w  BY <1>6
    <2>2. block = head \o back  BY <1>3
    <2> HIDE DEF head
    <2>3. /\ Len(head \o back) = Len(head) + Len(back)
          /\ \A i \in 1 .. Len(head) + Len(back) :
               (head \o back)[i] = IF i <= Len(head) THEN head[i] ELSE back[i - Len(head)]
        BY <1>1, <2>1, ConcatProperties, ZenonT(40)
    <2>a. /\ Len(block) = 5 + w + 11
          /\ \A i \in 1 .. 5 + w + 11 : block[i] = IF i <= 5 + w THEN head[i] ELSE back[i - (5 + w)]
        BY <2>1, <2>2, <2>3, <1>4, Zenon
    <2>b. w \in {0, 1}  BY <1>2
    <2> HIDE DEF w
    <2>4. Len(block) = 16 + w  BY <2>a, <2>b
    <2>5. \A i \in 1 .. 5 + w : block[i] = head[i]  BY <2>a, <2>b
    <2>6. \A i \in 1 .. 11 : block[5 + w + i] = back[i]
        <3> TAKE i \in 1 .. 11
        <3> DEFINE j == 5 + w + i
        <3>1. j \in 1 .. 5 + w + 11 /\ ~(j <= 5 + w) /\ j - (5 + w) = i  BY <2>b
        <3> HIDE DEF j
        <3>2. block[j] = back[i]  BY <2>a, <3>1
        <3> QED BY <3>2 DEF j
    <2> QED BY <2>4, <2>5, <2>6 DEF head
<1>8. /\ \A i \in 1 .. 5 : block[i] = front[i]
      /\ SinksTurned(f) # 0 => block[6] = "rotateSinks"
      /\ \A i \in 1 .. 11 : block[5 + w + i] = back[i]
    <2>1. w \in {0, 1} /\ (SinksTurned(f) # 0 => w = 1)  BY <1>2
    <2> HIDE DEF w
    <2>2. \A i \in 1 .. 5 : block[i] = front[i]
        <3> TAKE i \in 1 .. 5
        <3>1. i \in 1 .. 5 + w  BY <2>1
        <3> QED BY <1>6, <1>7, <3>1
    <2>3. SinksTurned(f) # 0 => block[6] = (front \o sink)[6] /\ (front \o sink)[5 + 1] = sink[1]
        <3> HAVE SinksTurned(f) # 0
        <3>1. 6 \in 1 .. 5 + w /\ 1 \in 1 .. w  BY <2>1
        <3> QED BY <1>6, <1>7, <3>1
    <2>4. SinksTurned(f) # 0 => block[6] = "rotateSinks"
        <3>1. 5 + 1 = 6  OBVIOUS
        <3> QED BY <1>2, <2>3, <3>1, Zenon
    <2> QED BY <1>7, <2>2, <2>4
<1>9. /\ block[1] = "attnNorm" /\ block[2] = "projectQ" /\ block[3] = "projectK"
      /\ block[4] = "projectV" /\ block[5] = "qkNormRope"
    BY <1>5, <1>8, SMTT(40)
<1> DEFINE order(i) ==
             \/ After(block[i], block[i + 1])
             \/ block[i] = "qkNormRope"
                /\ block[i + 1] = IF SinksTurned(f) = 0 THEN "scores" ELSE "rotateSinks"
<1>10. CASE SinksTurned(f) = 0
    <2>1. w = 0  BY <1>2, <1>10
    <2>2. /\ block[6] = "scores" /\ block[7] = "softmax" /\ block[8] = "output" /\ block[9] = "projectOut"
          /\ block[10] = "residual" /\ block[11] = "mlpNorm" /\ block[12] = "gate" /\ block[13] = "up"
          /\ block[14] = "silu" /\ block[15] = "down" /\ block[16] = "finalResidual"
        <3>1. \A i \in 1 .. 11 : block[5 + i] = back[i]  BY <1>8, <2>1
        <3> QED BY <3>1, <1>5
    <2>3. /\ order(1) /\ order(2) /\ order(3) /\ order(4) /\ order(5) /\ order(6) /\ order(7) /\ order(8)
          /\ order(9) /\ order(10) /\ order(11) /\ order(12) /\ order(13) /\ order(14) /\ order(15)
        BY <1>9, <1>10, <2>2 DEF After
    <2>4. Len(block) = 16  BY <1>7, <2>1
    <2> HIDE DEF order
    <2>5. \A i \in 1 .. 15 : order(i)  BY <2>3
    <2> QED BY <1>9, <2>2, <2>4, <2>5 DEF order, block
<1>11. CASE SinksTurned(f) # 0
    <2>1. w = 1  BY <1>2, <1>11
    <2>2. /\ block[7] = "scores" /\ block[8] = "softmax" /\ block[9] = "output" /\ block[10] = "projectOut"
          /\ block[11] = "residual" /\ block[12] = "mlpNorm" /\ block[13] = "gate" /\ block[14] = "up"
          /\ block[15] = "silu" /\ block[16] = "down" /\ block[17] = "finalResidual"
        <3>1. \A i \in 1 .. 11 : block[6 + i] = back[i]  BY <1>8, <2>1
        <3> QED BY <3>1, <1>5
    <2>3. /\ order(1) /\ order(2) /\ order(3) /\ order(4) /\ order(5) /\ order(6) /\ order(7) /\ order(8)
          /\ order(9) /\ order(10) /\ order(11) /\ order(12) /\ order(13) /\ order(14) /\ order(15)
          /\ order(16)
        BY <1>8, <1>9, <1>11, <2>2 DEF After
    <2>4. Len(block) = 17  BY <1>7, <2>1
    <2> HIDE DEF order
    <2>5. \A i \in 1 .. 16 : order(i)  BY <2>3
    <2> QED BY <1>9, <2>2, <2>4, <2>5 DEF order, block
<1> QED BY <1>10, <1>11
(* The script of a forward: its launches follow each other, the first one  *)
(* after the last of the forward before.                                   *)
LEMMA ScriptChain ==
    ASSUME NEW c \in Nat, NEW f \in Forwards(c), OfChunk(f) \/ OfToken(f)
    PROVE  /\ Len(Script(f)) \in Nat \ {0, 1}
           /\ Script(f)[1] = Launch("embedding", 0, f, 0)
           /\ Script(f)[Len(Script(f))] = Launch("classifier", 0, f, 0)
           /\ \A n \in 1 .. Len(Script(f)) : Proper(Script(f)[n])
           /\ \A n \in 1 .. Len(Script(f)) - 1 : Follows(Script(f)[n], Script(f)[n + 1])
<1> DEFINE block == BlockLaunches(f)
           width == Len(block)
           end == f.rows + (Layers * width)
           past(n) == n - f.rows - 1
           entry(n) ==
             IF n <= f.rows THEN Launch("embedding", 0, f, n - 1)
             ELSE IF n <= end
               THEN Launch(block[(past(n) % width) + 1], (past(n) \div width) + 1, f, 0)
             ELSE Launch(IF n = end + 1 THEN "finalNorm" ELSE "classifier", 0, f, 0)
<1>1. f.rows \in Nat \ {0}  BY Sizes DEF Forwards, Fits
<1>2. block \in Seq(BlockNames) /\ width \in Nat \ {0}  BY BlockLaunchesType
<1>3. /\ block[1] = "attnNorm" /\ block[width] = "finalResidual"
      /\ \A i \in 1 .. width - 1 :
           \/ After(block[i], block[i + 1])
           \/ block[i] = "qkNormRope"
              /\ block[i + 1] = IF SinksTurned(f) = 0 THEN "scores" ELSE "rotateSinks"
    BY BlockOrder
<1>4. Script(f) = [n \in 1 .. end + 2 |-> entry(n)]  BY Zenon DEF Script
<1> HIDE DEF block, width
<1>5. Layers \in Nat \ {0} /\ Layers * width \in Nat \ {0} /\ end \in Nat /\ f.rows < end
    <2>1. Layers * width \in Nat \ {0}  BY <1>2, Sizes
    <2> QED BY <1>1, <2>1, Sizes
<1>6. Len(Script(f)) = end + 2  BY <1>4, <1>5
<1>7. \A n \in 1 .. end + 2 : Script(f)[n] = entry(n)  BY <1>4
<1>8. \A name, l, row :
        LET k == Launch(name, l, f, row) IN
        /\ k.name = name /\ k.layer = l /\ k.row = row
        /\ k.call = f.call /\ k.pos = f.pos /\ k.rows = f.rows
        /\ k.kvPos = f.kvPos /\ k.kvLen = f.kvLen /\ k.sinks = f.sinks
    BY DEF Launch
<1>9. \A n1, n2, l1, l2, r1, r2 : SameForward(Launch(n1, l1, f, r1), Launch(n2, l2, f, r2))
    BY <1>8 DEF SameForward
<1>a. ASSUME NEW name, NEW l, NEW row, name \notin BlockNames => l = 0
      PROVE  Proper(Launch(name, l, f, row))
    BY <1>8, <1>a DEF Proper, OfChunk, OfToken
<1>b. ASSUME NEW n \in 1 .. end + 2, n > f.rows, n <= end
      PROVE  /\ past(n) \in Nat
             /\ past(n) % width \in 0 .. width - 1 /\ past(n) \div width \in 0 .. Layers - 1
             /\ block[(past(n) % width) + 1] \in BlockNames
             /\ past(n) + 1 = past(n + 1)
    <2>1. past(n) \in Nat /\ past(n) < Layers * width  BY <1>b, <1>1, <1>5
    <2>2. past(n) % width \in 0 .. width - 1 /\ past(n) \div width \in 0 .. Layers - 1
        BY <2>1, <1>2, <1>5, QuotientBound
    <2>3. block[(past(n) % width) + 1] \in BlockNames  BY <2>2, <1>2 DEF width
    <2> QED BY <2>1, <2>2, <2>3, <1>1
<1>c. \A n \in 1 .. end + 2 : Proper(entry(n))
    <2> SUFFICES ASSUME NEW n \in 1 .. end + 2 PROVE Proper(entry(n))  OBVIOUS
    <2>1. CASE n <= f.rows  BY <2>1, <1>a
    <2>2. CASE ~(n <= f.rows) /\ n <= end
        <3>1. n > f.rows  BY <2>2, <1>1, <1>5
        <3>2. block[(past(n) % width) + 1] \in BlockNames  BY <2>2, <3>1, <1>b
        <3> HIDE DEF past
        <3> QED BY <2>2, <3>2, <1>a
    <2>3. CASE ~(n <= f.rows) /\ ~(n <= end)  BY <2>3, <1>a
    <2> QED BY <2>1, <2>2, <2>3
<1>d. \A n \in 1 .. end + 1 : Follows(entry(n), entry(n + 1))
    <2> SUFFICES ASSUME NEW n \in 1 .. end + 1 PROVE Follows(entry(n), entry(n + 1))  OBVIOUS
    <2>0. SameForward(entry(n), entry(n + 1))  BY <1>9
    <2>1. CASE n < f.rows
        <3>1. n <= f.rows /\ n + 1 <= f.rows /\ (n + 1) - 1 = (n - 1) + 1  BY <2>1, <1>1
        <3>2. /\ entry(n) = Launch("embedding", 0, f, n - 1)
              /\ entry(n + 1) = Launch("embedding", 0, f, (n - 1) + 1)
            BY <3>1
        <3> HIDE DEF entry
        <3> QED BY <2>0, <3>2, <1>8 DEF Follows
    <2>2. CASE n = f.rows
        <3>1. n <= f.rows /\ ~(n + 1 <= f.rows) /\ n + 1 <= end /\ past(n + 1) = 0 /\ n - 1 = f.rows - 1
            BY <2>2, <1>1, <1>5
        <3>2. 0 % width = 0 /\ 0 \div width = 0
            <4>1. 0 = (0 * width) + 0 /\ (0 * width) + 0 = 0  BY <1>2
            <4>2. ((0 * width) + 0) \div width = 0  BY <1>2, QuotientOfOffset
            <4>3. 0 = (width * (0 \div width)) + (0 % width)  BY <1>2, Division
            <4>4. 0 \div width = 0  BY <4>1, <4>2
            <4>5. width * (0 \div width) = 0  BY <4>4, <1>2
            <4>6. 0 % width \in Int  BY <1>2, Division
            <4> QED BY <4>3, <4>4, <4>5, <4>6
        <3>3. /\ entry(n) = Launch("embedding", 0, f, f.rows - 1)
              /\ entry(n + 1) = Launch("attnNorm", 1, f, 0)
            <4>1. block[(past(n + 1) % width) + 1] = "attnNorm" /\ (past(n + 1) \div width) + 1 = 1
                BY <3>1, <3>2, <1>3
            <4> HIDE DEF past, end
            <4> QED BY <3>1, <4>1
        <3> HIDE DEF entry
        <3> QED BY <2>0, <3>3, <1>8 DEF Follows
    <2>3. CASE n > f.rows /\ n < end
        <3> DEFINE q == past(n) \div width  r == past(n) % width
                   q2 == past(n + 1) \div width  r2 == past(n + 1) % width
        <3>1. /\ ~(n <= f.rows) /\ n <= end /\ ~(n + 1 <= f.rows) /\ n + 1 <= end
              /\ n + 1 > f.rows /\ n + 1 \in 1 .. end + 2 /\ n \in 1 .. end + 2
            BY <2>3, <1>1, <1>5
        <3>2. /\ past(n) \in Nat /\ past(n + 1) = past(n) + 1
              /\ r \in 0 .. width - 1 /\ q \in 0 .. Layers - 1
              /\ q2 \in 0 .. Layers - 1
            BY <2>3, <3>1, <1>b
        <3>3. /\ q2 = IF r = width - 1 THEN q + 1 ELSE q
              /\ r2 = IF r = width - 1 THEN 0 ELSE r + 1
            <4>1. \A p \in Nat : /\ (p + 1) \div width = IF p % width = width - 1 THEN (p \div width) + 1 ELSE p \div width
                                 /\ (p + 1) % width = IF p % width = width - 1 THEN 0 ELSE (p % width) + 1
                BY <1>2, QuotientOfSuccessor, RemainderOfSuccessor
            <4> HIDE DEF past
            <4> QED BY <3>2, <4>1
        <3>4. /\ entry(n) = Launch(block[r + 1], q + 1, f, 0)
              /\ entry(n + 1) = Launch(block[r2 + 1], q2 + 1, f, 0)
            <4> HIDE DEF past
            <4> QED BY <3>1
        <3> HIDE DEF entry, q, r, q2, r2, past
        <3>5. CASE r = width - 1
            <4>1. block[r + 1] = "finalResidual" /\ block[r2 + 1] = "attnNorm" /\ q2 + 1 = (q + 1) + 1 /\ q + 1 < Layers
                <5>1. r + 1 = width /\ r2 + 1 = 1 /\ q2 = q + 1  BY <3>3, <3>5, <1>2
                <5> QED BY <5>1, <3>2, <1>3, <1>5
            <4> QED BY <2>0, <3>4, <4>1, <1>8 DEF Follows
        <3>6. CASE r # width - 1
            <4>1. r + 1 \in 1 .. width - 1 /\ r2 + 1 = (r + 1) + 1 /\ q2 = q  BY <3>2, <3>3, <3>6, <1>2
            <4>2. \/ After(block[r + 1], block[r2 + 1])
                  \/ /\ block[r + 1] = "qkNormRope"
                     /\ block[r2 + 1] = IF SinksTurned(f) = 0 THEN "scores" ELSE "rotateSinks"
                BY <4>1, <1>3
            <4> QED BY <2>0, <3>4, <4>1, <4>2, <1>8 DEF Follows, SinksTurned
        <3> QED BY <3>5, <3>6
    <2>4. CASE n = end
        <3> DEFINE q == past(n) \div width  r == past(n) % width
        <3>1. ~(n <= f.rows) /\ n <= end /\ ~(n + 1 <= f.rows) /\ ~(n + 1 <= end) /\ n + 1 = end + 1 /\ n > f.rows
            BY <2>4, <1>1, <1>5
        <3>2. past(n) = ((Layers - 1) * width) + (width - 1) /\ Layers - 1 \in Nat /\ width - 1 \in 0 .. width - 1
            <4>1. (Layers - 1) * width = (Layers * width) - width  BY <1>2, <1>5
            <4>2. past(n) = Layers * width - 1  BY <2>4, <1>1, <1>5
            <4> HIDE DEF past
            <4> QED BY <4>1, <4>2, <1>2, <1>5
        <3>3. q = Layers - 1 /\ r = width - 1
            <4>1. q = Layers - 1  BY <3>2, <1>2, QuotientOfOffset
            <4>2. past(n) \in Nat /\ r \in Int
                <5>1. n \in 1 .. end + 2  BY <1>5
                <5>2. past(n) \in Nat /\ r \in 0 .. width - 1  BY <3>1, <5>1, <1>b
                <5> HIDE DEF past, r, end
                <5> QED BY <5>2, <1>2
            <4>3. past(n) = (width * q) + r  BY <4>2, <1>2, Division
            <4>4. width * q = (Layers - 1) * width /\ width * q \in Int  BY <4>1, <1>2, <1>5
            <4> HIDE DEF past, q, r
            <4> QED BY <4>1, <4>2, <4>3, <4>4, <3>2, <1>2
        <3>4. /\ entry(n) = Launch("finalResidual", Layers, f, 0)
              /\ entry(n + 1) = Launch("finalNorm", 0, f, 0)
            <4>1. entry(n) = Launch(block[r + 1], q + 1, f, 0)
                <5> HIDE DEF past
                <5> QED BY <3>1
            <4>2. r + 1 = width /\ q + 1 = Layers  BY <3>3, <1>2, <1>5
            <4>3. entry(n + 1) = Launch("finalNorm", 0, f, 0)  BY <3>1
            <4> HIDE DEF entry, q, r
            <4> QED BY <4>1, <4>2, <4>3, <1>3
        <3> HIDE DEF entry
        <3> QED BY <2>0, <3>4, <1>8 DEF Follows
    <2>5. CASE n = end + 1
        <3>1. ~(n <= f.rows) /\ ~(n <= end) /\ ~(n + 1 <= f.rows) /\ ~(n + 1 <= end) /\ n + 1 # end + 1
            BY <2>5, <1>1, <1>5
        <3>2. entry(n) = Launch("finalNorm", 0, f, 0) /\ entry(n + 1) = Launch("classifier", 0, f, 0)
            BY <2>5, <3>1
        <3> HIDE DEF entry
        <3> QED BY <2>0, <3>2, <1>8 DEF Follows
    <2> QED BY <2>1, <2>2, <2>3, <2>4, <2>5, <1>1, <1>5
<1>e. entry(1) = Launch("embedding", 0, f, 0)
    <2>1. 1 <= f.rows /\ 1 - 1 = 0  BY <1>1
    <2> QED BY <2>1
<1>f. entry(end + 2) = Launch("classifier", 0, f, 0)
    <2>1. ~(end + 2 <= f.rows) /\ ~(end + 2 <= end) /\ end + 2 # end + 1  BY <1>1, <1>5
    <2> HIDE DEF end
    <2> QED BY <2>1
<1> HIDE DEF entry
<1>g. \A n \in 1 .. end + 1 : n \in 1 .. end + 2 /\ n + 1 \in 1 .. end + 2  BY <1>5
<1>h. 1 \in 1 .. end + 2 /\ end + 2 \in 1 .. end + 2 /\ end + 2 - 1 = end + 1  BY <1>5
<1> HIDE DEF end
<1> QED BY <1>5, <1>6, <1>7, <1>c, <1>d, <1>e, <1>f, <1>g, <1>h

-----------------------------------------------------------------------------
(* What a kernel needs depends on the prompt and, for the argmax, on the   *)
(* rows of the last forward.                                               *)
LEMMA SameClaims ==
    ASSUME NEW k, NEW l, rotary' = rotary, prompt' = prompt, k.name = "argmax" => rows' = rows
    PROVE  (Needed(k, l)' <=> Needed(k, l)) /\ Held(k, l)' = Held(k, l)
<1>1. Span(k)' = Span(k)  BY DEF Span
<1>2. LastStored(k, l[2])' = LastStored(k, l[2]) /\ LastTurned(k, l[2])' = LastTurned(k, l[2])
    BY <1>1 DEF LastStored, LastTurned, Past
<1>3. Needed(k, l)' <=> Needed(k, l)
    BY <1>1, <1>2 DEF Needed, ScoreRow, KvLenOf
<1>4. \A p : ForwardOf(p)' = ForwardOf(p)  BY DEF ForwardOf, BatchSize
<1>5. \A b, m, c, row, s, t : CacheRow(b, m, c, row, s, t)' = CacheRow(b, m, c, row, s, t)
    BY <1>4 DEF CacheRow, HeldBy, TurnedRows
<1>6. Held(k, l)' = Held(k, l)  BY <1>2, <1>5 DEF Held
<1> QED BY <1>3, <1>6

LEMMA SameOrder ==
    ASSUME NEW k, NEW k2, rotary' = rotary, k.name = "argmax" \/ k2.name = "argmax" => rows' = rows
    PROVE  Follows(k, k2)' <=> Follows(k, k2)
BY DEF Follows, Span, SameForward, After, SinksTurned

LEMMA SameKind ==
    ASSUME NEW k, prompt' = prompt
    PROVE  Proper(k)' <=> Proper(k)
BY DEF Proper, OfChunk, OfToken, BatchSize

(* The queue of a request: its launches, then the host.                    *)
LEMMA Queued ==
    ASSUME GInv, Answering, QueueInv
    PROVE  /\ Len(stream) \in Nat /\ Len(script) \in Nat /\ Count = Len(stream) + Len(script)
           /\ call \in Nat /\ start \in Nat /\ rows \in Nat /\ prompt \in 1 .. MaxSeqLen /\ owner = call
           /\ stream \in Seq(Launches(call)) /\ script \in Seq(Launches(call))
           /\ \A i \in 1 .. Count : Pending(i) \in Launches(call) /\ Proper(Pending(i))
           /\ Waiting(call, Rest)
           /\ \A i \in 1 .. Count : Pending(i).name = "argmax" => pc = "argmax"
           /\ Due.name = "argmax" => pc = "argmax"
           /\ stream # <<>> => Count > 0 /\ Due = Head(stream) /\ Pending(1) = Head(stream)
<1>1. /\ call \in Nat /\ start \in Nat /\ rows \in Nat /\ owner = call
      /\ stream \in Seq(Launches(call)) /\ script \in Seq(Launches(call))
      /\ prompt \in 1 .. MaxSeqLen
    BY Sizes DEF GInv, HostInv, Answering
<1>2. Len(stream) \in Nat /\ Len(script) \in Nat /\ Count = Len(stream) + Len(script)
    BY <1>1, LenProperties DEF Count
<1>3. ASSUME NEW i \in 1 .. Count PROVE Pending(i) \in Launches(call)
    <2>1. CASE i <= Len(stream)
        <3>1. i \in 1 .. Len(stream)  BY <1>2, <2>1
        <3> QED BY <3>1, <2>1, <1>1 DEF Pending
    <2>2. CASE ~(i <= Len(stream))
        <3>1. i - Len(stream) \in 1 .. Len(script)  BY <1>2, <2>2
        <3> QED BY <3>1, <2>2, <1>1 DEF Pending
    <2> QED BY <2>1, <2>2
<1>4. \A i \in 1 .. Count : Proper(Pending(i))  BY DEF QueueInv
<1>5. Rest.name \in {"forwarded", "chosen"} /\ Waiting(call, Rest)
    BY <1>1 DEF Rest, Waiting
<1>6. ASSUME NEW i \in 1 .. Count, Pending(i).name = "argmax" PROVE pc = "argmax"
    <2>1. CASE i < Count
        <3>1. i \in 1 .. Count - 1 /\ i + 1 \in 1 .. Count  BY <2>1, <1>2
        <3>2. Follows(Pending(i), Pending(i + 1))  BY <3>1 DEF QueueInv
        <3>3. Pending(i + 1).name = "chosen"  BY <3>2, <1>6, FollowsNames DEF After
        <3>4. Pending(i + 1).name \in Names  BY <3>1, <1>3 DEF Launches
        <3> QED BY <3>3, <3>4 DEF Names, BlockNames
    <2>2. CASE i = Count
        <3>1. Follows(Pending(i), Rest)  BY <2>2, <1>2 DEF QueueInv
        <3>2. Rest.name = "chosen"  BY <3>1, <1>6, FollowsNames DEF After
        <3> QED BY <3>2 DEF Rest
    <2> QED BY <2>1, <2>2, <1>2
<1>7. stream # <<>> => Count > 0 /\ Due = Head(stream) /\ Pending(1) = Head(stream)
    <2> HAVE stream # <<>>
    <2>1. Len(stream) > 0 /\ stream[1] = Head(stream)  BY <1>1, <1>2
    <2> QED BY <2>1, <1>2 DEF Due, Pending
<1>8. Due.name = "argmax" => pc = "argmax"
    <2> HAVE Due.name = "argmax"
    <2>1. CASE Count = 0  BY <2>1, <1>5 DEF Due
    <2>2. CASE Count # 0
        <3>1. 1 \in 1 .. Count /\ Due = Pending(1)  BY <2>2, <1>2 DEF Due
        <3> QED BY <3>1, <1>6
    <2> QED BY <2>1, <2>2
<1> QED BY <1>1, <1>2, <1>3, <1>4, <1>5, <1>6, <1>7, <1>8

(* A block finds what its kernel means to read, and stamps what it writes. *)
LEMMA BlockStamps ==
    ASSUME GInv, Answering, ProgressInv, QueueInv, RanInv, NEW k, k = Due, DeviceAt(k), NEW n, RunBlock(n)
    PROVE  /\ k = Head(stream) /\ k \in Launches(call) /\ Proper(k)
           /\ n \in Blocks(k) /\ n \notin ran /\ ran \subseteq Blocks(k)
           /\ memory' = [l \in Locations |-> IF l \in Writes(k, n) THEN StampOf(k) ELSE memory[l]]
<1>1. stream # <<>> /\ k = Head(stream) /\ Count > 0 /\ Due = Pending(1) /\ Count \in Nat
    BY Queued DEF RunBlock
<1>2. k \in Launches(call) /\ Proper(k) /\ rows \in Nat /\ prompt \in 1 .. MaxSeqLen
    BY <1>1, Queued
<1>3. n \in Blocks(k) /\ n \notin ran /\ ran \subseteq Blocks(k)
    BY <1>1 DEF RunBlock, RanInv
<1>4. rows \in Nat \ {0}
    <2>1. CASE pc = "prefill"
        <3>1. Rest.name = "forwarded" /\ Span(Rest) = rows  BY <2>1 DEF Rest, Span
        <3>2. Follows(Pending(Count), Rest)  BY <1>1 DEF QueueInv
        <3>3. Pending(Count).rows = rows  BY <3>1, <3>2, FollowsNames DEF After
        <3>4. Pending(Count) \in Launches(call)  BY <1>1, Queued
        <3>5. Pending(Count).rows \in Nat \ {0}  BY <3>4, Sizes DEF Launches, Fits
        <3> QED BY <3>3, <3>5
    <2>2. CASE pc # "prefill"  BY <2>2, <1>2 DEF ProgressInv, Answering
    <2> QED BY <2>1, <2>2
<1>5. ASSUME NEW l \in Reads(k, n) PROVE memory[l] = Source(k, l)
    <2>1. l \in Locations /\ Needed(k, l) /\ Source(k, l) = Held(k, l)
        BY <1>2, <1>3, <1>4, ReadsNeeded
    <2>2. ~ \E m \in ran : l \in Writes(k, m)
        <3> SUFFICES ASSUME NEW m \in ran, l \in Writes(k, m) PROVE FALSE  OBVIOUS
        <3>1. m \in Blocks(k) /\ m # n  BY <1>3
        <3>2. Writes(k, m) \cap (Reads(k, n) \cup Writes(k, n)) = {}  BY <3>1, <1>2, <1>3, KernelApart
        <3> QED BY <3>2
    <2> QED BY <2>1, <2>2 DEF DeviceAt
<1>6. memory' = [l \in Locations |->
                    IF l \notin Writes(k, n) THEN memory[l]
                    ELSE IF \A o \in Reads(k, n) : memory[o] = Source(k, o) THEN StampOf(k) ELSE Garbage]
    BY <1>1 DEF RunBlock, StampOf
<1>7. \A o \in Reads(k, n) : memory[o] = Source(k, o)  BY <1>5
<1> QED BY <1>1, <1>2, <1>3, <1>6, <1>7
(* A block of the first kernel runs. *)
LEMMA RunBlockKeeps ==
    ASSUME GInv, AnswerInv, NEW n, RunBlock(n)
    PROVE  AnswerInv'
<1>1. /\ UNCHANGED <<rotary, pc, call, prompt, greedy, start, rows, script, owner, fetched>>
      /\ stream # <<>> /\ n \in Blocks(Head(stream)) \ ran /\ stream \in Seq(Launches(owner))
    BY DEF RunBlock, hostVars, GInv
<1> DEFINE last == stream' = Tail(stream) /\ ran' = {} /\ Blocks(Head(stream)) \ ran = {n}
           more == stream' = stream /\ ran' = ran \cup {n}
<1>2. last \/ more  BY Zenon DEF RunBlock
<1>3. RanInv'
    BY <1>1, <1>2 DEF RanInv, AnswerInv, Blocks, SinksTurned
<1>4. DOMAIN memory' = Locations  BY DEF RunBlock
<1>5. HostReadsLastForward'  BY <1>1 DEF AnswerInv, HostReadsLastForward
<1>6. ASSUME Answering PROVE ProgressInv' /\ QueueInv' /\ DeviceAt(Due)'
    <2>1. ProgressInv /\ QueueInv /\ RanInv /\ DeviceAt(Due)  BY <1>6 DEF AnswerInv
    <2>2. PICK k : k = Due  OBVIOUS
    <2>3. DeviceAt(k)  BY <2>1, <2>2
    <2>4. /\ k = Head(stream) /\ k \in Launches(call) /\ Proper(k)
          /\ n \in Blocks(k) /\ n \notin ran /\ ran \subseteq Blocks(k)
          /\ memory' = [l \in Locations |-> IF l \in Writes(k, n) THEN StampOf(k) ELSE memory[l]]
        BY <1>6, <2>1, <2>2, <2>3, BlockStamps
    <2>5. ProgressInv'
        BY <1>1, <2>1 DEF ProgressInv, BatchSize
    <2>6. Rest' = Rest  BY <1>1 DEF Rest
    <2>7. /\ Len(stream) \in Nat /\ Len(script) \in Nat /\ Count = Len(stream) + Len(script)
          /\ rows \in Nat /\ prompt \in 1 .. MaxSeqLen /\ Count > 0 /\ Pending(1) = k
          /\ \A i \in 1 .. Count : Pending(i) \in Launches(call) /\ Proper(Pending(i))
          /\ Waiting(call, Rest)
        BY <1>1, <1>6, <2>1, <2>4, Queued
    <2>8. CASE more
        <3>1. Count' = Count /\ Due' = k /\ \A i : Pending(i)' = Pending(i)
            BY <1>1, <2>2, <2>6, <2>8 DEF Count, Due, Pending
        <3>2. QueueInv'
            <4>1. \A o : Proper(o)' <=> Proper(o)  BY <1>1, SameKind
            <4>2. \A o, o2 : Follows(o, o2)' <=> Follows(o, o2)  BY <1>1, SameOrder
            <4> QED BY <2>1, <2>6, <3>1, <4>1, <4>2 DEF QueueInv
        <3>3. DeviceAt(k)'
            <4>1. \A l : (Needed(k, l)' <=> Needed(k, l)) /\ Held(k, l)' = Held(k, l)
                BY <1>1, SameClaims
            <4>2. \A l : (\E m \in ran' : l \in Writes(k, m))
                            <=> (\E m \in ran : l \in Writes(k, m)) \/ l \in Writes(k, n)
                BY <2>8
            <4> QED BY <2>3, <2>4, <4>1, <4>2 DEF DeviceAt
        <3> QED BY <2>5, <3>1, <3>2, <3>3
    <2>9. CASE last
        <3>1. Len(stream') = Len(stream) - 1 /\ \A i \in 1 .. Len(stream) - 1 : stream'[i] = stream[i + 1]
            BY <1>1, <2>9, HeadTailProperties
        <3>2. Count' = Count - 1  BY <1>1, <2>7, <3>1 DEF Count
        <3>3. \A i \in 1 .. Count - 1 : Pending(i)' = Pending(i + 1)
            <4> TAKE i \in 1 .. Count - 1
            <4>1. CASE i <= Len(stream) - 1
                <5>1. i \in 1 .. Len(stream) - 1 /\ i <= Len(stream') /\ i + 1 <= Len(stream)
                    BY <2>7, <3>1, <4>1
                <5> QED BY <3>1, <5>1 DEF Pending
            <4>2. CASE ~(i <= Len(stream) - 1)
                <5>1. /\ ~(i <= Len(stream')) /\ ~(i + 1 <= Len(stream))
                      /\ i - Len(stream') = (i + 1) - Len(stream)
                    BY <2>7, <3>1, <4>2
                <5> QED BY <1>1, <5>1 DEF Pending
            <4> QED BY <4>1, <4>2
        <3>4. QueueInv'
            <4>1. \A o : Proper(o)' <=> Proper(o)  BY <1>1, SameKind
            <4>2. \A o, o2 : Follows(o, o2)' <=> Follows(o, o2)  BY <1>1, SameOrder
            <4>3. \A i \in 1 .. Count' : Proper(Pending(i))'
                <5>1. \A i \in 1 .. Count - 1 : Proper(Pending(i + 1))  BY <2>1, <2>7 DEF QueueInv
                <5> QED BY <2>7, <3>2, <3>3, <4>1, <5>1
            <4>4. \A i \in 1 .. Count' - 1 : Follows(Pending(i), Pending(i + 1))'
                <5> TAKE i \in 1 .. Count' - 1
                <5>1. i + 1 \in 1 .. Count - 1 /\ i \in 1 .. Count - 1  BY <2>7, <3>2
                <5>2. Pending(i)' = Pending(i + 1) /\ Pending(i + 1)' = Pending((i + 1) + 1)
                    BY <3>3, <5>1
                <5>3. Follows(Pending(i + 1), Pending((i + 1) + 1))  BY <2>1, <5>1 DEF QueueInv
                <5> QED BY <4>2, <5>2, <5>3
            <4>5. Count' > 0 => Follows(Pending(Count), Rest)'
                <5> HAVE Count' > 0
                <5>1. PICK j : j = Count'  OBVIOUS
                <5>2. j \in 1 .. Count - 1 /\ j + 1 = Count  BY <2>7, <3>2, <5>1
                <5>3. Pending(j)' = Pending(j + 1)  BY <3>3, <5>2
                <5>4. Follows(Pending(Count), Rest)  BY <2>1, <2>7 DEF QueueInv
                <5>5. Pending(Count)' = Pending(Count)
                    BY <5>1, <5>2, <5>3
                <5> QED BY <2>6, <4>2, <5>4, <5>5
            <4> QED BY <4>3, <4>4, <4>5 DEF QueueInv
        <3>5. PICK k2 : k2 = Due'  OBVIOUS
        <3>6. Follows(k, k2) /\ Waiting(call, k2)
            <4>1. CASE Count = 1
                <5>1. k2 = Rest  BY <2>6, <2>7, <3>2, <3>5, <4>1 DEF Due
                <5> QED BY <2>1, <2>7, <4>1, <5>1 DEF QueueInv
            <4>2. CASE Count > 1
                <5>1. 1 \in 1 .. Count - 1 /\ 1 + 1 \in 1 .. Count /\ Count' # 0  BY <2>7, <3>2, <4>2
                <5>2. k2 = Pending(1 + 1)  BY <3>3, <3>5, <5>1 DEF Due
                <5> QED BY <2>1, <2>7, <5>1, <5>2 DEF QueueInv, Waiting
            <4> QED BY <2>7, <4>1, <4>2
        <3>7. DeviceAt(k2)'
            <4>1. \A l : (Needed(k2, l)' <=> Needed(k2, l)) /\ Held(k2, l)' = Held(k2, l)
                BY <1>1, SameClaims
            <4>2. ASSUME NEW l \in Locations, Needed(k2, l) PROVE memory'[l] = Held(k2, l)
                <5>1. IF Touched(k, l) THEN Held(k2, l) = StampOf(k)
                                       ELSE Needed(k, l) /\ Held(k2, l) = Held(k, l)
                    BY <2>4, <2>7, <3>6, <4>2, StepNeeded
                <5>2. Touched(k, l) <=> \E m \in Blocks(k) : l \in Writes(k, m)
                    BY <2>4, KernelTouches
                <5>3. Blocks(k) = ran \cup {n}  BY <2>4, <2>9
                <5>4. memory'[l] = IF l \in Writes(k, n) THEN StampOf(k) ELSE memory[l]  BY <2>4
                <5> QED BY <2>3, <5>1, <5>2, <5>3, <5>4 DEF DeviceAt
            <4> QED BY <2>9, <4>1, <4>2 DEF DeviceAt
        <3> QED BY <2>5, <3>4, <3>5, <3>7
    <2> QED BY <1>2, <2>8, <2>9
<1>7. Answering' <=> Answering  BY <1>1 DEF Answering
<1> QED BY <1>3, <1>4, <1>5, <1>6, <1>7 DEF AnswerInv
(* The next launch needs no more than what the host found.                 *)
LEMMA Handed ==
    ASSUME start \in Nat, rows \in Nat, NEW k, NEW r, NEW l \in Locations, Needed(k, l),
           k.call = call, k.layer = 0, r.call = call, r.layer = 0,
           r.name \in {"forwarded", "chosen"}, r.pos = start, r.rows = rows,
           \/ k.name = "embedding" /\ k.row = 0 /\ k.pos = start + rows
           \/ k.name \in {"argmax", "forwarded"} /\ k.pos = start /\ Span(k) = rows
    PROVE  Needed(r, l) /\ Held(k, l) = Held(r, l)
<1> DEFINE b == l[1]  m == l[2]
<1>1. l[3] \in Nat /\ b \in DOMAIN Size  BY LocationParts
<1>2. b = "logits" \/ b \in Caches
    BY <1>1, BufferNames DEF Needed, BlockNames
<1>3. Span(r) = rows  BY DEF Span
<1>4. CASE b = "logits"
    <2>1. k.name \in {"argmax", "forwarded"} /\ k.pos = start /\ Span(k) > 0 /\ Span(k) = rows
        BY <1>4, BufferNames DEF Needed
    <2> QED BY <1>3, <1>4, <2>1, HeldOf DEF Needed
<1>5. CASE b \in Caches
    <2>1. LastStored(k, m) = LastStored(r, m) /\ LastTurned(k, m) = LastTurned(r, m)
        <3>1. CASE k.name = "embedding" /\ k.pos = start + rows
            BY <3>1, <1>3 DEF LastStored, LastTurned, Past, Ending, BlockNames
        <3>2. CASE k.name \in {"argmax", "forwarded"} /\ k.pos = start /\ Span(k) = rows
            BY <3>2, <1>3 DEF LastStored, LastTurned, Past, Ending, BlockNames
        <3> QED BY <3>1, <3>2
    <2>2. l[3] \div KvHeads <= LastStored(k, m)  BY <1>5, BufferNames DEF Needed
    <2> QED BY <1>5, <2>1, <2>2, HeldOf DEF Needed
<1> QED BY <1>2, <1>4, <1>5

(* The host goes on and the device does not.                               *)
LEMMA DeviceKept ==
    ASSUME UNCHANGED <<rotary, ran, memory, prompt>>, NEW k, DeviceAt(k), NEW k2,
           k2.name = "argmax" => rows' = rows,
           \/ k2 = k
           \/ ran = {} /\ \A l \in Locations : Needed(k2, l) => Needed(k, l) /\ Held(k2, l) = Held(k, l)
    PROVE  DeviceAt(k2)'
<1>1. \A l : (Needed(k2, l)' <=> Needed(k2, l)) /\ Held(k2, l)' = Held(k2, l)
    BY SameClaims
<1>2. DeviceAt(k2)
    <2>1. CASE k2 = k  BY <2>1
    <2>2. CASE /\ ran = {}
               /\ \A l \in Locations : Needed(k2, l) => Needed(k, l) /\ Held(k2, l) = Held(k, l)
        BY <2>2 DEF DeviceAt
    <2> QED BY <2>1, <2>2
<1> QED BY <1>1, <1>2 DEF DeviceAt

(* A forward begins where the last one ended. *)
LEMMA ForwardBegins ==
    ASSUME GInv, Answering, QueueInv, RanInv, DeviceAt(Due), script = <<>>, pc # "argmax",
           pc' # "argmax", start' = start + rows, rows' \in Nat \ {0},
           UNCHANGED <<rotary, call, prompt, stream, ran, memory>>,
           NEW f \in Forwards(call), f.pos = start', f.rows = rows', OfChunk(f) \/ OfToken(f),
           script' = Script(f)
    PROVE  QueueInv' /\ DeviceAt(Due)'
<1>0. PICK s : s = Script(f)  OBVIOUS
<1> DEFINE L == Len(stream)  N == Len(s)
<1>1. /\ L \in Nat /\ Count = L /\ start \in Nat /\ rows \in Nat /\ prompt \in 1 .. MaxSeqLen
      /\ call \in Nat
      /\ \A i \in 1 .. L : Pending(i) \in Launches(call) /\ Proper(Pending(i)) /\ Pending(i).name # "argmax"
      /\ Due.name # "argmax"
    <2>1. Len(script) = 0  OBVIOUS
    <2> QED BY <2>1, Queued
<1>2. /\ N \in Nat \ {0, 1}
      /\ s[1] = Launch("embedding", 0, f, 0) /\ s[N] = Launch("classifier", 0, f, 0)
      /\ \A n \in 1 .. N : Proper(s[n])
      /\ \A n \in 1 .. N - 1 : Follows(s[n], s[n + 1])
    BY <1>0, <1>1, ScriptChain
<1>3. f.call = call /\ s \in Seq(Launches(call))  BY <1>0, <1>1, ScriptType DEF Forwards
<1>4. script' = s  BY <1>0
<1>5. Count' = L + N  BY <1>4 DEF Count
<1>6. /\ \A i \in 1 .. L : Pending(i)' = Pending(i)
      /\ \A i \in 1 .. N : Pending(L + i)' = s[i]
    <2>1. ASSUME NEW i \in 1 .. L PROVE Pending(i)' = Pending(i)
        BY <1>1, <2>1 DEF Pending
    <2>2. ASSUME NEW i \in 1 .. N, NEW j, j = L + i PROVE Pending(j)' = s[i]
        <3>1. ~(j <= L) /\ j - L = i  BY <1>1, <1>2, <2>2
        <3> QED BY <1>4, <3>1 DEF Pending
    <2> QED BY <2>1, <2>2
<1>7. Rest.name = "forwarded" /\ Span(Rest) = rows /\ Rest.pos = start /\ Rest.call = call
      /\ Rest.layer = 0 /\ Rest.rows = rows
    BY DEF Rest, Span
<1>8. (Rest.name = "forwarded" /\ Span(Rest) = f.rows /\ Rest.pos = f.pos /\ Rest.call = call)'
    BY DEF Rest, Span
<1>9. \A n \in 1 .. N : s[n].name # "argmax"
    <2> SUFFICES ASSUME NEW n \in 1 .. N, s[n].name = "argmax" PROVE FALSE  OBVIOUS
    <2>1. CASE n = N  BY <2>1, <1>2 DEF Launch
    <2>2. CASE n # N
        <3>1. n \in 1 .. N - 1 /\ n + 1 \in 1 .. N  BY <2>2, <1>2
        <3>2. s[n + 1].name = "chosen"  BY <3>1, <1>2, FollowsNames DEF After
        <3>3. s[n + 1] \in Launches(call)  BY <3>1, <1>3
        <3>4. s[n + 1].name \in Names  BY <3>3 DEF Launches
        <3> QED BY <3>2, <3>4 DEF Names, BlockNames
    <2> QED BY <2>1, <2>2
<1>a. \A o : Proper(o)' <=> Proper(o)  BY SameKind
<1>b. \A i \in 1 .. L + N : i \in 1 .. L \/ \E j \in 1 .. N : i = L + j
    <2> TAKE i \in 1 .. L + N
    <2> HIDE DEF L, N
    <2>1. CASE i <= L  BY <2>1, <1>1
    <2>2. CASE ~(i <= L)
        <3>1. i - L \in 1 .. N /\ i = L + (i - L)  BY <2>2, <1>1, <1>2
        <3> QED BY <3>1
    <2> QED BY <2>1, <2>2
<1>c. ASSUME NEW i \in 1 .. L + N PROVE Proper(Pending(i))'
    <2>1. CASE i \in 1 .. L  BY <2>1, <1>1, <1>6, <1>a
    <2>2. CASE \E j \in 1 .. N : i = L + j
        <3>1. PICK j \in 1 .. N : i = L + j  BY <2>2
        <3>2. Pending(i)' = s[j]  BY <3>1, <1>6
        <3> QED BY <3>1, <3>2, <1>2, <1>a
    <2> QED BY <2>1, <2>2, <1>b
<1>d. ASSUME NEW i \in 1 .. L + N - 1 PROVE Follows(Pending(i), Pending(i + 1))'
    <2>0. \A o, o2 : o.name # "argmax" /\ o2.name # "argmax" => (Follows(o, o2)' <=> Follows(o, o2))
        BY SameOrder
    <2>1. CASE i < L
        <3>1. i \in 1 .. L /\ i + 1 \in 1 .. L /\ i \in 1 .. Count - 1  BY <2>1, <1>1
        <3>2. Follows(Pending(i), Pending(i + 1))  BY <3>1 DEF QueueInv
        <3>3. Pending(i)' = Pending(i) /\ Pending(i + 1)' = Pending(i + 1)  BY <3>1, <1>6
        <3> QED BY <2>0, <3>1, <3>2, <3>3, <1>1
    <2>2. CASE i = L
        <3>1. i \in 1 .. L /\ i = Count /\ Count > 0  BY <2>2, <1>1
        <3>2. Follows(Pending(i), Rest)  BY <3>1 DEF QueueInv
        <3>3. Pending(i).name = "classifier" /\ Pending(i).pos = start /\ Pending(i).rows = rows
              /\ Pending(i).call = call
            BY <3>1, <3>2, <1>1, <1>7, FollowsNames DEF After
        <3>4. Pending(i)' = Pending(i) /\ Pending(i + 1)' = s[1]
            <4>1. 1 \in 1 .. N /\ i + 1 = L + 1  BY <2>2, <1>2
            <4> QED BY <3>1, <4>1, <1>6
        <3>5. s[1].name = "embedding" /\ s[1].row = 0 /\ s[1].pos = start + rows /\ s[1].call = call
            BY <1>2, <1>3 DEF Launch
        <3>6. Follows(Pending(i), s[1])  BY <3>3, <3>5 DEF Follows
        <3> QED BY <2>0, <3>3, <3>4, <3>5, <3>6
    <2>3. CASE i > L
        <3>1. PICK j \in 1 .. N - 1 : i = L + j
            <4>1. i - L \in 1 .. N - 1 /\ i = L + (i - L)  BY <2>3, <1>1, <1>2
            <4> QED BY <4>1
        <3>2. j \in 1 .. N /\ j + 1 \in 1 .. N /\ i + 1 = L + (j + 1)  BY <3>1, <1>1, <1>2
        <3>3. Pending(i)' = s[j] /\ Pending(i + 1)' = s[j + 1]  BY <3>1, <3>2, <1>6
        <3> QED BY <2>0, <3>2, <3>3, <1>2, <1>9
    <2> QED BY <2>1, <2>2, <2>3, <1>1
<1>e. Follows(Pending(Count), Rest)'
    <2>1. PICK j : j = Count'  OBVIOUS
    <2>2. PICK r : r = Rest'  OBVIOUS
    <2>3. N \in 1 .. N /\ j = L + N  BY <2>1, <1>2, <1>5
    <2>4. Pending(j)' = s[N]  BY <2>3, <1>6
    <2>5. /\ s[N].name = "classifier" /\ s[N].call = call /\ s[N].pos = f.pos /\ s[N].rows = f.rows
        BY <1>2, <1>3 DEF Launch
    <2>6. Follows(s[N], r)'
        <3>1. r.name = "forwarded" /\ Span(r)' = f.rows /\ r.pos = f.pos /\ r.call = call
            BY <1>8, <2>2
        <3> QED BY <2>5, <3>1 DEF Follows
    <2> QED BY <2>1, <2>2, <2>4, <2>6
<1>f. QueueInv'
    BY <1>5, <1>c, <1>d, <1>e DEF QueueInv
<1>g. PICK k : k = Due  OBVIOUS
<1>h. PICK k2 : k2 = Due'  OBVIOUS
<1>i. k2.name # "argmax" /\ (k2 = k \/ (ran = {} /\ \A l \in Locations : Needed(k2, l) => Needed(k, l) /\ Held(k2, l) = Held(k, l)))
    <2>1. CASE L > 0
        <3>1. 1 \in 1 .. L /\ Count' # 0 /\ Count # 0  BY <2>1, <1>1, <1>2, <1>5
        <3>2. k2 = k  BY <3>1, <1>6, <1>g, <1>h DEF Due
        <3> QED BY <3>2, <1>1, <1>g
    <2>2. CASE L = 0
        <3>1. 1 \in 1 .. N /\ L + 1 = 1 /\ Count' # 0 /\ Count = 0  BY <2>2, <1>1, <1>2, <1>5
        <3>2. Pending(1)' = s[1]  BY <3>1, <1>6
        <3>3. k2 = s[1] /\ k = Rest  BY <3>1, <3>2, <1>g, <1>h DEF Due
        <3>4. s[1].name = "embedding" /\ s[1].row = 0 /\ s[1].pos = start + rows /\ s[1].call = call /\ s[1].layer = 0
            BY <1>2, <1>3 DEF Launch
        <3>5. ran = {}  BY <1>1, <2>2 DEF RanInv, GInv
        <3> QED BY <1>1, <1>7, <3>3, <3>4, <3>5, Handed
    <2> QED BY <2>1, <2>2, <1>1
<1>j. DeviceAt(k2)'
    BY <1>g, <1>i, DeviceKept
<1> QED BY <1>f, <1>h, <1>j
(* The host launches the next kernel of its script. *)
LEMMA LaunchKeeps ==
    ASSUME GInv, AnswerInv, LaunchNext
    PROVE  AnswerInv'
<1>1. /\ script # <<>> /\ script' = Tail(script) /\ stream' = Append(stream, Head(script))
      /\ UNCHANGED <<rotary, pc, call, prompt, greedy, start, rows, ran, memory, owner, fetched>>
      /\ pc \in {"prefill", "forward"} /\ Answering
    BY DEF LaunchNext, GInv, HostInv, Answering
<1>2. /\ ProgressInv /\ QueueInv /\ RanInv /\ DeviceAt(Due) /\ DOMAIN memory = Locations
      /\ HostReadsLastForward
    BY <1>1 DEF AnswerInv
<1>3. /\ Len(stream) \in Nat /\ Len(script) \in Nat /\ Count = Len(stream) + Len(script)
      /\ stream \in Seq(Launches(call)) /\ script \in Seq(Launches(call))
    BY <1>1, <1>2, Queued
<1>4. /\ Len(script) > 0 /\ Len(script') = Len(script) - 1 /\ Head(script) = script[1]
      /\ \A i \in 1 .. Len(script) - 1 : script'[i] = script[i + 1]
      /\ Len(stream') = Len(stream) + 1 /\ stream'[Len(stream) + 1] = script[1]
      /\ \A i \in 1 .. Len(stream) : stream'[i] = stream[i]
    <2>1. Head(script) \in Launches(call)  BY <1>1, <1>3, HeadTailProperties
    <2> QED BY <1>1, <1>3, <2>1, HeadTailProperties, AppendProperties
<1>5. Count' = Count /\ Count > 0  BY <1>3, <1>4 DEF Count
<1>6. \A i \in 1 .. Count : Pending(i)' = Pending(i)
    <2> TAKE i \in 1 .. Count
    <2>1. CASE i <= Len(stream)
        <3>1. i \in 1 .. Len(stream) /\ i <= Len(stream')  BY <2>1, <1>3, <1>4
        <3> QED BY <3>1, <1>4 DEF Pending
    <2>2. CASE i = Len(stream) + 1
        <3>1. i <= Len(stream') /\ ~(i <= Len(stream)) /\ i - Len(stream) = 1  BY <2>2, <1>3, <1>4
        <3> QED BY <2>2, <3>1, <1>4 DEF Pending
    <2>3. CASE i > Len(stream) + 1
        <3>1. /\ ~(i <= Len(stream')) /\ ~(i <= Len(stream))
              /\ i - Len(stream') \in 1 .. Len(script) - 1
              /\ (i - Len(stream')) + 1 = i - Len(stream)
            BY <2>3, <1>3, <1>4
        <3> QED BY <3>1, <1>4 DEF Pending
    <2> QED BY <2>1, <2>2, <2>3, <1>3
<1>7. Rest' = Rest  BY <1>1 DEF Rest
<1>8. QueueInv'
    <2>1. \A o : Proper(o)' <=> Proper(o)  BY <1>1, SameKind
    <2>2. \A o, o2 : Follows(o, o2)' <=> Follows(o, o2)  BY <1>1, SameOrder
    <2>3. \A i \in 1 .. Count' : Proper(Pending(i))'  BY <1>2, <1>5, <1>6, <2>1 DEF QueueInv
    <2>4. \A i \in 1 .. Count' - 1 : Follows(Pending(i), Pending(i + 1))'
        <3> TAKE i \in 1 .. Count' - 1
        <3>1. i \in 1 .. Count /\ i + 1 \in 1 .. Count /\ i \in 1 .. Count - 1  BY <1>3, <1>5
        <3>2. Pending(i)' = Pending(i) /\ Pending(i + 1)' = Pending(i + 1)  BY <3>1, <1>6
        <3>3. Follows(Pending(i), Pending(i + 1))  BY <3>1, <1>2 DEF QueueInv
        <3> QED BY <2>2, <3>2, <3>3
    <2>5. Follows(Pending(Count), Rest)'
        <3>1. Count \in 1 .. Count  BY <1>3, <1>5
        <3>2. Pending(Count)' = Pending(Count)  BY <1>5, <1>6, <3>1
        <3>3. Follows(Pending(Count), Rest)  BY <1>2, <1>5 DEF QueueInv
        <3> QED BY <1>7, <2>2, <3>2, <3>3
    <2> QED BY <2>3, <2>4, <2>5 DEF QueueInv
<1>9. PICK k : k = Due  OBVIOUS
<1>a. Due' = k
    <2>1. 1 \in 1 .. Count /\ Count # 0  BY <1>3, <1>5
    <2> QED BY <2>1, <1>5, <1>6, <1>9 DEF Due
<1>b. DeviceAt(k)'  BY <1>1, <1>2, <1>9, DeviceKept
<1>c. ProgressInv'  BY <1>1, <1>2 DEF ProgressInv, BatchSize
<1>d. RanInv'
    <2>1. CASE stream = <<>>
        <3>1. ran' = {} /\ stream' # <<>>  BY <2>1, <1>1, <1>2, <1>4 DEF RanInv
        <3> QED BY <3>1 DEF RanInv
    <2>2. CASE stream # <<>>
        <3>1. Head(stream') = Head(stream) /\ stream' # <<>>
            <4>1. Len(stream) > 0  BY <2>2, <1>3
            <4>2. 1 \in 1 .. Len(stream) /\ Head(stream') = stream'[1] /\ Head(stream) = stream[1]
                BY <4>1, <1>3, <1>4, <1>1
            <4> QED BY <4>1, <4>2, <1>3, <1>4
        <3> QED BY <2>2, <3>1, <1>1, <1>2 DEF RanInv, Blocks, SinksTurned
    <2> QED BY <2>1, <2>2
<1> QED BY <1>1, <1>2, <1>8, <1>a, <1>b, <1>c, <1>d DEF AnswerInv, HostReadsLastForward, Answering

(* The steps of the host alone, without a launch.                          *)
LEMMA HostKeeps ==
    ASSUME GInv, AnswerInv, pc \in {"prefill", "sample", "argmax", "forward"},
           script = <<>>, pc = "prefill" => rows > 0 /\ start + rows = prompt,
           pc = "argmax" => stream = <<>>,
           pc' \in {"sample", "callback"}, pc' = "callback" => stream = <<>>,
           pc = "argmax" => pc' = "callback",
           UNCHANGED <<rotary, call, prompt, greedy, start, rows, script, stream, ran, memory, owner>>
    PROVE  /\ DOMAIN memory' = Locations /\ RanInv'
           /\ ProgressInv' /\ QueueInv' /\ DeviceAt(Due)'
<1>1. /\ ProgressInv /\ QueueInv /\ RanInv /\ DeviceAt(Due) /\ DOMAIN memory = Locations /\ Answering
    BY DEF AnswerInv, Answering
<1>2. /\ start \in Nat /\ rows \in Nat /\ prompt \in 1 .. MaxSeqLen /\ Count \in Nat
      /\ Count = Len(stream) + Len(script)
    BY <1>1, Queued
<1>3. ProgressInv'
    <2>1. start + rows >= prompt /\ rows > 0  BY <1>1, <1>2 DEF ProgressInv
    <2> QED BY <2>1 DEF ProgressInv
<1>4. Count' = Count /\ \A i : Pending(i)' = Pending(i)  BY DEF Count, Pending
<1>5. pc = "argmax" => Count = 0
    BY <1>2
<1>6. CASE pc # "argmax"
    <2>1. Rest' = Rest  BY <1>6 DEF Rest
    <2>2. QueueInv'
        <3>1. \A o : Proper(o)' <=> Proper(o)  BY SameKind
        <3>2. \A o, o2 : Follows(o, o2)' <=> Follows(o, o2)  BY SameOrder
        <3> QED BY <1>1, <1>4, <2>1, <3>1, <3>2 DEF QueueInv
    <2>3. PICK k : k = Due  OBVIOUS
    <2>4. Due' = k  BY <1>4, <2>1, <2>3 DEF Due
    <2>5. DeviceAt(k)'  BY <1>1, <2>3, DeviceKept
    <2> QED BY <1>1, <1>3, <2>2, <2>4, <2>5 DEF RanInv, Blocks, SinksTurned
<1>7. CASE pc = "argmax"
    <2>1. Count = 0 /\ ran = {}  BY <1>1, <1>5, <1>7 DEF RanInv
    <2>2. QueueInv'  BY <1>2, <1>4, <2>1 DEF QueueInv
    <2>3. PICK k : k = Rest  OBVIOUS
    <2>4. PICK k2 : k2 = Rest'  OBVIOUS
    <2>5. Due = k /\ Due' = k2  BY <1>4, <2>1, <2>3, <2>4 DEF Due
    <2>6. /\ k.name = "chosen" /\ k2.name = "forwarded"
          /\ k.call = call /\ k.layer = 0 /\ k.pos = start /\ k.rows = rows
          /\ k2.call = call /\ k2.layer = 0 /\ k2.pos = start /\ k2.rows = rows /\ Span(k2) = rows
        BY <1>7, <2>3, <2>4 DEF Rest, Span
    <2>7. \A l \in Locations : Needed(k2, l) => Needed(k, l) /\ Held(k2, l) = Held(k, l)
        BY <1>2, <2>6, Handed
    <2>8. DeviceAt(k2)'  BY <1>1, <2>1, <2>5, <2>6, <2>7, DeviceKept
    <2> QED BY <1>1, <1>3, <2>2, <2>5, <2>8 DEF RanInv, Blocks, SinksTurned
<1> QED BY <1>6, <1>7
(* The next chunk of the prompt is due. *)
LEMMA ChunkKeeps ==
    ASSUME GInv, AnswerInv, NextChunk
    PROVE  AnswerInv'
<1>1. /\ pc = "prefill" /\ script = <<>> /\ start + rows < prompt
      /\ start' = start + rows /\ rows' = Lesser(BatchSize, prompt - start')
      /\ script' = PrefillScript(start', rows')
      /\ UNCHANGED <<rotary, pc, call, prompt, greedy, stream, ran, memory, owner, fetched>>
    BY DEF NextChunk
<1>2. /\ ProgressInv /\ QueueInv /\ RanInv /\ DeviceAt(Due) /\ DOMAIN memory = Locations /\ Answering
    BY <1>1 DEF AnswerInv, Answering
<1>3. call \in Nat /\ start \in Nat /\ rows \in Nat /\ prompt \in 1 .. MaxSeqLen /\ prompt \in Nat
    BY <1>2, RowCounts, Queued
<1>4. BatchSize \in Nat \ {0} /\ BatchSize <= PrefillBatchSize /\ BatchSize <= prompt /\ PrefillBatchSize \in Nat
    BY <1>3, Sizes DEF BatchSize, Lesser
<1>5. start' \in Nat /\ start' % BatchSize = 0
    <2>1. CASE start = 0 /\ rows = 0
        <3>1. 0 % BatchSize = 0  BY <1>4
        <3> QED BY <2>1, <3>1, <1>1
    <2>2. CASE start % BatchSize = 0 /\ rows = BatchSize
        <3> HIDE DEF BatchSize
        <3>1. (start + BatchSize) % BatchSize = start % BatchSize  BY <1>3, <1>4, RemainderOfSum
        <3> QED BY <2>2, <3>1, <1>1, <1>3, <1>4
    <2> QED BY <2>1, <2>2, <1>1, <1>2 DEF ProgressInv
<1>6. /\ rows' \in 1 .. BatchSize /\ start' + rows' <= prompt
      /\ start' + rows' < prompt => rows' = BatchSize
      /\ rows' \in 1 .. BatchCapacity /\ rows' \in Nat \ {0}
    <2>1. start' < prompt /\ BatchCapacity = IF PrefillBatchSize < MaxSeqLen THEN PrefillBatchSize ELSE MaxSeqLen
        BY <1>1 DEF BatchCapacity, Lesser
    <2>2. /\ rows' \in 1 .. BatchSize /\ start' + rows' <= prompt
          /\ start' + rows' < prompt => rows' = BatchSize
        <3> HIDE DEF BatchSize
        <3> QED BY <1>1, <1>3, <1>4, <1>5, <2>1 DEF Lesser
    <2>3. rows' \in 1 .. BatchCapacity /\ rows' \in Nat \ {0}
        <3> HIDE DEF BatchSize
        <3> QED BY <1>3, <1>4, <2>1, <2>2, Sizes
    <2> QED BY <2>2, <2>3
<1> DEFINE g(p, n) == [call |-> call, pos |-> p, rows |-> n, kvPos |-> p, kvLen |-> p + 1, sinks |-> 0]
<1>7. PICK f : f = g(start', rows')  OBVIOUS
<1>8. script' = Script(f)  BY <1>1, <1>7 DEF PrefillScript
<1>9. f \in Forwards(call)
    <2>1. PICK p \in Nat, n \in 1 .. BatchCapacity : p = start' /\ n = rows'
        BY <1>5, <1>6
    <2>2. p + n <= MaxSeqLen
        <3>1. \A m \in Nat : p + n <= m => (m <= MaxSeqLen => p + n <= MaxSeqLen)
            BY Sizes
        <3>2. p + n <= prompt
            <4>1. start' + rows' <= prompt  BY <1>6
            <4> QED BY <2>1, <4>1, Zenon
        <3>3. prompt <= MaxSeqLen  BY <1>3, Sizes
        <3> QED BY <3>1, <3>2, <3>3, <1>3
    <2>3. f = g(p, n)  BY <1>7, <2>1
    <2> QED BY <2>2, <2>3, <1>3, Sizes DEF Forwards, Fits
<1>10. OfChunk(f)  BY <1>5, <1>6, <1>7 DEF OfChunk
<1>11. QueueInv' /\ DeviceAt(Due)'
    <2>1. f.pos = start' /\ f.rows = rows' /\ pc # "argmax" /\ pc' # "argmax"  BY <1>1, <1>7
    <2> HIDE DEF g
    <2> QED BY <2>1, <1>1, <1>2, <1>6, <1>8, <1>9, <1>10, ForwardBegins
<1>12. ProgressInv'
    <2>1. BatchSize' = BatchSize  BY <1>1 DEF BatchSize
    <2> QED BY <2>1, <1>1, <1>5, <1>6 DEF ProgressInv
<1> QED BY <1>1, <1>2, <1>11, <1>12 DEF AnswerInv, RanInv, Blocks, SinksTurned, HostReadsLastForward

(* The token is forwarded. *)
LEMMA TokenKeeps ==
    ASSUME GInv, AnswerInv, ForwardToken
    PROVE  AnswerInv'
<1>1. /\ pc = "callback" /\ pc' = "forward" /\ start' = start + rows /\ rows' = 1
      /\ script' = DecodeScript(start')
      /\ UNCHANGED <<rotary, call, prompt, greedy, stream, ran, memory, owner, fetched>>
    BY DEF ForwardToken
<1>2. /\ ProgressInv /\ QueueInv /\ RanInv /\ DeviceAt(Due) /\ DOMAIN memory = Locations /\ Answering
    BY <1>1 DEF AnswerInv, Answering
<1>3. call \in Nat /\ start \in Nat /\ rows \in Nat /\ prompt \in 1 .. MaxSeqLen /\ prompt \in Nat
    BY <1>2, RowCounts, Queued
<1>4. script = <<>>  BY <1>1 DEF GInv, HostInv
<1>5. start' \in Nat /\ start' >= prompt  BY <1>1, <1>2, <1>3 DEF ProgressInv
<1> DEFINE g(p) == [call |-> call, pos |-> p, rows |-> 1,
                    kvPos |-> KvPos(p), kvLen |-> KvLen(p), sinks |-> NumSink(p)]
<1>6. PICK p \in Nat : p = start'  BY <1>5
<1>7. PICK f : f = g(p)  OBVIOUS
<1>8. script' = Script(f)  BY <1>1, <1>6, <1>7 DEF DecodeScript
<1>9. f \in Forwards(call)
    <2>1. /\ KvPos(p) \in 0 .. MaxSeqLen - 1 /\ KvLen(p) \in 1 .. MaxSeqLen
          /\ NumSink(p) \in 0 .. MaxSeqLen
        BY RowsOfPosition, RowCounts DEF Slots
    <2> QED BY <2>1, <1>3, <1>7, Sizes DEF Forwards, Fits
<1>10. OfToken(f)  BY <1>5, <1>6, <1>7 DEF OfToken
<1>11. QueueInv' /\ DeviceAt(Due)'
    <2>1. f.pos = start' /\ f.rows = rows' /\ pc # "argmax" /\ pc' # "argmax" /\ rows' \in Nat \ {0}
        BY <1>1, <1>6, <1>7
    <2> HIDE DEF g
    <2> QED BY <2>1, <1>1, <1>2, <1>4, <1>8, <1>9, <1>10, ForwardBegins
<1>12. ProgressInv'  BY <1>1, <1>3, <1>5 DEF ProgressInv
<1> QED BY <1>1, <1>2, <1>11, <1>12 DEF AnswerInv, RanInv, Blocks, SinksTurned, HostReadsLastForward

(* The token is to be chosen on the device. *)
LEMMA ArgmaxKeeps ==
    ASSUME GInv, AnswerInv, LaunchArgmax
    PROVE  AnswerInv'
<1> DEFINE g(c, p) == [call |-> c, pos |-> p, rows |-> 1, kvPos |-> 0, kvLen |-> 0, sinks |-> 0]
           L == Len(stream)
<1>0. PICK k2 : k2 = Launch("argmax", 0, g(call, start), 0)  OBVIOUS
<1>1. /\ pc = "sample" /\ greedy /\ pc' = "argmax" /\ stream' = Append(stream, k2) /\ Answering
      /\ UNCHANGED <<rotary, call, prompt, greedy, start, rows, script, ran, memory, owner, fetched>>
    BY <1>0 DEF LaunchArgmax, Answering
<1>2. /\ k2.name = "argmax" /\ k2.layer = 0 /\ k2.call = call /\ k2.pos = start
      /\ Span(k2) = rows /\ Blocks(k2) = {0}
    BY <1>0 DEF Launch, Span, Blocks
<1> HIDE DEF g
<1>3. /\ ProgressInv /\ QueueInv /\ RanInv /\ DeviceAt(Due) /\ DOMAIN memory = Locations
    BY <1>1 DEF AnswerInv
<1>4. /\ start \in Nat /\ rows \in Nat /\ prompt \in 1 .. MaxSeqLen /\ L \in Nat /\ Count = L
      /\ stream \in Seq(Launches(call)) /\ script = <<>>
    <2>1. script = <<>>  BY <1>1 DEF GInv, HostInv
    <2>2. Len(script) = 0  BY <2>1
    <2> QED BY <2>1, <2>2, <1>1, <1>3, Queued
<1>5. /\ Len(stream') = L + 1 /\ stream'[L + 1] = k2
      /\ \A i \in 1 .. L : stream'[i] = stream[i]
    BY <1>1, <1>4
<1>6. Count' = L + 1
    BY <1>1, <1>4, <1>5 DEF Count
<1>7. \A i \in 1 .. L : Pending(i)' = Pending(i)
    <2> TAKE i \in 1 .. L
    <2>1. i <= Len(stream) /\ i <= Len(stream')  BY <1>4, <1>5
    <2> QED BY <2>1, <1>5 DEF Pending
<1>8. \A i : i = L + 1 => Pending(i)' = k2
    <2> TAKE i
    <2> HAVE i = L + 1
    <2>1. i <= Len(stream')  BY <1>4, <1>5
    <2> QED BY <2>1, <1>5 DEF Pending
<1>9. PICK r : r = Rest  OBVIOUS
<1>10. PICK r2 : r2 = Rest'  OBVIOUS
<1>11. /\ r.name = "forwarded" /\ r.pos = start /\ r.call = call /\ r.layer = 0 /\ r.rows = rows /\ Span(r) = rows
       /\ r2.name = "chosen" /\ r2.pos = start /\ r2.call = call /\ r2.rows = rows
    BY <1>1, <1>9, <1>10 DEF Rest, Span
<1>12. QueueInv'
    <2>1. \A o : Proper(o)' <=> Proper(o)  BY <1>1, SameKind
    <2>2. \A o, o2 : Follows(o, o2)' <=> Follows(o, o2)  BY <1>1, SameOrder
    <2>3. ASSUME NEW i \in 1 .. L + 1 PROVE Proper(Pending(i))'
        <3>1. CASE i \in 1 .. L  BY <3>1, <1>3, <1>4, <1>7, <2>1 DEF QueueInv
        <3>2. CASE i = L + 1
            <4>1. Proper(k2)  BY <1>2 DEF Proper
            <4> QED BY <3>2, <4>1, <1>8, <2>1
        <3> QED BY <3>1, <3>2, <1>4
    <2>4. ASSUME NEW i \in 1 .. L PROVE Follows(Pending(i), Pending(i + 1))'
        <3>1. CASE i < L
            <4>1. i \in 1 .. Count - 1 /\ i + 1 \in 1 .. L  BY <3>1, <1>4
            <4>2. Pending(i)' = Pending(i) /\ Pending(i + 1)' = Pending(i + 1)  BY <4>1, <1>7
            <4>3. Follows(Pending(i), Pending(i + 1))  BY <4>1, <1>3 DEF QueueInv
            <4> QED BY <2>2, <4>2, <4>3
        <3>2. CASE i = L
            <4>1. Follows(Pending(i), r) /\ Pending(i)' = Pending(i) /\ Pending(i + 1)' = k2
                BY <3>2, <1>3, <1>4, <1>7, <1>8, <1>9 DEF QueueInv
            <4>2. Pending(i).name = "classifier" /\ Pending(i).pos = start /\ Pending(i).rows = rows
                  /\ Pending(i).call = call
                BY <4>1, <1>11, FollowsNames DEF After, SameForward
            <4>3. Follows(Pending(i), k2)  BY <4>2, <1>2 DEF Follows
            <4> QED BY <2>2, <4>1, <4>3
        <3> QED BY <3>1, <3>2, <1>4
    <2>5. Follows(Pending(Count), Rest)'
        <3>1. Follows(k2, r2)  BY <1>2, <1>11 DEF Follows
        <3>2. PICK j : j = Count'  OBVIOUS
        <3>3. Pending(j)' = k2  BY <3>2, <1>6, <1>8
        <3> QED BY <2>2, <3>1, <3>2, <3>3, <1>10
    <2>6. L + 1 - 1 = L  BY <1>4
    <2> QED BY <2>3, <2>4, <2>5, <2>6, <1>6 DEF QueueInv
<1>13. PICK k : k = Due  OBVIOUS
<1>14. PICK d : d = Due'  OBVIOUS
<1>15. d = k \/ (ran = {} /\ \A l \in Locations : Needed(d, l) => Needed(k, l) /\ Held(d, l) = Held(k, l))
    <2>1. CASE L > 0
        <3>1. 1 \in 1 .. L /\ Count' # 0 /\ Count # 0  BY <2>1, <1>4, <1>6
        <3>2. d = k  BY <3>1, <1>7, <1>13, <1>14 DEF Due
        <3> QED BY <3>2
    <2>2. CASE L = 0
        <3>1. 1 = L + 1 /\ Count' # 0 /\ Count = 0  BY <2>2, <1>4, <1>6
        <3>2. Pending(1)' = k2  BY <3>1, <1>8
        <3>3. d = k2 /\ k = r  BY <3>1, <3>2, <1>9, <1>13, <1>14 DEF Due
        <3>4. ran = {}  BY <1>3, <1>4, <2>2 DEF RanInv
        <3> QED BY <1>2, <1>4, <1>11, <3>3, <3>4, Handed
    <2> QED BY <2>1, <2>2, <1>4
<1>16. DeviceAt(d)'  BY <1>1, <1>3, <1>13, <1>15, DeviceKept
<1>17. ProgressInv'  BY <1>1, <1>3 DEF ProgressInv
<1>18. RanInv'
    <2>1. CASE L = 0  BY <2>1, <1>1, <1>3, <1>4, <1>5 DEF RanInv
    <2>2. CASE L > 0
        <3>1. Head(stream') = Head(stream) /\ stream # <<>>
            <4>1. 1 \in 1 .. L /\ Head(stream) = stream[1]  BY <2>2, <1>4
            <4>2. Head(stream') = stream'[1]  BY <1>1, <1>4, <1>5
            <4> QED BY <2>2, <4>1, <4>2, <1>5
        <3> QED BY <3>1, <1>1, <1>3, <1>5 DEF RanInv, Blocks, SinksTurned
    <2> QED BY <2>1, <2>2, <1>4
<1> QED BY <1>1, <1>3, <1>12, <1>14, <1>16, <1>17, <1>18 DEF AnswerInv, HostReadsLastForward
(* Every step keeps the invariant. *)
LEMMA AnswerNext == GInv /\ AnswerInv /\ [Next]_vars => AnswerInv'
<1>0. SUFFICES ASSUME GInv, AnswerInv, [Next]_vars PROVE AnswerInv'  OBVIOUS
<1>1. DOMAIN memory = Locations /\ RanInv /\ HostReadsLastForward  BY <1>0 DEF AnswerInv
<1>2. ASSUME NEW n, RunBlock(n) PROVE AnswerInv'  BY <1>0, <1>2, RunBlockKeeps
<1>3. CASE NextChunk  BY <1>0, <1>3, ChunkKeeps
<1>4. CASE LaunchNext  BY <1>0, <1>4, LaunchKeeps
<1>5. CASE LaunchArgmax  BY <1>0, <1>5, ArgmaxKeeps
<1>6. CASE ForwardToken  BY <1>0, <1>6, TokenKeeps
<1>7. CASE Synchronize \/ ForwardLaunched
    <2>1. /\ pc \in {"prefill", "forward"} /\ script = <<>> /\ pc' = "sample"
          /\ pc = "prefill" => start + rows = prompt
          /\ UNCHANGED <<rotary, call, prompt, greedy, start, rows, script, stream, ran, memory, owner, fetched>>
        BY <1>7 DEF Synchronize, ForwardLaunched
    <2>2. pc = "prefill" => rows > 0
        <3> HAVE pc = "prefill"
        <3>1. start + rows = prompt /\ prompt \in 1 .. MaxSeqLen /\ rows \in Nat /\ ProgressInv
            BY <1>0, <2>1, Sizes DEF GInv, HostInv, AnswerInv, Answering
        <3> QED BY <3>1 DEF ProgressInv
    <2>3. DOMAIN memory' = Locations /\ RanInv' /\ ProgressInv' /\ QueueInv' /\ DeviceAt(Due)'
        BY <1>0, <2>1, <2>2, HostKeeps
    <2> QED BY <2>1, <2>3 DEF AnswerInv, HostReadsLastForward
<1>8. ASSUME NEW b, Download(b), (b = "sampled" /\ pc = "argmax") \/ (b = "logits" /\ pc = "sample" /\ ~greedy)
      PROVE  AnswerInv'
    <2>1. /\ stream = <<>> /\ fetched' = memory[<<b, 0, 0>>] /\ pc' = "callback"
          /\ UNCHANGED <<rotary, call, prompt, greedy, start, rows, script, stream, ran, memory, owner>>
        BY <1>8 DEF Download
    <2>2. script = <<>> /\ Answering  BY <1>0, <1>8 DEF GInv, HostInv, Answering
    <2>3. DOMAIN memory' = Locations /\ RanInv' /\ ProgressInv' /\ QueueInv' /\ DeviceAt(Due)'
        BY <1>0, <1>8, <2>1, <2>2, HostKeeps
    <2>4. ProgressInv /\ DeviceAt(Due) /\ ran = {} /\ Due = Rest
        <3>1. ProgressInv /\ DeviceAt(Due)  BY <1>0, <2>2 DEF AnswerInv
        <3>2. Len(stream) = 0 /\ Len(script) = 0  BY <2>1, <2>2
        <3>3. Due = Rest  BY <3>2 DEF Due, Count
        <3> QED BY <3>1, <3>3, <1>1, <2>1 DEF RanInv
    <2>5. <<b, 0, 0>> \in Locations
        <3>1. b \in DOMAIN Size \ Caches /\ Size[b] = 1  BY <1>8, BufferNames
        <3>2. At(b, 0 .. Size[b] - 1) \subseteq Locations  BY <3>1, Zenon DEF Locations
        <3>3. 0 \in 0 .. Size[b] - 1  BY <3>1
        <3> QED BY <3>2, <3>3 DEF At
    <2>6. PICK k : k = Rest  OBVIOUS
    <2>7. PICK l : l = <<b, 0, 0>>  OBVIOUS
    <2>8. l[1] = b  BY <2>7
    <2>9. /\ k.name = (IF pc = "argmax" THEN "chosen" ELSE "forwarded")
          /\ k.layer = 0 /\ k.call = call /\ k.pos = start /\ k.rows = rows /\ Span(k) = rows
        BY <2>6 DEF Rest, Span
    <2>10. rows > 0 /\ (pc = "argmax" => greedy)  BY <1>8, <2>4 DEF ProgressInv
    <2>11. Needed(k, l)  BY <1>8, <2>8, <2>9, <2>10 DEF Needed
    <2>12. Held(k, l) = Stamp(IF pc = "argmax" THEN "argmax" ELSE "classifier", 0, call, start)
        BY <1>8, <2>8, <2>9, HeldOf
    <2>13. memory[l] = Held(k, l)  BY <2>4, <2>5, <2>6, <2>7, <2>11 DEF DeviceAt
    <2>14. HostReadsLastForward'
        BY <1>8, <2>1, <2>7, <2>10, <2>12, <2>13 DEF HostReadsLastForward
    <2> QED BY <2>3, <2>14 DEF AnswerInv
<1>9. CASE TokenRefused \/ NothingSampled \/ EndAnswer \/ FreeState
    <2>1. pc' \in {"unwind", "idle"} /\ UNCHANGED <<rotary, stream, ran, memory>>
        BY <1>9 DEF TokenRefused, NothingSampled, EndAnswer, FreeState
    <2> QED BY <1>1, <2>1 DEF AnswerInv, RanInv, Blocks, SinksTurned, Answering, HostReadsLastForward
<1>10. ASSUME NEW n \in Prompts, NEW zero \in BOOLEAN, Call(n, zero) PROVE AnswerInv'
    <2>1. /\ pc = "idle" /\ pc' = "prefill" /\ rows' = 0 /\ start' = 0 /\ DOMAIN memory' = Locations
          /\ UNCHANGED <<rotary, script, stream, ran>>
        BY <1>10 DEF Call
    <2>2. stream = <<>> /\ script = <<>> /\ ran = {}  BY <1>0, <1>1, <2>1 DEF GInv, HostInv, RanInv
    <2>3. Count' = 0
        <3>1. Len(stream') = 0 /\ Len(script') = 0  BY <2>1, <2>2
        <3> QED BY <3>1 DEF Count
    <2>4. QueueInv'  BY <2>3 DEF QueueInv
    <2>5. PICK k : k = Rest'  OBVIOUS
    <2>6. Due' = k  BY <2>3, <2>5 DEF Due
    <2>7. k.name = "forwarded" /\ k.pos = 0 /\ Span(k)' = 0  BY <2>1, <2>5 DEF Rest, Span
    <2>8. \A l \in Locations : ~Needed(k, l)'
        <3> SUFFICES ASSUME NEW l \in Locations, Needed(k, l)' PROVE FALSE  OBVIOUS
        <3>1. l[1] \in Caches /\ l[3] \div KvHeads <= LastStored(k, l[2])'
            BY <2>7 DEF Needed, BlockNames
        <3>2. LastStored(k, l[2])' = -1  BY <2>7 DEF LastStored, Past
        <3>3. l[3] \div KvHeads \in Nat  BY LocationParts, Sizes, QuotientBelow
        <3> QED BY <3>1, <3>2, <3>3
    <2>9. DeviceAt(k)'  BY <2>1, <2>2, <2>8 DEF DeviceAt
    <2>10. ProgressInv'  BY <2>1 DEF ProgressInv
    <2> QED BY <2>1, <2>2, <2>4, <2>6, <2>9, <2>10 DEF AnswerInv, RanInv, HostReadsLastForward
<1>11. CASE UNCHANGED vars
    <2>1. UNCHANGED <<rotary, pc, call, prompt, greedy, start, rows, script, owner, fetched, stream, ran, memory>>
        BY <1>11 DEF vars, hostVars
    <2>2. Answering => ProgressInv' /\ QueueInv' /\ DeviceAt(Due)'
        <3> HAVE Answering
        <3>1. ProgressInv /\ QueueInv /\ DeviceAt(Due)  BY <1>0 DEF AnswerInv
        <3>2. Count' = Count /\ Rest' = Rest /\ \A i : Pending(i)' = Pending(i)
            BY <2>1 DEF Count, Rest, Pending
        <3>3. \A o : Proper(o)' <=> Proper(o)  BY <2>1, SameKind
        <3>4. \A o, o2 : Follows(o, o2)' <=> Follows(o, o2)  BY <2>1, SameOrder
        <3>5. QueueInv'  BY <3>1, <3>2, <3>3, <3>4 DEF QueueInv
        <3>6. PICK k : k = Due  OBVIOUS
        <3>7. Due' = k  BY <3>2, <3>6 DEF Due
        <3>8. DeviceAt(k)'  BY <2>1, <3>1, <3>6, DeviceKept
        <3>9. ProgressInv'  BY <2>1, <3>1 DEF ProgressInv, BatchSize
        <3> QED BY <3>5, <3>7, <3>8, <3>9
    <2> QED BY <1>1, <2>1, <2>2 DEF AnswerInv, Answering, RanInv, Blocks, SinksTurned, HostReadsLastForward
<1>12. CASE DownloadToken  BY <1>8, <1>12 DEF DownloadToken
<1>13. CASE DownloadLogits  BY <1>8, <1>13 DEF DownloadLogits
<1> QED BY <1>0, <1>2, <1>3, <1>4, <1>5, <1>6, <1>7, <1>9, <1>10, <1>11, <1>12, <1>13
        DEF Next, Host, Device

(***************************************************************************)
(* What the host downloads before it goes on with a token comes from the   *)
(* last forward of its own request, whose kernels found in x, the caches   *)
(* and every other buffer what the kernels before them, the chunks of the  *)
(* prompt and the earlier tokens had left there.                           *)
(***************************************************************************)
THEOREM HostReads == Spec => []HostReadsLastForward
<1>1. Init => AnswerInv
    <2> SUFFICES ASSUME Init PROVE AnswerInv  OBVIOUS
    <2>1. pc = "idle" /\ stream = <<>> /\ ran = {} /\ DOMAIN memory = Locations  BY DEF Init
    <2> QED BY <2>1 DEF AnswerInv, RanInv, Answering, HostReadsLastForward
<1>2. AnswerInv => HostReadsLastForward  BY DEF AnswerInv
<1>3. Spec => []AnswerInv
    <2>1. GInv /\ GInv' /\ AnswerInv /\ [Next]_vars => AnswerInv'  BY AnswerNext
    <2> QED BY <1>1, <2>1, GInvAlways, PTL DEF Spec
<1> QED BY <1>2, <1>3, PTL
=============================================================================
