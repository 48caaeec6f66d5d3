--------------------------- MODULE Generate_proof ---------------------------
(***************************************************************************)
(* Proofs about Generate for every cache size, number of sinks, prefill    *)
(* batch, number of layers, vocabulary and set of requests.  The heart is  *)
(* CacheInv: which position each row of each layer's cache holds at every  *)
(* moment, including in the middle of a step, when some layers are one     *)
(* step ahead of the others.  It rests on what the position arithmetic of  *)
(* KvRing gives: which position each row holds after any number of tokens, *)
(* how far the keys of the sinks have been turned, and that the rows a     *)
(* query reads are the window of streaming attention.                      *)
(***************************************************************************)
EXTENDS Generate, Lemmas_proof

-----------------------------------------------------------------------------
(***************************************************************************)
(* The rows.                                                               *)
(***************************************************************************)

(* There are fewer sinks than rows, so the ring is never empty. *)
LEMMA RowCounts ==
    /\ MaxSeqLen \in Nat \ {0}
    /\ SinkRows \in 0 .. MaxSeqLen - 1
    /\ RingRows \in 1 .. MaxSeqLen
    /\ SinkRows + RingRows = MaxSeqLen
BY MaxSeqLenAssumption, AttentionSinksAssumption DEF SinkRows, RingRows

(* num_sink, kv_pos and kv_len of a position, before and after the cache is full. *)
LEMMA RowsOfPosition ==
    ASSUME NEW p \in Nat
    PROVE  /\ NumSink(p) = IF p >= MaxSeqLen THEN SinkRows ELSE 0
           /\ p < MaxSeqLen => KvPos(p) = p
           /\ p >= MaxSeqLen => KvPos(p) \in SinkRows .. MaxSeqLen - 1
           /\ KvPos(p) \in Slots
           /\ KvLen(p) \in 1 .. MaxSeqLen
           /\ p < MaxSeqLen => KvLen(p) = p + 1
           /\ p >= MaxSeqLen => KvLen(p) = MaxSeqLen
<1>1. CASE p < MaxSeqLen
    BY <1>1, RowCounts DEF NumSink, KvPos, KvLen, Slots
<1>2. CASE p >= MaxSeqLen
    <2>1. KvPos(p) = SinkRows + ((p - SinkRows) % (MaxSeqLen - SinkRows))
        BY <1>2, RowCounts DEF KvPos, NumSink
    <2>2. KvPos(p) \in SinkRows .. MaxSeqLen - 1  BY <1>2, <2>1, RowCounts, RingRow
    <2> QED BY <1>2, <2>2, RowCounts DEF NumSink, KvLen, Slots
<1> QED BY <1>1, <1>2, RowCounts

(* Once the cache is full, the row to write next goes round the ring. *)
LEMMA NextRow ==
    ASSUME NEW p \in Nat, p >= MaxSeqLen
    PROVE  KvPos(p + 1) = IF KvPos(p) = MaxSeqLen - 1 THEN SinkRows ELSE KvPos(p) + 1
<1> DEFINE a == p - SinkRows
<1>1. a \in Nat /\ RingRows \in Nat \ {0} /\ a + 1 = (p + 1) - SinkRows  BY RowCounts
<1>2. KvPos(p) = SinkRows + (a % RingRows) /\ KvPos(p + 1) = SinkRows + ((a + 1) % RingRows)
    BY <1>1, RowCounts DEF KvPos, NumSink, RingRows
<1>3. (a % RingRows) \in 0 .. RingRows - 1  BY <1>1, Division
<1>4. (a + 1) % RingRows = IF a % RingRows = RingRows - 1 THEN 0 ELSE (a % RingRows) + 1
    BY <1>1, RemainderOfSuccessor
<1> HIDE DEF a
<1> QED BY <1>2, <1>3, <1>4, RowCounts

(* The first row written once the cache is full is the one after the sinks. *)
LEMMA FirstRingRow == KvPos(MaxSeqLen) = SinkRows
<1>1. RingRows % RingRows = 0
    <2>1. RingRows = RingRows * 1 + 0 /\ 0 \in 0 .. RingRows - 1  BY RowCounts
    <2>2. RingRows = (RingRows * (RingRows \div RingRows)) + (RingRows % RingRows)
          /\ RingRows \div RingRows \in Int /\ RingRows % RingRows \in 0 .. RingRows - 1
        BY RowCounts, Division
    <2> QED BY <2>1, <2>2, RowCounts, RemainderUnique
<1> QED BY <1>1, RowCounts DEF KvPos, NumSink, RingRows
-----------------------------------------------------------------------------
(***************************************************************************)
(* The contents.  After p positions, row x holds position RowPos(x, p) and *)
(* its key has been turned by RowRotations(x, p) further positions.        *)
(***************************************************************************)
RowPos(x, p) ==
    IF p < MaxSeqLen \/ x < SinkRows THEN x
    ELSE IF x < KvPos(p) THEN (p - KvPos(p)) + x
    ELSE (p - KvPos(p)) + x - RingRows

RowRotations(x, p) == IF p >= MaxSeqLen /\ x < SinkRows THEN p - MaxSeqLen ELSE 0

(* One more token changes one row, and turns the sinks once more. *)
LEMMA RowsAfterToken ==
    ASSUME NEW p \in Nat, NEW x \in Slots, x < p + 1
    PROVE  /\ RowPos(x, p + 1) = IF x = KvPos(p) THEN p ELSE RowPos(x, p)
           /\ RowRotations(x, p + 1) =
                IF x < NumSink(p) THEN RowRotations(x, p) + 1 ELSE 0
           /\ x < NumSink(p) => x # KvPos(p)
           /\ x >= NumSink(p) => RowRotations(x, p) = 0
           /\ x # KvPos(p) => x < p
<1>0. x \in Nat /\ x < MaxSeqLen  BY RowCounts DEF Slots
<1>1. CASE p + 1 < MaxSeqLen
    BY <1>0, <1>1, RowCounts, RowsOfPosition DEF RowPos, RowRotations
<1>2. CASE p + 1 = MaxSeqLen
    <2>1. KvPos(p + 1) = SinkRows  BY <1>2, FirstRingRow
    <2>2. KvPos(p) = p /\ NumSink(p) = 0  BY <1>2, RowCounts, RowsOfPosition
    <2> QED BY <1>0, <1>2, <2>1, <2>2, RowCounts DEF RowPos, RowRotations
<1>3. CASE p >= MaxSeqLen
    <2>1. NumSink(p) = SinkRows /\ KvPos(p) \in SinkRows .. MaxSeqLen - 1
        BY <1>3, RowsOfPosition, RowCounts
    <2>2. KvPos(p + 1) = IF KvPos(p) = MaxSeqLen - 1 THEN SinkRows ELSE KvPos(p) + 1
        BY <1>3, NextRow
    <2> QED BY <1>0, <1>3, <2>1, <2>2, RowCounts DEF RowPos, RowRotations
<1> QED BY <1>1, <1>2, <1>3, RowCounts

(***************************************************************************)
(* The rows of a full cache, seen from the position just written: the      *)
(* sinks at the distances below MaxSeqLen in order, and in the ring each   *)
(* of the most recent RingRows positions exactly once.                     *)
(***************************************************************************)
LEMMA RowsOfFullCache ==
    ASSUME NEW q \in Nat, q >= MaxSeqLen
    PROVE  /\ \A x \in 0 .. SinkRows - 1 :
                 /\ RowPos(x, q + 1) = x
                 /\ q - (RowPos(x, q + 1) + RowRotations(x, q + 1)) = MaxSeqLen - 1 - x
           /\ \A x \in SinkRows .. MaxSeqLen - 1 :
                 /\ RowPos(x, q + 1) \in q - RingRows + 1 .. q
                 /\ RowRotations(x, q + 1) = 0
           /\ \A y \in q - RingRows + 1 .. q :
                 \E x \in SinkRows .. MaxSeqLen - 1 : RowPos(x, q + 1) = y
<1>1. KvPos(q + 1) \in SinkRows .. MaxSeqLen - 1  BY RowCounts, RowsOfPosition
<1> DEFINE h == KvPos(q + 1)
<1>2. \A x \in SinkRows .. MaxSeqLen - 1 :
        RowPos(x, q + 1) = IF x < h THEN (q + 1 - h) + x ELSE (q + 1 - h) + x - RingRows
    BY <1>1, RowCounts DEF RowPos
<1> HIDE DEF h
<1>3. h \in SinkRows .. MaxSeqLen - 1  BY <1>1 DEF h
<1>4. ASSUME NEW y \in q - RingRows + 1 .. q
      PROVE  \E x \in SinkRows .. MaxSeqLen - 1 : RowPos(x, q + 1) = y
    <2>1. CASE y - (q + 1 - h) >= SinkRows
        <3> DEFINE x == y - (q + 1 - h)
        <3>1. x \in SinkRows .. MaxSeqLen - 1 /\ x < h  BY <1>3, <2>1, RowCounts
        <3>2. RowPos(x, q + 1) = y  BY <1>2, <1>3, <3>1, RowCounts
        <3> QED BY <3>1, <3>2
    <2>2. CASE y - (q + 1 - h) < SinkRows
        <3> DEFINE x == y - (q + 1 - h) + RingRows
        <3>1. x \in SinkRows .. MaxSeqLen - 1 /\ x >= h  BY <1>3, <2>2, RowCounts
        <3>2. RowPos(x, q + 1) = y  BY <1>2, <1>3, <3>1, RowCounts
        <3> QED BY <3>1, <3>2
    <2> QED BY <1>3, <2>1, <2>2, RowCounts
<1>5. \A x \in 0 .. SinkRows - 1 :
         RowPos(x, q + 1) = x /\ RowRotations(x, q + 1) = q + 1 - MaxSeqLen
    BY RowCounts DEF RowPos, RowRotations
<1>6. \A x \in SinkRows .. MaxSeqLen - 1 :
         RowPos(x, q + 1) \in q - RingRows + 1 .. q /\ RowRotations(x, q + 1) = 0
    BY <1>2, <1>3, RowCounts DEF RowRotations
<1> QED BY <1>4, <1>5, <1>6, RowCounts
-----------------------------------------------------------------------------
(* What the rows of a layer hold, after the positions it has processed. *)
CacheInv ==
    \A l \in LayerIds, x \in Slots : x < Length(l) =>
        cache[l][x] = Entry(call, RowPos(x, Length(l)), RowRotations(x, Length(l)))

(* Where the loops of Generate stand. *)
Control ==
    /\ pc # "idle" => request.prompt \in 1 .. MaxSeqLen
    /\ pc = "prefill" => \A l \in LayerIds : Length(l) = Lesser(i, request.prompt)
    /\ pc = "prefillBlock" =>
           /\ layer \in LayerIds
           /\ i < request.prompt /\ start = i /\ rows = ChunkRows
    /\ pc \in {"sample", "callback"} => \A l \in LayerIds : Length(l) = pos
    /\ pc = "forwardBlock" => layer \in LayerIds /\ rows = 1 /\ pos = start + 1

(* The inductive invariant. *)
IInv == TypeOK /\ Control /\ CacheInv /\ AttendsWindow
-----------------------------------------------------------------------------
(* The arguments of a request. *)
LEMMA RequestType ==
    ASSUME NEW r \in Requests \cup {NoRequest}
    PROVE  r.prompt \in Nat /\ (r \in Requests => r.max \in Nat)
<1>1. CASE r = NoRequest
    BY <1>1, RequestsAssumption DEF NoRequest, Requests
<1>2. CASE r \in Requests
    BY <1>2, RequestsAssumption DEF Requests
<1> QED BY <1>1, <1>2

(***************************************************************************)
(* A chunk is not empty, fits the activation buffers and ends within the   *)
(* prompt, and the loop's cursor moves to its end or past the prompt.      *)
(***************************************************************************)
LEMMA ChunkFits ==
    ASSUME TypeOK, request.prompt \in 1 .. MaxSeqLen, i < request.prompt
    PROVE  /\ ChunkRows \in 1 .. BatchCapacity
           /\ i + ChunkRows <= request.prompt
           /\ BatchSize \in Nat
           /\ Lesser(i + BatchSize, request.prompt) = i + ChunkRows
BY RowCounts, PrefillBatchSizeAssumption, SMTT(40)
   DEF TypeOK, ChunkRows, BatchSize, BatchCapacity, Lesser

(* The buffers of a State hold at least one row. *)
LEMMA CapacityType == BatchCapacity \in Nat \ {0}
BY RowCounts, PrefillBatchSizeAssumption DEF BatchCapacity, Lesser

(* So no check of a block ever refuses one. *)
LEMMA BlockAccepts ==
    ASSUME TypeOK, Control, pc = "prefillBlock"
    PROVE  /\ BlockError = "none"
           /\ rows \in Nat \ {0} /\ start + rows <= MaxSeqLen
<1>1. /\ request.prompt \in 1 .. MaxSeqLen /\ i < request.prompt
      /\ start = i /\ rows = ChunkRows
    BY DEF Control
<1>2. /\ rows \in 1 .. BatchCapacity /\ start + rows <= request.prompt /\ start \in Nat
    BY <1>1, ChunkFits DEF TypeOK
<1>3. BatchCapacity \in Nat
    BY CapacityType
<1> QED BY <1>1, <1>2, <1>3, RowCounts DEF BlockError

(* Until the cache is full, row x holds position x. *)
LEMMA RowsUntilFull ==
    ASSUME NEW p \in Nat, p <= MaxSeqLen, NEW x \in Slots
    PROVE  RowPos(x, p) = x /\ RowRotations(x, p) = 0
<1>1. x \in Nat /\ x < MaxSeqLen  BY RowCounts DEF Slots
<1>2. CASE p < MaxSeqLen
    BY <1>2, RowCounts DEF RowPos, RowRotations
<1>3. CASE p = MaxSeqLen
    BY <1>1, <1>3, FirstRingRow, RowCounts DEF RowPos, RowRotations
<1> QED BY <1>2, <1>3, RowCounts

(***************************************************************************)
(* Attention over rows with the contents RowPos and RowRotations describe  *)
(* sees the window of streaming attention.                                 *)
(***************************************************************************)
LEMMA AttendRows ==
    ASSUME NEW kv, NEW c, NEW q \in Nat,
           \A x \in 0 .. KvLen(q) - 1 :
               kv[x] = Entry(c, RowPos(x, q + 1), RowRotations(x, q + 1))
    PROVE  Attend(kv, q, KvLen(q)) = Promise!Window(c, q)
<1> DEFINE Seen(x) == Promise!Sight(c, q, RowPos(x, q + 1),
                                    q - (RowPos(x, q + 1) + RowRotations(x, q + 1)))
<1>1. Attend(kv, q, KvLen(q)) = {Seen(x) : x \in 0 .. KvLen(q) - 1}
    <2>1. \A x \in 0 .. KvLen(q) - 1 :
            /\ kv[x].call = c /\ kv[x].pos = RowPos(x, q + 1)
            /\ kv[x].rotations = RowRotations(x, q + 1)
        <3> TAKE x \in 0 .. KvLen(q) - 1
        <3>1. kv[x] = Entry(c, RowPos(x, q + 1), RowRotations(x, q + 1))  OBVIOUS
        <3> QED BY <3>1 DEF Entry
    <2>2. \A x \in 0 .. KvLen(q) - 1 :
            Seen(x) = [call |-> kv[x].call, query |-> q, pos |-> kv[x].pos,
                       distance |-> q - (kv[x].pos + kv[x].rotations)]
        BY <2>1 DEF Promise!Sight
    <2> HIDE DEF Seen
    <2> QED BY <2>2 DEF Attend
<1>2. CASE q < MaxSeqLen
    <2>1. KvLen(q) = q + 1  BY <1>2, RowsOfPosition
    <2>2. \A x \in 0 .. q : x \in Slots  BY <1>2, RowCounts DEF Slots
    <2>3. \A x \in 0 .. q : RowPos(x, q + 1) = x /\ RowRotations(x, q + 1) = 0
        BY <1>2, <2>2, RowsUntilFull, RowCounts
    <2>4. \A x \in 0 .. q : Seen(x) = Promise!Sight(c, q, x, q - x)  BY <2>3
    <2>5. 0 .. KvLen(q) - 1 = 0 .. q  BY <2>1
    <2> HIDE DEF Seen
    <2>6. {Seen(x) : x \in 0 .. q} = {Promise!Sight(c, q, x, q - x) : x \in 0 .. q}
        BY <2>4
    <2> QED BY <1>1, <1>2, <2>5, <2>6 DEF Promise!Window
<1>3. CASE q >= MaxSeqLen
    <2> DEFINE Ring == SinkRows .. MaxSeqLen - 1
               Recent == q - (MaxSeqLen - SinkRows) + 1 .. q
               Sink == 0 .. SinkRows - 1
    <2>1. KvLen(q) = MaxSeqLen /\ 0 .. MaxSeqLen - 1 = Ring \cup Sink
        BY <1>3, RowsOfPosition, RowCounts
    <2>2. \A x \in Sink : Seen(x) = Promise!Sight(c, q, x, MaxSeqLen - 1 - x)
        BY <1>3, RowsOfFullCache
    <2>3. \A x \in Ring : /\ RowPos(x, q + 1) \in Recent
                          /\ Seen(x) = Promise!Sight(c, q, RowPos(x, q + 1), q - RowPos(x, q + 1))
        BY <1>3, RowsOfFullCache, RowCounts DEF RingRows
    <2>4. \A y \in Recent : \E x \in Ring : RowPos(x, q + 1) = y
        BY <1>3, RowsOfFullCache, RowCounts DEF RingRows
    <2> HIDE DEF Seen, Ring, Recent, Sink
    <2>5. {Seen(x) : x \in Sink} = {Promise!Sight(c, q, p, MaxSeqLen - 1 - p) : p \in Sink}
        BY <2>2
    <2>6. {Seen(x) : x \in Ring} = {Promise!Sight(c, q, p, q - p) : p \in Recent}
        BY <2>3, <2>4
    <2>7. {Seen(x) : x \in Ring \cup Sink} = {Seen(x) : x \in Ring} \cup {Seen(x) : x \in Sink}
        OBVIOUS
    <2>8. Promise!Window(c, q) = {Promise!Sight(c, q, p, q - p) : p \in Recent}
                          \cup {Promise!Sight(c, q, p, MaxSeqLen - 1 - p) : p \in Sink}
        BY <1>3, RowCounts DEF Promise!Window, Recent, Sink
    <2> QED BY <1>1, <2>1, <2>5, <2>6, <2>7, <2>8
<1> QED BY <1>2, <1>3, RowCounts
-----------------------------------------------------------------------------
(***************************************************************************)
(* The two actions that write a cache.                                     *)
(***************************************************************************)

(* A step that leaves the caches and the step in progress alone. *)
LEMMA CacheFrame ==
    ASSUME CacheInv, AttendsWindow, UNCHANGED <<call, stepVars, cache, reads>>
    PROVE  /\ CacheInv' /\ AttendsWindow'
           /\ \A l \in LayerIds : Length(l)' = Length(l)
BY DEF CacheInv, AttendsWindow, stepVars, Length, Promise!Window, Promise!Sight

(* One block of a prefill chunk. *)
LEMMA PrefillBlockInv ==
    ASSUME IInv, PrefillBlock
    PROVE  CacheInv' /\ AttendsWindow'
<1> DEFINE kv == StoreChunk(cache[layer])
<1>1. /\ layer \in LayerIds /\ Layers \in Nat
      /\ BlockError = "none" /\ rows \in Nat \ {0} /\ start \in Nat
      /\ start + rows <= MaxSeqLen /\ MaxSeqLen \in Nat
    BY BlockAccepts, LayersAssumption, RowCounts DEF IInv, Control, TypeOK, PrefillBlock
<1>2. /\ cache' = [cache EXCEPT ![layer] = kv]
      /\ layer' = layer + 1
      /\ UNCHANGED <<call, start, rows>>
    BY <1>1 DEF PrefillBlock, requestVars
<1>3. cache'[layer] = kv /\ \A l \in LayerIds \ {layer} : cache'[l] = cache[l]
    BY <1>1, <1>2 DEF IInv, TypeOK
<1>4. reads' = [reads EXCEPT ![layer] = AttendChunk(kv)]
    BY <1>1, <1>3 DEF PrefillBlock
<1>5. \A l \in LayerIds : Length(l)' = IF l = layer THEN start + rows ELSE Length(l)
    BY <1>1, <1>2 DEF Length, LayerIds
<1>6. Length(layer) = start
    BY <1>1 DEF Length, LayerIds
<1>7. \A x \in Slots : x < start + rows => kv[x] = Entry(call, x, 0)
    <2> TAKE x \in Slots
    <2> HAVE x < start + rows
    <2>1. CASE x < start
        <3>1. cache[layer][x] = Entry(call, RowPos(x, start), RowRotations(x, start))
            BY <1>1, <1>6, <2>1 DEF IInv, CacheInv
        <3>2. cache[layer][x] = Entry(call, x, 0)
            BY <1>1, <3>1, RowsUntilFull
        <3>3. x \notin start .. start + rows - 1
            BY <1>1, <2>1
        <3> QED BY <3>2, <3>3 DEF StoreChunk
    <2>2. CASE x >= start
        BY <1>1, <2>2 DEF StoreChunk, Slots
    <2> QED BY <1>1, <2>1, <2>2 DEF Slots
<1> HIDE DEF kv
<1>8. CacheInv'
    <2> SUFFICES ASSUME NEW l \in LayerIds, NEW x \in Slots, x < Length(l)'
                 PROVE  cache'[l][x] = Entry(call, RowPos(x, Length(l)'), RowRotations(x, Length(l)'))
        BY <1>2 DEF CacheInv
    <2>1. CASE l = layer
        <3>1. Length(l)' = start + rows  BY <1>5, <2>1
        <3>2. RowPos(x, start + rows) = x /\ RowRotations(x, start + rows) = 0
            BY <1>1, RowsUntilFull
        <3> QED BY <1>3, <1>7, <2>1, <3>1, <3>2
    <2>2. CASE l # layer
        BY <1>3, <1>5, <2>2 DEF IInv, CacheInv
    <2> QED BY <2>1, <2>2
<1>9. AttendChunk(kv) = UNION {Promise!Window(call, q) : q \in start .. start + rows - 1}
    <2>1. ASSUME NEW t \in 0 .. rows - 1
          PROVE  Attend(kv, start + t, start + t + 1) = Promise!Window(call, start + t)
        <3> DEFINE q == start + t
        <3>1. q \in Nat /\ q < MaxSeqLen /\ q < start + rows /\ KvLen(q) = q + 1
            BY <1>1, RowsOfPosition
        <3> HIDE DEF q
        <3>2. ASSUME NEW x \in 0 .. KvLen(q) - 1
              PROVE  kv[x] = Entry(call, RowPos(x, q + 1), RowRotations(x, q + 1))
            <4>1. x \in Slots /\ x < start + rows  BY <1>1, <3>1 DEF Slots
            <4>2. RowPos(x, q + 1) = x /\ RowRotations(x, q + 1) = 0
                BY <1>1, <3>1, <4>1, RowsUntilFull
            <4> QED BY <1>7, <4>1, <4>2
        <3>3. Attend(kv, q, KvLen(q)) = Promise!Window(call, q)
            BY <3>1, <3>2, AttendRows
        <3> QED BY <3>1, <3>3 DEF q
    <2>2. \A q \in start .. start + rows - 1 :
             q - start \in 0 .. rows - 1 /\ start + (q - start) = q
        BY <1>1
    <2>3. {Attend(kv, start + t, start + t + 1) : t \in 0 .. rows - 1}
            = {Promise!Window(call, start + t) : t \in 0 .. rows - 1}
        BY <2>1
    <2>4. \A t \in 0 .. rows - 1 : start + t \in start .. start + rows - 1
        BY <1>1
    <2>5. {Promise!Window(call, start + t) : t \in 0 .. rows - 1}
            = {Promise!Window(call, q) : q \in start .. start + rows - 1}
        BY <2>2, <2>4
    <2> QED BY <2>3, <2>5 DEF AttendChunk
<1>10. AttendsWindow'
    <2> SUFFICES ASSUME NEW l \in LayerIds, l < layer'
                 PROVE  reads'[l] = UNION {Promise!Window(call, q) : q \in start .. start + rows - 1}
        BY <1>2 DEF AttendsWindow, Promise!Window, Promise!Sight
    <2>1. CASE l = layer
        BY <1>1, <1>4, <1>9, <2>1 DEF IInv, TypeOK
    <2>2. CASE l # layer
        <3>1. l < layer /\ reads'[l] = reads[l]
            BY <1>1, <1>2, <1>4, <2>2 DEF IInv, TypeOK, LayerIds
        <3> QED BY <3>1 DEF IInv, AttendsWindow
    <2> QED BY <2>1, <2>2
<1> QED BY <1>8, <1>10

(* One block of a token's forward pass. *)
LEMMA ForwardBlockInv ==
    ASSUME IInv, ForwardBlock
    PROVE  CacheInv' /\ AttendsWindow'
<1> DEFINE old == cache[layer]
           kv == RotateSinks(StoreToken(old))
<1>1. /\ layer \in LayerIds /\ Layers \in Nat /\ rows = 1 /\ start \in Nat
      /\ MaxSeqLen \in Nat
    BY LayersAssumption, RowCounts DEF IInv, Control, TypeOK, ForwardBlock
<1>2. /\ cache' = [cache EXCEPT ![layer] = kv]
      /\ layer' = layer + 1
      /\ UNCHANGED <<call, start, rows>>
    BY <1>1 DEF ForwardBlock, requestVars
<1>3. cache'[layer] = kv /\ \A l \in LayerIds \ {layer} : cache'[l] = cache[l]
    BY <1>1, <1>2 DEF IInv, TypeOK
<1>4. reads' = [reads EXCEPT ![layer] = Attend(kv, start, KvLen(start))]
    BY <1>1, <1>3 DEF ForwardBlock
<1>5. \A l \in LayerIds : Length(l)' = IF l = layer THEN start + 1 ELSE Length(l)
    BY <1>1, <1>2 DEF Length, LayerIds
<1>6. Length(layer) = start
    BY <1>1 DEF Length, LayerIds
<1>7. ASSUME NEW x \in Slots, x < start + 1
      PROVE  kv[x] = Entry(call, RowPos(x, start + 1), RowRotations(x, start + 1))
    <2>0. KvPos(start) \in Slots /\ DOMAIN old = Slots
        BY <1>1, RowsOfPosition DEF IInv, TypeOK
    <2>1. /\ RowPos(x, start + 1) = IF x = KvPos(start) THEN start ELSE RowPos(x, start)
          /\ RowRotations(x, start + 1) =
               IF x < NumSink(start) THEN RowRotations(x, start) + 1 ELSE 0
          /\ x < NumSink(start) => x # KvPos(start)
          /\ x >= NumSink(start) => RowRotations(x, start) = 0
          /\ x # KvPos(start) => x < start
        BY <1>1, <1>7, RowsAfterToken
    <2>2. StoreToken(old)[x] = IF x = KvPos(start) THEN Entry(call, start, 0) ELSE old[x]
        BY <2>0 DEF StoreToken
    <2>3. x # KvPos(start) => old[x] = Entry(call, RowPos(x, start), RowRotations(x, start))
        BY <1>1, <1>6, <2>1 DEF IInv, CacheInv
    <2>4. kv[x] = IF x < NumSink(start)
                  THEN [StoreToken(old)[x] EXCEPT !.rotations = @ + 1]
                  ELSE StoreToken(old)[x]
        BY DEF RotateSinks
    <2> HIDE DEF kv, old
    <2>5. CASE x < NumSink(start)
        <3>1. kv[x] = [Entry(call, RowPos(x, start), RowRotations(x, start))
                         EXCEPT !.rotations = @ + 1]
            BY <2>1, <2>2, <2>3, <2>4, <2>5
        <3> QED BY <2>1, <2>5, <3>1 DEF Entry
    <2>6. CASE ~(x < NumSink(start))
        <3>1. NumSink(start) \in Int /\ x \in Int
            BY <1>1, RowCounts, RowsOfPosition DEF Slots
        <3> QED BY <2>1, <2>2, <2>3, <2>4, <2>6, <3>1
    <2> QED BY <2>5, <2>6
<1> HIDE DEF kv, old
<1>8. CacheInv'
    <2> SUFFICES ASSUME NEW l \in LayerIds, NEW x \in Slots, x < Length(l)'
                 PROVE  cache'[l][x] = Entry(call, RowPos(x, Length(l)'), RowRotations(x, Length(l)'))
        BY <1>2 DEF CacheInv
    <2>1. CASE l = layer
        BY <1>3, <1>5, <1>7, <2>1
    <2>2. CASE l # layer
        BY <1>3, <1>5, <2>2 DEF IInv, CacheInv
    <2> QED BY <2>1, <2>2
<1>9. Attend(kv, start, KvLen(start)) = Promise!Window(call, start)
    <2>1. \A x \in 0 .. KvLen(start) - 1 : x \in Slots /\ x < start + 1
        BY <1>1, RowsOfPosition, RowCounts DEF Slots
    <2> QED BY <1>1, <1>7, <2>1, AttendRows
<1>10. AttendsWindow'
    <2> SUFFICES ASSUME NEW l \in LayerIds, l < layer'
                 PROVE  reads'[l] = UNION {Promise!Window(call, q) : q \in start .. start + rows - 1}
        BY <1>2 DEF AttendsWindow, Promise!Window, Promise!Sight
    <2>1. CASE l = layer
        <3>1. start .. start + rows - 1 = {start}  BY <1>1
        <3>2. {Promise!Window(call, q) : q \in {start}} = {Promise!Window(call, start)}
            OBVIOUS
        <3>3. UNION {Promise!Window(call, start)} = Promise!Window(call, start)
            OBVIOUS
        <3> QED BY <1>1, <1>4, <1>9, <2>1, <3>1, <3>2, <3>3 DEF IInv, TypeOK
    <2>2. CASE l # layer
        <3>1. l < layer /\ reads'[l] = reads[l]
            BY <1>1, <1>2, <1>4, <2>2 DEF IInv, TypeOK, LayerIds
        <3> QED BY <3>1 DEF IInv, AttendsWindow
    <2> QED BY <2>1, <2>2
<1> QED BY <1>8, <1>10
-----------------------------------------------------------------------------
(***************************************************************************)
(* The inductive invariant.                                                *)
(***************************************************************************)

(* It holds before the first request. *)
LEMMA InitInv == Init => IInv
<1> SUFFICES ASSUME Init PROVE IInv
    OBVIOUS
<1> USE DEF Init
<1>1. TypeOK
    <2>1. cache \in [LayerIds -> [Slots -> [call : Nat, pos : Nat, rotations : Nat]]]
        BY DEF Blank, Entry
    <2> QED BY <2>1, RequestsAssumption, LayersAssumption, CapacityType DEF TypeOK
<1>2. Control
    BY DEF Control
<1>3. \A l \in LayerIds : Length(l) = 0 /\ ~(l < layer)
    BY LayersAssumption DEF Length, LayerIds
<1>4. CacheInv
    BY <1>3 DEF CacheInv, Slots
<1>5. AttendsWindow
    BY <1>3 DEF AttendsWindow
<1> QED BY <1>1, <1>2, <1>4, <1>5 DEF IInv

(* The entry of Generate forgets the step in progress, not the caches. *)
LEMMA CallInv ==
    ASSUME IInv, NEW r \in Requests, Call(r)
    PROVE  IInv'
<1> USE DEF Call
<1>1. TypeOK'
    <2>1. call' \in 0 .. MaxCalls
        BY RequestsAssumption DEF IInv, TypeOK
    <2>2. PromptError(r) \in {"none", "invalid_argument", "out_of_range"}
        BY DEF PromptError
    <2> QED BY <2>1, <2>2, LayersAssumption, CapacityType DEF IInv, TypeOK
<1>2. \A l \in LayerIds : Length(l)' = 0 /\ ~(l < layer')
    BY LayersAssumption DEF Length, LayerIds
<1>3. CacheInv' /\ AttendsWindow'
    BY <1>2 DEF CacheInv, AttendsWindow, Slots
<1>4. Control'
    <2>1. r.prompt \in Nat  BY RequestType
    <2>2. pc' \in {"idle", "prefill"} /\ (pc' = "prefill" => r.prompt \in 1 .. MaxSeqLen)
        BY <2>1, RowCounts DEF PromptError
    <2>3. Lesser(0, r.prompt) = 0  BY <2>1 DEF Lesser
    <2> QED BY <1>2, <2>2, <2>3 DEF Control
<1> QED BY <1>1, <1>3, <1>4 DEF IInv

(* A request that ends leaves the caches as they are. *)
LEMMA FinishInv ==
    ASSUME IInv, TypeOK', UNCHANGED <<call, stepVars, cache, reads>>, pc' = "idle"
    PROVE  IInv'
BY CacheFrame DEF IInv, Control

THEOREM Inductive == IInv /\ [Next]_vars => IInv'
<1> SUFFICES ASSUME IInv, [Next]_vars PROVE IInv'
    OBVIOUS
<1>0. TypeOK /\ Control /\ CacheInv /\ AttendsWindow /\ Layers \in Nat \ {0}
    BY LayersAssumption DEF IInv
<1>1. ASSUME NEW r \in Requests, Call(r) PROVE IInv'
    BY <1>1, CallInv
<1>2. CASE PrefillChunk
    <2> USE <1>2 DEF PrefillChunk, requestVars, resultVars
    <2>1. request.prompt \in 1 .. MaxSeqLen /\ i \in Nat /\ \A l \in LayerIds : Length(l) = i
        BY <1>0 DEF Control, TypeOK, Lesser
    <2>2. ChunkRows \in 0 .. BatchCapacity /\ ChunkRows' = ChunkRows
        BY <1>0, <2>1, ChunkFits, CapacityType DEF ChunkRows, BatchSize
    <2>3. TypeOK'  BY <1>0, <2>2 DEF TypeOK
    <2>4. Control'  BY <1>0, <2>1, <2>2 DEF Control, LayerIds
    <2>5. \A l \in LayerIds : Length(l)' = i /\ ~(l < layer')
        BY <1>0, <2>1 DEF Length, LayerIds
    <2>6. CacheInv'  BY <1>0, <2>1, <2>5 DEF CacheInv
    <2>7. AttendsWindow'  BY <2>5 DEF AttendsWindow
    <2> QED BY <2>3, <2>4, <2>6, <2>7 DEF IInv
<1>3. CASE PrefillRefused
    <2> USE <1>3 DEF PrefillRefused, requestVars, resultVars, Finish
    <2>1. ChunkError \in {"none", "out_of_range"}  BY DEF ChunkError
    <2>2. TypeOK'  BY <1>0, <2>1 DEF TypeOK, stepVars
    <2> QED BY <2>2, FinishInv
<1>4. CASE PrefillBlock
    <2> USE <1>4 DEF PrefillBlock, NextChunk, requestVars, resultVars
    <2>1. CacheInv' /\ AttendsWindow'  BY PrefillBlockInv
    <2>2. /\ BlockError = "none" /\ rows \in Nat \ {0} /\ start \in Nat /\ layer \in 1 .. Layers
          /\ start + rows <= MaxSeqLen
        BY <1>0, BlockAccepts DEF Control, TypeOK, LayerIds
    <2>3. request.prompt \in 1 .. MaxSeqLen /\ i < request.prompt /\ start = i /\ rows = ChunkRows
        BY <1>0 DEF Control
    <2>4. BatchSize \in Nat /\ Lesser(i + BatchSize, request.prompt) = start + rows
        BY <1>0, <2>3, ChunkFits
    <2>5. TypeOK'
        <3>1. cache' \in [LayerIds -> [Slots -> [call : Nat, pos : Nat, rotations : Nat]]]
            <4>1. cache[layer] \in [Slots -> [call : Nat, pos : Nat, rotations : Nat]]
                BY <1>0, <2>2 DEF TypeOK, LayerIds
            <4>2. \A x \in Slots : Entry(call, x, 0) \in [call : Nat, pos : Nat, rotations : Nat]
                BY <1>0, RequestsAssumption DEF TypeOK, Entry, Slots
            <4>3. StoreChunk(cache[layer]) \in [Slots -> [call : Nat, pos : Nat, rotations : Nat]]
                BY <4>1, <4>2 DEF StoreChunk
            <4> QED BY <1>0, <2>2, <4>3 DEF TypeOK
        <3>2. /\ logits' \in [call : Nat, pos : Int, token : Vocabulary \cup {NoToken}]
              /\ i' \in Nat
            BY <1>0, <2>2, <2>4, RequestsAssumption DEF TypeOK
        <3>3. /\ pc' \in {"prefill", "prefillBlock"} /\ outcome' = outcome
              /\ layer' \in 1 .. Layers + 1 /\ DOMAIN reads' = LayerIds
            BY <1>0, <2>2 DEF TypeOK
        <3> QED BY <1>0, <3>1, <3>2, <3>3 DEF TypeOK
    <2>6. Control'
        <3>1. CASE layer = Layers
            <4>1. /\ pc' = "prefill" /\ i' = i + BatchSize /\ layer' = Layers + 1
                  /\ request' = request /\ start' = start /\ rows' = rows
                BY <2>2, <3>1
            <4>2. \A l \in LayerIds : Length(l)' = start + rows
                BY <1>0, <4>1 DEF Length, LayerIds
            <4> QED BY <2>3, <2>4, <4>1, <4>2 DEF Control
        <3>2. CASE layer # Layers
            <4>1. /\ pc' = "prefillBlock" /\ i' = i /\ layer' = layer + 1
                  /\ request' = request /\ start' = start /\ rows' = rows
                BY <2>2, <3>2
            <4> QED BY <1>0, <2>2, <2>3, <3>2, <4>1
                    DEF Control, LayerIds, ChunkRows, BatchSize
        <3> QED BY <3>1, <3>2
    <2> QED BY <2>1, <2>5, <2>6 DEF IInv
<1>5. CASE StartDecode
    <2> USE <1>5 DEF StartDecode, PrefillDone, requestVars, resultVars
    <2>1. request.prompt \in 1 .. MaxSeqLen /\ \A l \in LayerIds : Length(l) = request.prompt
        BY <1>0, RowCounts DEF Control, TypeOK, Lesser
    <2>2. TypeOK'  BY <1>0, <2>1, RowCounts DEF TypeOK, stepVars
    <2>3. CacheInv' /\ AttendsWindow' /\ \A l \in LayerIds : Length(l)' = Length(l)
        BY <1>0, CacheFrame
    <2>4. Control'  BY <2>1, <2>3 DEF Control
    <2> QED BY <2>2, <2>3, <2>4 DEF IInv
<1>6. CASE TemperatureRefused
    BY <1>0, <1>6, FinishInv
       DEF TemperatureRefused, TypeOK, requestVars, resultVars, stepVars, Finish
<1>7. CASE NothingWanted
    BY <1>0, <1>7, FinishInv
       DEF NothingWanted, TypeOK, requestVars, resultVars, stepVars, Finish
<1>8. CASE LogitsRefused
    BY <1>0, <1>8, FinishInv
       DEF LogitsRefused, TypeOK, requestVars, resultVars, stepVars, Finish
<1>9. ASSUME NEW t \in Vocabulary, SampleToken(t) PROVE IInv'
    <2> USE <1>9 DEF SampleToken, requestVars, resultVars
    <2>1. TypeOK'
        <3>1. Append(tokens, t) \in Seq(Vocabulary)  BY <1>0 DEF TypeOK
        <3> QED BY <1>0, <3>1 DEF TypeOK, stepVars
    <2>2. CacheInv' /\ AttendsWindow' /\ \A l \in LayerIds : Length(l)' = Length(l)
        BY <1>0, CacheFrame
    <2>3. Control'  BY <1>0, <2>2 DEF Control
    <2> QED BY <2>1, <2>2, <2>3 DEF IInv
<1>10. ASSUME NEW t \in Vocabulary, SampleEos(t) PROVE IInv'
    BY <1>0, <1>10, FinishInv
       DEF SampleEos, TypeOK, requestVars, resultVars, stepVars, Finish
<1>11. ASSUME CallbackThrows \/ StopAtLimit PROVE IInv'
    <2>1. Append(streamed, token) \in Seq(Vocabulary \cup {NoToken})
        BY <1>0 DEF TypeOK
    <2>2. TypeOK'
        BY <1>0, <1>11, <2>1
           DEF CallbackThrows, StopAtLimit, Streamed, TypeOK, requestVars, stepVars, Finish
    <2> QED BY <1>11, <2>2, FinishInv
            DEF CallbackThrows, StopAtLimit, requestVars, Finish
<1>12. CASE StartForward
    <2> USE <1>12 DEF StartForward, requestVars
    <2>1. TypeOK'
        <3>1. Append(streamed, token) \in Seq(Vocabulary \cup {NoToken})
            BY <1>0 DEF TypeOK
        <3> QED BY <1>0, <3>1, CapacityType DEF TypeOK, Streamed
    <2>2. pos \in Nat /\ \A l \in LayerIds : Length(l) = pos
        BY <1>0 DEF Control, TypeOK
    <2>3. \A l \in LayerIds : Length(l)' = pos /\ ~(l < layer')
        BY <1>0, <2>2 DEF Length, LayerIds
    <2>4. Control'  BY <1>0 DEF Control, LayerIds
    <2>5. CacheInv'  BY <1>0, <2>2, <2>3 DEF CacheInv
    <2>6. AttendsWindow'  BY <2>3 DEF AttendsWindow
    <2> QED BY <2>1, <2>4, <2>5, <2>6 DEF IInv
<1>13. CASE ForwardBlock
    <2> USE <1>13 DEF ForwardBlock, requestVars, resultVars
    <2>1. CacheInv' /\ AttendsWindow'  BY ForwardBlockInv
    <2>2. layer \in 1 .. Layers /\ rows = 1 /\ pos = start + 1 /\ start \in Nat
        BY <1>0 DEF Control, TypeOK, LayerIds
    <2>3. TypeOK'
        <3> DEFINE Row == [call : Nat, pos : Nat, rotations : Nat]
                   kv == StoreToken(cache[layer])
        <3>1. cache[layer] \in [Slots -> Row] /\ Entry(call, start, 0) \in Row
            BY <1>0, <2>2, RequestsAssumption DEF TypeOK, LayerIds, Entry
        <3>2. kv \in [Slots -> Row]
            BY <3>1 DEF StoreToken
        <3>3. \A x \in Slots : [kv[x] EXCEPT !.rotations = @ + 1] \in Row
            <4> TAKE x \in Slots
            <4>1. kv[x] \in Row  BY <3>2
            <4> HIDE DEF kv
            <4> QED BY <4>1
        <3>4. RotateSinks(kv) \in [Slots -> Row]
            <4> HIDE DEF kv
            <4> QED BY <3>2, <3>3 DEF RotateSinks
        <3>5. cache' \in [LayerIds -> [Slots -> Row]]
            BY <1>0, <3>4 DEF TypeOK
        <3>6. /\ logits' \in [call : Nat, pos : Int, token : Vocabulary \cup {NoToken}]
              /\ pc' \in {"sample", "forwardBlock"} /\ DOMAIN reads' = LayerIds
              /\ layer' \in 1 .. Layers + 1
            BY <1>0, <2>2, RequestsAssumption DEF TypeOK
        <3> HIDE DEF Row
        <3> QED BY <1>0, <3>5, <3>6 DEF TypeOK, Row
    <2>4. Control'
        <3>1. CASE layer = Layers
            <4>1. \A l \in LayerIds : Length(l)' = pos
                BY <1>0, <2>2, <3>1 DEF Length, LayerIds
            <4> QED BY <1>0, <3>1, <4>1 DEF Control
        <3>2. CASE layer # Layers
            BY <1>0, <2>2, <3>2 DEF Control, LayerIds
        <3> QED BY <3>1, <3>2
    <2> QED BY <2>1, <2>3, <2>4 DEF IInv
<1>14. CASE UNCHANGED vars
    <2>1. TypeOK'  BY <1>0, <1>14 DEF TypeOK, vars
    <2>2. CacheInv' /\ AttendsWindow' /\ \A l \in LayerIds : Length(l)' = Length(l)
        BY <1>0, <1>14, CacheFrame DEF vars, stepVars
    <2>3. Control'
        BY <1>0, <1>14, <2>2 DEF Control, vars, ChunkRows, BatchSize
    <2> QED BY <2>1, <2>2, <2>3 DEF IInv
<1> QED BY <1>1, <1>2, <1>3, <1>4, <1>5, <1>6, <1>7, <1>8, <1>9, <1>10, <1>11, <1>12,
           <1>13, <1>14 DEF Next, Step

(* Every reachable state satisfies it. *)
THEOREM Invariance == Spec => []IInv
BY InitInv, Inductive, PTL DEF Spec
-----------------------------------------------------------------------------
(* Every variable keeps its type. *)
THEOREM TypeCorrect == Spec => []TypeOK
<1>1. IInv => TypeOK  BY DEF IInv
<1> QED BY <1>1, Invariance, PTL

(***************************************************************************)
(* Whatever an earlier request left in the caches, every query attends to  *)
(* exactly its window of the current request, each position of the window  *)
(* at its due distance.                                                    *)
(***************************************************************************)
THEOREM WindowCorrect == Spec => []AttendsWindow
<1>1. IInv => AttendsWindow  BY DEF IInv
<1> QED BY <1>1, Invariance, PTL

(***************************************************************************)
(* Generate's own checks of the prompt make the checks of Prefill and of   *)
(* the blocks redundant.                                                   *)
(***************************************************************************)
THEOREM PrefillAccepted == Spec => []PrefillNeverRefused
<1>1. IInv => PrefillNeverRefused
    <2> SUFFICES ASSUME IInv PROVE PrefillNeverRefused
        OBVIOUS
    <2>1. ASSUME pc = "prefill", i < request.prompt, request.foreign = 0
          PROVE  ChunkError = "none"
        <3>1. request.prompt \in 1 .. MaxSeqLen /\ i \in Nat
            BY <2>1 DEF IInv, Control, TypeOK
        <3>2. i + ChunkRows <= request.prompt /\ ChunkRows \in Nat
            BY <2>1, <3>1, CapacityType, ChunkFits DEF IInv
        <3>3. ~(i > MaxSeqLen \/ ChunkRows > MaxSeqLen - i)
            BY <3>1, <3>2, RowCounts
        <3>4. ~(request.foreign \in i + 1 .. i + ChunkRows)
            BY <2>1, <3>1, <3>2
        <3> QED BY <3>3, <3>4 DEF ChunkError
    <2>2. ASSUME pc = "prefillBlock" PROVE BlockError = "none"
        BY <2>2, BlockAccepts DEF IInv
    <2> QED BY <2>1, <2>2 DEF PrefillNeverRefused
<1> QED BY <1>1, Invariance, PTL
-----------------------------------------------------------------------------
(***************************************************************************)
(* Refinement.  One block of a step is one Extend of streaming attention,  *)
(* the entry of Generate is a Restart, and everything else stutters.       *)
(***************************************************************************)
Lengths == [l \in LayerIds |-> Length(l)]

LEMMA PromiseDefs ==
    /\ Promise!LayerIds = LayerIds
    /\ Promise!vars = <<call, Lengths, reads>>
BY DEF Promise!LayerIds, LayerIds, Promise!vars, Lengths

(* The step of a block, seen from the abstract specification. *)
LEMMA BlockExtends ==
    ASSUME IInv, AttendsWindow', layer \in LayerIds,
           rows \in Nat \ {0}, rows = 1 \/ start + rows <= MaxSeqLen,
           layer' = layer + 1, UNCHANGED <<call, start, rows>>,
           \A l \in LayerIds \ {layer} : reads'[l] = reads[l],
           DOMAIN reads' = LayerIds,
           \E v : reads' = [reads EXCEPT ![layer] = v]
    PROVE  Promise!Extend(layer, rows) /\ rows \in 1 .. MaxSeqLen
<1>1. Layers \in Nat /\ start \in Nat /\ MaxSeqLen \in Nat \ {0} /\ layer \in 1 .. Layers
    BY LayersAssumption, RowCounts DEF IInv, TypeOK, LayerIds
<1>2. /\ Lengths[layer] = start
      /\ layer > 1 => Lengths[layer - 1] = start + rows
      /\ layer = 1 => \A m \in LayerIds : Lengths[m] = start
    BY <1>1 DEF Lengths, Length, LayerIds
<1>3. Lengths' = [Lengths EXCEPT ![layer] = start + rows]
    <2>1. \A l \in LayerIds : Length(l)' = IF l = layer THEN start + rows ELSE Length(l)
        BY <1>1 DEF Length, LayerIds
    <2>2. Lengths' = [l \in LayerIds |-> IF l = layer THEN start + rows ELSE Length(l)]
        BY <2>1 DEF Lengths
    <2> QED BY <2>2 DEF Lengths
<1>4. reads'[layer] = UNION {Promise!Window(call, q) : q \in start .. start + rows - 1}
    BY <1>1 DEF AttendsWindow, Promise!Window, Promise!Sight
<1>5. reads' = [reads EXCEPT ![layer] =
                  UNION {Promise!Window(call, q) : q \in start .. start + rows - 1}]
    <2>1. DOMAIN reads = LayerIds  BY DEF IInv, TypeOK
    <2>2. PICK v : reads' = [reads EXCEPT ![layer] = v]  OBVIOUS
    <2>3. v = reads'[layer]  BY <2>1, <2>2
    <2> QED BY <1>4, <2>2, <2>3
<1>6. rows \in 1 .. MaxSeqLen  BY <1>1
<1> HIDE DEF Lengths
<1>7. Promise!Extend(layer, rows)
    <2>1. layer > 1 => Lengths[layer - 1] >= Lengths[layer] + rows
        BY <1>1, <1>2
    <2> QED BY <1>1, <1>2, <1>3, <1>5, <2>1, PromiseDefs DEF Promise!Extend, Lengths
<1> QED BY <1>6, <1>7

(* A step that changes neither a length nor a view stutters. *)
LEMMA Stutters ==
    ASSUME UNCHANGED <<call, reads>>, \A l \in LayerIds : Length(l)' = Length(l)
    PROVE  UNCHANGED Promise!vars
<1>1. Lengths' = Lengths  BY DEF Lengths
<1> QED BY <1>1 DEF Promise!vars, Lengths

(* Every step of Generate is a step of streaming attention, or none. *)
LEMMA StepRefines ==
    ASSUME IInv, IInv', [Next]_vars
    PROVE  [Promise!Next]_(Promise!vars)
<1>0. TypeOK /\ Control /\ AttendsWindow' /\ Layers \in Nat \ {0}
    BY LayersAssumption DEF IInv
<1> USE DEF requestVars, stepVars, resultVars, Finish
<1>1. ASSUME NEW r \in Requests, Call(r) PROVE Promise!Next
    <2>1. \A l \in LayerIds : Length(l)' = 0
        BY <1>1, <1>0 DEF Call, Length, LayerIds
    <2>2. Lengths' = [l \in LayerIds |-> 0]  BY <2>1 DEF Lengths
    <2>3. Promise!Restart
        BY <1>1, <2>2, PromiseDefs DEF Call, Promise!Restart, Lengths
    <2> QED BY <2>3 DEF Promise!Next
<1>2. CASE PrefillChunk
    <2>1. \A l \in LayerIds : Length(l) = i /\ i \in Nat
        BY <1>0, <1>2, RowCounts DEF PrefillChunk, Control, TypeOK, Lesser
    <2>2. \A l \in LayerIds : Length(l)' = i
        BY <1>0, <1>2, <2>1 DEF PrefillChunk, Length, LayerIds
    <2> QED BY <1>2, <2>1, <2>2, Stutters DEF PrefillChunk
<1>3. CASE PrefillBlock
    <2>1. /\ BlockError = "none" /\ layer \in LayerIds
          /\ rows \in Nat \ {0} /\ start + rows <= MaxSeqLen
        BY <1>0, <1>3, BlockAccepts DEF PrefillBlock, Control
    <2>2. reads' = [reads EXCEPT ![layer] = AttendChunk(cache'[layer])]
        BY <1>3, <2>1 DEF PrefillBlock
    <2>3. DOMAIN reads' = LayerIds /\ \A l \in LayerIds \ {layer} : reads'[l] = reads[l]
        BY <1>0, <2>2 DEF TypeOK
    <2>4. layer' = layer + 1 /\ UNCHANGED <<call, start, rows>>
        BY <1>3, <2>1 DEF PrefillBlock
    <2>5. Promise!Extend(layer, rows) /\ rows \in 1 .. MaxSeqLen
        BY <1>0, <2>1, <2>2, <2>3, <2>4, BlockExtends
    <2> QED BY <2>1, <2>5, PromiseDefs DEF Promise!Next
<1>4. CASE StartForward
    <2>1. \A l \in LayerIds : Length(l) = pos
        BY <1>0, <1>4 DEF StartForward, Control
    <2>2. pos \in Nat /\ \A l \in LayerIds : Length(l)' = pos
        BY <1>0, <1>4 DEF StartForward, Length, LayerIds, TypeOK
    <2> QED BY <1>4, <2>1, <2>2, Stutters DEF StartForward
<1>5. CASE ForwardBlock
    <2>1. /\ layer \in LayerIds /\ rows = 1
          /\ reads' = [reads EXCEPT ![layer] = Attend(cache'[layer], start, KvLen(start))]
        BY <1>0, <1>5 DEF ForwardBlock, Control
    <2>2. DOMAIN reads' = LayerIds /\ \A l \in LayerIds \ {layer} : reads'[l] = reads[l]
        BY <1>0, <2>1 DEF TypeOK
    <2>3. layer' = layer + 1 /\ UNCHANGED <<call, start, rows>>
        BY <1>5 DEF ForwardBlock
    <2>4. Promise!Extend(layer, rows) /\ rows \in 1 .. MaxSeqLen
        <3>1. rows \in Nat \ {0} /\ (rows = 1 \/ start + rows <= MaxSeqLen)
            BY <2>1
        <3>2. \E v : reads' = [reads EXCEPT ![layer] = v]
            BY <2>1
        <3> QED BY <1>0, <2>1, <2>2, <2>3, <3>1, <3>2, BlockExtends
    <2> QED BY <2>1, <2>4, PromiseDefs DEF Promise!Next
<1>6. ASSUME UNCHANGED <<call, start, rows, layer, reads>>
      PROVE  UNCHANGED Promise!vars
    <2>1. \A l \in LayerIds : Length(l)' = Length(l)  BY <1>6 DEF Length
    <2> QED BY <1>6, <2>1, Stutters
<1>7. CASE PrefillRefused \/ StartDecode \/ TemperatureRefused \/ NothingWanted \/ LogitsRefused
    BY <1>6, <1>7
       DEF PrefillRefused, StartDecode, TemperatureRefused, NothingWanted, LogitsRefused
<1>8. ASSUME NEW t \in Vocabulary, SampleToken(t) \/ SampleEos(t)
      PROVE  UNCHANGED Promise!vars
    BY <1>6, <1>8 DEF SampleToken, SampleEos
<1>9. CASE CallbackThrows \/ StopAtLimit
    BY <1>6, <1>9 DEF CallbackThrows, StopAtLimit
<1>10. CASE UNCHANGED vars
    BY <1>6, <1>10 DEF vars
<1> QED BY <1>1, <1>2, <1>3, <1>4, <1>5, <1>7, <1>8, <1>9, <1>10 DEF Next, Step

(* The initial caches are an empty sequence. *)
LEMMA InitRefines == Init => Promise!Init
<1> SUFFICES ASSUME Init PROVE Promise!Init
    OBVIOUS
<1>1. \A l \in LayerIds : Length(l) = 0
    BY LayersAssumption DEF Init, Length, LayerIds
<1>2. Lengths = [l \in LayerIds |-> 0]  BY <1>1 DEF Lengths
<1> QED BY <1>2, PromiseDefs DEF Init, Promise!Init, Lengths

(***************************************************************************)
(* Generate with its caches, over any sequence of requests and however     *)
(* they end, implements streaming attention.                               *)
(***************************************************************************)
THEOREM ImplementsStreaming == Spec => StreamsAttention
<1>1. IInv /\ IInv' /\ [Next]_vars => [Promise!Next]_(Promise!vars)
    BY StepRefines
<1>2. Spec => Promise!Init /\ [][Promise!Next]_(Promise!vars)
    BY InitRefines, Invariance, <1>1, PTL DEF Spec
<1> QED BY <1>2 DEF StreamsAttention, Promise!Spec
-----------------------------------------------------------------------------
(***************************************************************************)
(* Eviction.  Rows the current request has not reached yet are older than  *)
(* it, so what a step replaces is either from an earlier request or, in a  *)
(* full cache, the row KvPos chooses.                                      *)
(***************************************************************************)
OlderBeyond ==
    \A l \in LayerIds, x \in Slots :
        /\ cache[l][x].call <= call
        /\ pc # "idle" /\ x >= Length(l) => cache[l][x].call < call

LEMMA OlderBeyondInit == Init => OlderBeyond
BY DEF Init, OlderBeyond, Blank, Entry

(* What the two writing steps do to a row. *)
LEMMA RowsWritten ==
    ASSUME IInv, PrefillBlock \/ ForwardBlock, NEW l \in LayerIds, NEW x \in Slots
    PROVE  /\ Length(l)' = IF l = layer THEN start + rows ELSE Length(l)
           /\ Length(layer) = start /\ start \in Nat /\ rows \in Nat \ {0} /\ layer \in LayerIds
           /\ \/ cache'[l][x].call = cache[l][x].call /\ cache'[l][x].pos = cache[l][x].pos
              \/ /\ l = layer /\ cache'[l][x].call = call
                 /\ x >= start \/ (x = KvPos(start) /\ start >= MaxSeqLen)
           /\ l = layer /\ x >= start + rows => cache'[l][x].call = cache[l][x].call
<1>1. /\ Layers \in Nat /\ layer \in LayerIds /\ start \in Nat /\ rows \in Nat \ {0}
      /\ layer' = layer + 1 /\ UNCHANGED <<call, start, rows>>
      /\ MaxSeqLen \in Nat \ {0} /\ x \in 0 .. MaxSeqLen - 1
    <2>1. CASE PrefillBlock
        BY <2>1, LayersAssumption, RowCounts, BlockAccepts
           DEF IInv, Control, TypeOK, PrefillBlock, requestVars, Slots
    <2>2. CASE ForwardBlock
        BY <2>2, LayersAssumption, RowCounts
           DEF IInv, Control, TypeOK, ForwardBlock, requestVars, Slots
    <2> QED BY <2>1, <2>2
<1>2. /\ Length(l)' = IF l = layer THEN start + rows ELSE Length(l)
      /\ Length(layer) = start
    BY <1>1 DEF Length, LayerIds
<1>3. cache[l] \in [Slots -> [call : Nat, pos : Nat, rotations : Nat]]
    BY DEF IInv, TypeOK
<1>4. DOMAIN cache = LayerIds
    BY DEF IInv, TypeOK
<1>5. CASE PrefillBlock
    <2>1. BlockError = "none"
        BY <1>5, BlockAccepts DEF IInv, PrefillBlock
    <2>2. cache'[l] = IF l = layer THEN StoreChunk(cache[l]) ELSE cache[l]
        BY <1>1, <1>4, <1>5, <2>1 DEF PrefillBlock
    <2>3. CASE l = layer /\ x \in start .. start + rows - 1
        BY <1>1, <1>2, <2>2, <2>3 DEF StoreChunk, Entry
    <2>4. CASE l # layer \/ x \notin start .. start + rows - 1
        <3>1. cache'[l][x] = cache[l][x]
            BY <2>2, <2>4 DEF StoreChunk
        <3> QED BY <1>1, <1>2, <3>1
    <2> QED BY <2>3, <2>4
<1>6. CASE ForwardBlock
    <2> DEFINE kv == StoreToken(cache[l])
    <2>1. cache'[l] = IF l = layer THEN RotateSinks(kv) ELSE cache[l]
        BY <1>1, <1>4, <1>6 DEF ForwardBlock
    <2>2. KvPos(start) \in Slots /\ (start < MaxSeqLen => KvPos(start) = start)
        BY <1>1, RowsOfPosition
    <2>3. kv[x] = IF x = KvPos(start) THEN Entry(call, start, 0) ELSE cache[l][x]
        BY <1>3, <2>2 DEF StoreToken
    <2> HIDE DEF kv
    <2>4. CASE l # layer
        <3>1. cache'[l][x] = cache[l][x]  BY <2>1, <2>4
        <3> QED BY <1>1, <1>2, <2>4, <3>1
    <2>5. CASE l = layer
        <3>1. kv[x] \in [call : Nat, pos : Nat, rotations : Nat] \/ x = KvPos(start)
            BY <1>3, <2>3
        <3>2. cache'[l][x] = IF x < NumSink(start)
                             THEN [kv[x] EXCEPT !.rotations = @ + 1] ELSE kv[x]
            BY <2>1, <2>5 DEF RotateSinks
        <3>3. CASE x = KvPos(start)
            <4>1. kv[x].call = call  BY <2>3, <3>3 DEF Entry
            <4>2. cache'[l][x].call = call
                <5>1. kv[x] = [call |-> call, pos |-> start, rotations |-> 0]
                    BY <2>3, <3>3 DEF Entry
                <5> QED BY <3>2, <5>1
            <4>3. x >= start \/ (x = KvPos(start) /\ start >= MaxSeqLen)
                BY <1>1, <2>2, <3>3
            <4>4. rows = 1 /\ ~(x >= start + rows)
                <5>1. rows = 1  BY <1>6 DEF IInv, Control, ForwardBlock
                <5> QED BY <1>1, <2>2, <3>3, <5>1
            <4> QED BY <1>1, <1>2, <2>5, <4>2, <4>3, <4>4
        <3>4. CASE x # KvPos(start)
            <4>1. kv[x] = cache[l][x] /\ cache[l][x] \in [call : Nat, pos : Nat, rotations : Nat]
                BY <1>3, <2>3, <3>4
            <4>2. cache'[l][x].call = cache[l][x].call /\ cache'[l][x].pos = cache[l][x].pos
                BY <3>2, <4>1
            <4> QED BY <1>1, <1>2, <4>2
        <3> QED BY <3>3, <3>4
    <2> QED BY <2>4, <2>5
<1> QED BY <1>5, <1>6

(* The steps that write no cache and end or continue a request. *)
LEMMA OtherSteps ==
    ASSUME IInv, IInv', [Next]_vars, ~PrefillBlock, ~ForwardBlock,
           \A r \in Requests : ~Call(r)
    PROVE  /\ UNCHANGED <<call, cache>>
           /\ pc' # "idle" => pc # "idle" /\ \A l \in LayerIds : Length(l)' = Length(l)
<1> USE LayersAssumption DEF requestVars, stepVars, resultVars, Finish
<1>1. CASE PrefillChunk
    <2>1. \A l \in LayerIds : Length(l) = i /\ i \in Nat
        BY <1>1, RowCounts DEF PrefillChunk, IInv, Control, TypeOK, Lesser
    <2>2. \A l \in LayerIds : Length(l)' = i
        BY <1>1, <2>1 DEF PrefillChunk, Length, LayerIds, IInv, TypeOK
    <2> QED BY <1>1, <2>1, <2>2 DEF PrefillChunk
<1>2. CASE StartForward
    <2>1. \A l \in LayerIds : Length(l) = pos
        BY <1>2 DEF StartForward, IInv, Control
    <2>2. \A l \in LayerIds : Length(l)' = pos
        BY <1>2 DEF StartForward, Length, LayerIds, IInv, TypeOK
    <2> QED BY <1>2, <2>1, <2>2 DEF StartForward
<1>3. CASE StartDecode \/ \E t \in Vocabulary : SampleToken(t)
    BY <1>3 DEF StartDecode, SampleToken, PrefillDone, Length
<1>4. CASE PrefillRefused \/ TemperatureRefused \/ NothingWanted \/ LogitsRefused
    BY <1>4 DEF PrefillRefused, TemperatureRefused, NothingWanted, LogitsRefused
<1>5. CASE CallbackThrows \/ StopAtLimit \/ \E t \in Vocabulary : SampleEos(t)
    BY <1>5 DEF CallbackThrows, StopAtLimit, SampleEos
<1>6. CASE UNCHANGED vars
    BY <1>6 DEF vars, Length
<1> QED BY <1>1, <1>2, <1>3, <1>4, <1>5, <1>6 DEF Next, Step

LEMMA OlderBeyondStep ==
    ASSUME IInv, IInv', OlderBeyond, [Next]_vars
    PROVE  OlderBeyond'
<1>0. call \in Nat /\ call' \in Nat /\ MaxCalls \in Nat
    BY RequestsAssumption DEF IInv, TypeOK
<1>1. ASSUME NEW r \in Requests, Call(r) PROVE OlderBeyond'
    <2>1. call' = call + 1 /\ cache' = cache  BY <1>1 DEF Call
    <2>2. \A l \in LayerIds, x \in Slots : cache[l][x].call \in Nat
        BY SMTT(40) DEF IInv, TypeOK
    <2> QED BY <1>0, <2>1, <2>2 DEF OlderBeyond
<1>2. CASE PrefillBlock \/ ForwardBlock
    <2>1. call' = call /\ pc # "idle"
        BY <1>2 DEF PrefillBlock, ForwardBlock, requestVars
    <2> SUFFICES ASSUME NEW l \in LayerIds, NEW x \in Slots
                 PROVE  /\ cache'[l][x].call <= call
                        /\ x >= Length(l)' => cache'[l][x].call < call
        BY <2>1 DEF OlderBeyond
    <2>2. /\ cache[l][x].call \in Nat /\ cache[l][x].call <= call
          /\ x >= Length(l) => cache[l][x].call < call
        BY <2>1 DEF OlderBeyond, IInv, TypeOK
    <2>3. x \in Nat  BY RowCounts DEF Slots
    <2>4. /\ Length(l)' = IF l = layer THEN start + rows ELSE Length(l)
          /\ Length(layer) = start /\ start \in Nat /\ rows \in Nat \ {0}
          /\ \/ cache'[l][x].call = cache[l][x].call
             \/ l = layer /\ cache'[l][x].call = call
          /\ l = layer /\ x >= start + rows => cache'[l][x].call = cache[l][x].call
        BY <1>2, RowsWritten
    <2> QED BY <1>0, <2>2, <2>3, <2>4
<1>3. CASE ~PrefillBlock /\ ~ForwardBlock /\ \A r \in Requests : ~Call(r)
    BY <1>3, OtherSteps DEF OlderBeyond
<1> QED BY <1>1, <1>2, <1>3

(* A writing step replaces a row of its own request only in a full cache. *)
LEMMA EvictsStep ==
    ASSUME IInv, IInv', OlderBeyond, [Next]_vars,
           NEW l \in LayerIds, NEW x \in Slots,
           cache[l][x].call = call, call' = call, cache'[l][x].pos # cache[l][x].pos
    PROVE  Length(l) >= MaxSeqLen /\ cache[l][x].pos = Length(l) - RingRows
<1>1. PrefillBlock \/ ForwardBlock
    <2>1. call \in Nat  BY RequestsAssumption DEF IInv, TypeOK
    <2>2. \A r \in Requests : ~Call(r)  BY <2>1 DEF Call
    <2> QED BY <2>2, OtherSteps
<1>2. pc # "idle"
    BY <1>1 DEF PrefillBlock, ForwardBlock
<1>3. /\ l = layer /\ Length(l) = start /\ start \in Nat
      /\ x >= start \/ (x = KvPos(start) /\ start >= MaxSeqLen)
    BY <1>1, RowsWritten
<1>4. call \in Nat /\ x \in Nat /\ x < MaxSeqLen /\ MaxSeqLen \in Nat
    BY RequestsAssumption, RowCounts DEF IInv, TypeOK, Slots
<1>5. ~(x >= start)
    BY <1>2, <1>3, <1>4 DEF OlderBeyond
<1>6. x = KvPos(start) /\ start >= MaxSeqLen
    BY <1>3, <1>5
<1>7. cache[l][x] = Entry(call, RowPos(x, start), RowRotations(x, start))
    BY <1>3, <1>4, <1>5 DEF IInv, CacheInv
<1>8. x >= SinkRows
    BY <1>3, <1>6, RowCounts, RowsOfPosition
<1>9. RowPos(x, start) = start - RingRows
    BY <1>3, <1>4, <1>6, <1>8, RowCounts DEF RowPos
<1> QED BY <1>3, <1>6, <1>7, <1>9 DEF Entry

(***************************************************************************)
(* No step overwrites a sink, nor any other position that is not the       *)
(* oldest of the ring of a full cache.                                     *)
(***************************************************************************)
THEOREM EvictionCorrect == Spec => EvictsOldest
<1>1. IInv /\ IInv' /\ OlderBeyond /\ [Next]_vars => OlderBeyond'
    BY OlderBeyondStep
<1>2. Spec => []OlderBeyond
    BY OlderBeyondInit, Invariance, <1>1, PTL DEF Spec
<1>3. IInv /\ IInv' /\ OlderBeyond /\ [Next]_vars =>
        [\A l \in LayerIds, x \in Slots :
          cache[l][x].call = call /\ call' = call /\ cache'[l][x].pos # cache[l][x].pos
          => Length(l) >= MaxSeqLen /\ cache[l][x].pos = Length(l) - RingRows]_vars
    BY EvictsStep
<1> QED BY <1>2, <1>3, Invariance, PTL DEF EvictsOldest, Spec
-----------------------------------------------------------------------------
(***************************************************************************)
(* The answer.  AnswerInv adds to the three properties where the decode    *)
(* loop stands: how many tokens have been sampled, which of them have been *)
(* forwarded, and which position the logits are about.                     *)
(***************************************************************************)
DecodeControl ==
    /\ pc \in {"prefill", "prefillBlock"} => tokens = <<>>
    /\ pc = "prefill" /\ i > 0 =>
           logits = [call |-> call, pos |-> Lesser(i, request.prompt) - 1, token |-> NoToken]
    /\ pc = "sample" =>
           /\ pos = request.prompt + Len(tokens)
           /\ request.max > 0 => Len(tokens) < request.max
    /\ pc = "callback" => pos = request.prompt + Len(tokens) - 1
    /\ pc = "forwardBlock" =>
           pos = request.prompt + Len(tokens) /\ Len(tokens) < request.max
    /\ pc \in {"callback", "forwardBlock"} =>
           Len(tokens) > 0 /\ token = tokens[Len(tokens)]

AnswerInv == StreamIsAnswer /\ SamplesLastPosition /\ ForwardsAllButLast /\ DecodeControl

LEMMA AnswerInit == Init => AnswerInv
BY DEF Init, NoRequest, AnswerInv, StreamIsAnswer, SamplesLastPosition, ForwardsAllButLast,
       DecodeControl

(* A request that fails leaves no answer to speak of. *)
LEMMA FailureKeepsAnswer ==
    ASSUME AnswerInv, pc # "callback", pc' = "idle", outcome' \notin {"limit", "eos"},
           UNCHANGED <<request, resultVars>>
    PROVE  AnswerInv'
BY DEF AnswerInv, StreamIsAnswer, SamplesLastPosition, ForwardsAllButLast, DecodeControl,
       resultVars

LEMMA AnswerStep ==
    ASSUME IInv, IInv', AnswerInv, [Next]_vars
    PROVE  AnswerInv'
<1>0. /\ TypeOK /\ Control /\ StreamIsAnswer /\ SamplesLastPosition /\ ForwardsAllButLast
      /\ DecodeControl
      /\ tokens \in Seq(Vocabulary) /\ request.prompt \in Nat /\ request.max \in Nat
    <2>1. request.prompt \in Nat /\ request.max \in Nat
        BY RequestType, SMTT(40) DEF IInv, TypeOK, NoRequest
    <2> QED BY <2>1 DEF IInv, AnswerInv, TypeOK
<1> USE DEF requestVars, stepVars, resultVars, Finish
<1>1. ASSUME NEW r \in Requests, Call(r) PROVE AnswerInv'
    <2>1. PromptError(r) \in {"none", "invalid_argument", "out_of_range"}
        BY DEF PromptError
    <2>2. r.max \in Nat  BY RequestType
    <2>3. pc' \in {"idle", "prefill"} /\ tokens' = <<>> /\ streamed' = <<>> /\ i' = 0
          /\ outcome' \notin {"limit", "eos"} /\ request' = r
        BY <1>1, <2>1 DEF Call
    <2> QED BY <2>2, <2>3
            DEF AnswerInv, StreamIsAnswer, SamplesLastPosition, ForwardsAllButLast, DecodeControl
<1>2. CASE PrefillChunk
    BY <1>0, <1>2
       DEF PrefillChunk, AnswerInv, StreamIsAnswer, SamplesLastPosition, ForwardsAllButLast,
           DecodeControl
<1>3. CASE PrefillRefused
    BY <1>0, <1>3, FailureKeepsAnswer DEF PrefillRefused, ChunkError, AnswerInv
<1>4. CASE PrefillBlock
    <2>1. BlockError = "none" /\ rows \in Nat \ {0} /\ start \in Nat
        BY <1>0, <1>4, BlockAccepts DEF PrefillBlock, TypeOK
    <2>2. request.prompt \in 1 .. MaxSeqLen /\ i < request.prompt /\ start = i /\ rows = ChunkRows
        BY <1>0, <1>4 DEF PrefillBlock, Control
    <2>3. BatchSize \in Nat /\ Lesser(i + BatchSize, request.prompt) = start + rows
        BY <1>0, <2>2, ChunkFits
    <2>4. /\ pc = "prefillBlock" /\ pc' \in {"prefill", "prefillBlock"}
          /\ UNCHANGED <<request, call, tokens, streamed, outcome>>
        BY <1>4, <2>1 DEF PrefillBlock
    <2>5. pc' = "prefill" =>
            /\ i' = i + BatchSize
            /\ logits' = [call |-> call, pos |-> start + rows - 1, token |-> NoToken]
        BY <1>4, <2>1 DEF PrefillBlock, NextChunk
    <2>6. DecodeControl'
        <3>1. tokens' = <<>>  BY <1>0, <2>4 DEF DecodeControl
        <3>2. pc' = "prefill" =>
                logits' = [call |-> call', pos |-> Lesser(i', request'.prompt) - 1,
                           token |-> NoToken]
            BY <2>1, <2>3, <2>4, <2>5
        <3> QED BY <2>4, <3>1, <3>2 DEF DecodeControl
    <2> QED BY <1>0, <2>4, <2>6
            DEF AnswerInv, StreamIsAnswer, SamplesLastPosition, ForwardsAllButLast
<1>5. CASE StartDecode
    <2>1. /\ pc = "prefill" /\ pc' = "sample" /\ pos' = request.prompt
          /\ i >= request.prompt /\ tokens = <<>> /\ streamed = <<>>
          /\ UNCHANGED <<request, call, tokens, streamed, logits>>
        BY <1>0, <1>5 DEF StartDecode, PrefillDone, DecodeControl, StreamIsAnswer
    <2>2. request.prompt > 0 /\ i \in Nat
        BY <1>0, <2>1, RowCounts DEF Control, TypeOK
    <2>3. logits = [call |-> call, pos |-> request.prompt - 1, token |-> NoToken]
        BY <1>0, <2>1, <2>2 DEF DecodeControl, Lesser
    <2>4. SamplesLastPosition'
        <3>1. Len(tokens') = 0 /\ tokens' = <<>>  BY <2>1
        <3>2. logits'.call = call' /\ logits'.pos = request'.prompt - 1 /\ logits'.token = NoToken
            BY <2>1, <2>3
        <3> QED BY <1>0, <2>1, <3>1, <3>2 DEF SamplesLastPosition
    <2> QED BY <1>0, <2>1, <2>4
            DEF AnswerInv, StreamIsAnswer, ForwardsAllButLast, DecodeControl
<1>6. CASE TemperatureRefused \/ LogitsRefused
    BY <1>0, <1>6, FailureKeepsAnswer
       DEF TemperatureRefused, LogitsRefused, PrefillDone, AnswerInv
<1>7. CASE NothingWanted
    <2>1. /\ pc = "sample" /\ pc' = "idle" /\ outcome' = "limit"
          /\ request.max = 0 /\ Len(tokens) = 0
          /\ UNCHANGED <<request, tokens, streamed, start, rows, layer>>
        BY <1>0, <1>7 DEF NothingWanted, MoreWanted, StreamIsAnswer, DecodeControl
    <2>2. \A l \in LayerIds : Length(l)' = request.prompt
        BY <1>0, <2>1 DEF Control, Length, DecodeControl
    <2> QED BY <1>0, <2>1, <2>2
            DEF AnswerInv, StreamIsAnswer, SamplesLastPosition, ForwardsAllButLast, DecodeControl
<1>8. ASSUME NEW t \in Vocabulary, SampleToken(t) PROVE AnswerInv'
    <2>1. /\ pc = "sample" /\ pc' = "callback" /\ token' = t /\ tokens' = Append(tokens, t)
          /\ Len(tokens) < request.max /\ ~(request.stopOnEos /\ t = Eos)
          /\ UNCHANGED <<request, pos, streamed>>
        BY <1>8 DEF SampleToken, MoreWanted
    <2>2. /\ Len(tokens') = Len(tokens) + 1 /\ tokens'[Len(tokens')] = t
          /\ \A n \in 1 .. Len(tokens) : tokens'[n] = tokens[n]
          /\ Len(tokens) \in Nat
        BY <1>0, <2>1
    <2>3. StreamIsAnswer'
        BY <1>0, <2>1, <2>2 DEF StreamIsAnswer
    <2>4. DecodeControl'
        BY <1>0, <2>1, <2>2 DEF DecodeControl
    <2> QED BY <2>1, <2>3, <2>4 DEF AnswerInv, SamplesLastPosition, ForwardsAllButLast
<1>9. ASSUME NEW t \in Vocabulary, SampleEos(t) PROVE AnswerInv'
    <2>1. /\ pc = "sample" /\ pc' = "idle" /\ outcome' = "eos" /\ Len(tokens) < request.max
          /\ UNCHANGED <<request, tokens, streamed, start, rows, layer>>
        BY <1>9 DEF SampleEos, MoreWanted
    <2>2. \A l \in LayerIds : Length(l)' = request.prompt + Len(tokens)
        BY <1>0, <2>1 DEF Control, Length, DecodeControl
    <2> QED BY <1>0, <2>1, <2>2
            DEF AnswerInv, StreamIsAnswer, SamplesLastPosition, ForwardsAllButLast, DecodeControl
<1>10. CASE CallbackThrows \/ StopAtLimit
    <2>1. /\ pc = "callback" /\ pc' = "idle" /\ streamed' = tokens
          /\ UNCHANGED <<request, tokens, start, rows, layer>>
          /\ outcome' = "callback" \/ (outcome' = "limit" /\ Len(tokens) = request.max)
        BY <1>0, <1>10 DEF CallbackThrows, StopAtLimit, Streamed, StreamIsAnswer
    <2>2. /\ Len(tokens) > 0
          /\ \A l \in LayerIds : Length(l)' = request.prompt + Len(tokens) - 1
        BY <1>0, <2>1 DEF Control, Length, DecodeControl
    <2> QED BY <1>0, <2>1, <2>2
            DEF AnswerInv, StreamIsAnswer, SamplesLastPosition, ForwardsAllButLast, DecodeControl
<1>11. CASE StartForward
    <2>1. /\ pc = "callback" /\ pc' = "forwardBlock" /\ streamed' = tokens
          /\ Len(tokens) # request.max /\ pos' = pos + 1
          /\ UNCHANGED <<request, tokens, token>>
        BY <1>0, <1>11 DEF StartForward, Streamed, StreamIsAnswer
    <2>2. Len(tokens) < request.max
        BY <1>0, <2>1 DEF StreamIsAnswer
    <2> QED BY <1>0, <2>1, <2>2
            DEF AnswerInv, StreamIsAnswer, SamplesLastPosition, ForwardsAllButLast, DecodeControl
<1>12. CASE ForwardBlock
    <2>1. /\ pc = "forwardBlock" /\ pc' \in {"sample", "forwardBlock"}
          /\ UNCHANGED <<request, call, tokens, streamed, token, pos, outcome>>
          /\ pc' = "sample" => logits' = [call |-> call, pos |-> start, token |-> token]
        BY <1>12 DEF ForwardBlock
    <2>2. /\ pos = start + 1 /\ start \in Nat
          /\ Len(tokens) > 0 /\ token = tokens[Len(tokens)]
          /\ pos = request.prompt + Len(tokens) /\ Len(tokens) < request.max
        BY <1>0, <2>1 DEF Control, TypeOK, DecodeControl
    <2>3. SamplesLastPosition'
        <3>1. tokens # <<>>  BY <2>2
        <3> QED BY <1>0, <2>1, <2>2, <3>1 DEF SamplesLastPosition
    <2> QED BY <1>0, <2>1, <2>2, <2>3
            DEF AnswerInv, StreamIsAnswer, ForwardsAllButLast, DecodeControl
<1>13. CASE UNCHANGED vars
    BY <1>0, <1>13
       DEF vars, AnswerInv, StreamIsAnswer, SamplesLastPosition, ForwardsAllButLast,
           DecodeControl, Length
<1> QED BY <1>1, <1>2, <1>3, <1>4, <1>5, <1>6, <1>7, <1>8, <1>9, <1>10, <1>11, <1>12, <1>13
        DEF Next, Step

(* AnswerInv is an invariant of Generate. *)
LEMMA AnswerInvariance == Spec => []AnswerInv
<1>1. IInv /\ IInv' /\ AnswerInv /\ [Next]_vars => AnswerInv'
    BY AnswerStep
<1> QED BY AnswerInit, Invariance, <1>1, PTL DEF Spec

(***************************************************************************)
(* What the callback has been given is the answer, also when the request   *)
(* ends by the limit, the end of the text or an exception.                 *)
(***************************************************************************)
THEOREM AnswerStreamed == Spec => []StreamIsAnswer
<1>1. AnswerInv => StreamIsAnswer  BY DEF AnswerInv
<1> QED BY AnswerInvariance, <1>1, PTL

(***************************************************************************)
(* Each token of the answer was sampled from the logits of the position    *)
(* before it, of this request and of no other.                             *)
(***************************************************************************)
THEOREM LastPositionSampled == Spec => []SamplesLastPosition
<1>1. AnswerInv => SamplesLastPosition  BY DEF AnswerInv
<1> QED BY AnswerInvariance, <1>1, PTL

(***************************************************************************)
(* All of the answer but the last token is in the caches when the request  *)
(* returns, so that none is forwarded in vain and none is missing.         *)
(***************************************************************************)
THEOREM AllButLastForwarded == Spec => []ForwardsAllButLast
<1>1. AnswerInv => ForwardsAllButLast  BY DEF AnswerInv
<1> QED BY AnswerInvariance, <1>1, PTL
=============================================================================
