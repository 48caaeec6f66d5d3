---------------------------- MODULE KernelThreads ----------------------------
(***************************************************************************)
(* The kernels between the norms and the attention, thread by thread: the  *)
(* matrix products, the norm and rotary embedding of queries and keys with *)
(* the store into the caches, and the turning of the sinks.  They are      *)
(* compared with the CPU layers and with the order in which convert.py     *)
(* lays out the weights they work on.                                      *)
(*                                                                         *)
(* Arithmetic is abstracted to provenance: a sum is the bag of its terms,  *)
(* an element of a head is the raw element it comes from, what it was      *)
(* normalised by and the rotation it took part in.  Blocks of one launch   *)
(* share no memory that one of them writes (GpuStream!BlocksApart), so     *)
(* they run one at a time, in any order; the threads of one interleave.    *)
(***************************************************************************)
EXTENDS ThreadBlock, FiniteSets, Bags

CONSTANTS
    Tile,     \* kTileSize
    Launches  \* bound: the launches considered

UpTo(n) == 0 .. n - 1
Positive == Nat \ {0}

(* The threads of a tile make up a block. *)
ASSUME TileAssumption == Tile \in Positive /\ BlockDim = Tile * Tile

(* Sizes are those ValidateConfig accepts; a block is a number of warps. *)
ASSUME LaunchesAssumption ==
    \A l \in Launches :
        \/ /\ l \in [kernel : {"tiled", "matvec"},
                     n : Positive, m : Positive, batch : Positive, warp : Positive]
           /\ l.kernel = "matvec" <=> l.batch = 1
           /\ BlockDim % l.warp = 0
        \/ /\ l \in [kernel : {"normRope"}, heads : Positive, kvHeads : Positive,
                     headDim : Positive, rotaryDim : Nat, pos : Nat, kvPos : Nat,
                     batch : Positive]
           /\ l.rotaryDim <= l.headDim /\ l.rotaryDim % 2 = 0
        \/ /\ l \in [kernel : {"sinks"}, sinks : Nat, kvHeads : Positive,
                     headDim : Positive, rotaryDim : Nat]
           /\ l.rotaryDim <= l.headDim /\ l.rotaryDim % 2 = 0

VARIABLES
    launch,  \* the kernel and its arguments
    todo,    \* the blocks of the grid yet to run
    block,   \* blockIdx of the block that runs
    sum,     \* sum[t]: the local sum of t
    arrays,  \* the shared arrays of the block
    memory   \* the buffers of the launch

(* stride[t] is tile_start of t in a tiled product. *)
kernelVars == <<launch, todo, block, pc, stride, sum, arrived, arrays, memory>>

CeilDiv(a, b) == (a + b - 1) \div b

(* The buffer f with values in it, from base on. *)
Stored(f, base, values) ==
    [i \in DOMAIN f \cup {base + c : c \in DOMAIN values} |->
        IF i - base \in DOMAIN values THEN values[i - base] ELSE f[i]]

(* The bag of the values of f. *)
BagOf(f) ==
    [v \in {f[j] : j \in DOMAIN f} |-> Cardinality({j \in DOMAIN f : f[j] = v})]
-----------------------------------------------------------------------------
(***************************************************************************)
(* Launches.                                                               *)
(***************************************************************************)

(* matmul_gpu of batch rows by n rows of m weights. *)
Product(n, m, batch, warp) ==
    [kernel |-> IF batch = 1 THEN "matvec" ELSE "tiled",
     n |-> n, m |-> m, batch |-> batch, warp |-> warp]

NormRope(heads, kvHeads, headDim, rotaryDim, pos, kvPos, batch) ==
    [kernel |-> "normRope", heads |-> heads, kvHeads |-> kvHeads, headDim |-> headDim,
     rotaryDim |-> rotaryDim, pos |-> pos, kvPos |-> kvPos, batch |-> batch]

Sinks(sinks, kvHeads, headDim, rotaryDim) ==
    [kernel |-> "sinks", sinks |-> sinks, kvHeads |-> kvHeads, headDim |-> headDim,
     rotaryDim |-> rotaryDim]

TotalPairs(l) == l.sinks * l.kvHeads * (l.rotaryDim \div 2)

(* The grid: numbers, or for a tiled product <<blockIdx.x, blockIdx.y>>. *)
Grid(l) ==
    CASE l.kernel = "tiled" -> UpTo(CeilDiv(l.n, Tile)) \X UpTo(CeilDiv(l.batch, Tile))
      [] l.kernel = "matvec" -> UpTo(CeilDiv(l.n, BlockDim \div l.warp))
      [] l.kernel = "normRope" -> UpTo(l.batch * (l.heads + l.kvHeads))
      [] l.kernel = "sinks" -> UpTo(CeilDiv(TotalPairs(l), BlockDim))
-----------------------------------------------------------------------------
(***************************************************************************)
(* Elements of heads.  A term is a raw element, or one divided by the root *)
(* of a sum of squares and multiplied by a weight of the norm.             *)
(***************************************************************************)
Term(of, squares, weight) == [of |-> of, squares |-> squares, weight |-> weight]
Whole(term) == [part |-> "whole", a |-> term, b |-> term, exponent |-> 0, pos |-> 0]
Raw(i) == Whole(Term(i, EmptyBag, -1))
Unwritten == Raw(-1)

(* rotate_rope_pair: what becomes of the two elements u and v. *)
TurnPair(u, v, exponent, pos) ==
    [part \in {"first", "second"} |->
        IF u.part = "whole" /\ v.part = "whole"
        THEN [part |-> part, a |-> u.a, b |-> v.a, exponent |-> exponent, pos |-> pos]
        ELSE Unwritten]
PartOf(c) == IF c % 2 = 0 THEN "first" ELSE "second"

(* What the square of v counts as in a sum. *)
Squared(v) == IF v.part = "whole" /\ v.a.weight = -1 THEN v.a.of ELSE -1

Memory(l) ==
    LET raw(n) == [i \in UpTo(n) |-> Raw(i)]
        rows == (l.kvPos + l.batch) * l.kvHeads * l.headDim
    IN CASE l.kernel = "normRope" ->
              [q |-> raw(l.batch * l.heads * l.headDim),
               k |-> raw(l.batch * l.kvHeads * l.headDim),
               v |-> raw(l.batch * l.kvHeads * l.headDim),
               cacheK |-> [i \in UpTo(rows) |-> Unwritten],
               cacheV |-> [i \in UpTo(rows) |-> Unwritten]]
         [] l.kernel = "sinks" -> [cacheK |-> raw((l.sinks + 1) * l.kvHeads * l.headDim)]
         [] OTHER -> [out |-> [i \in UpTo(l.n * l.batch) |-> EmptyBag]]
-----------------------------------------------------------------------------
EmptyArrays ==
    [x |-> [t \in Threads |-> -1], weight |-> [t \in Threads |-> -1],
     squares |-> [t \in Threads |-> EmptyBag]]

KernelInit ==
    /\ launch \in Launches
    /\ todo = Grid(launch)
    /\ block = 0
    /\ pc = [t \in Threads |-> "done"]
    /\ stride = [t \in Threads |-> 0]
    /\ sum = [t \in Threads |-> EmptyBag]
    /\ arrived = [t \in Threads |-> 0]
    /\ arrays = EmptyArrays
    /\ memory = Memory(launch)

StartBlock(b) ==
    /\ Done
    /\ todo' = todo \ {b}
    /\ block' = b
    /\ pc' = [t \in Threads |-> launch.kernel]
    /\ stride' = [t \in Threads |-> 0]
    /\ sum' = [t \in Threads |-> EmptyBag]
    /\ arrived' = [t \in Threads |-> 0]
    /\ arrays' = EmptyArrays
    /\ UNCHANGED <<launch, memory>>

(* Thread t goes on to a step, at once or after a __syncthreads(). *)
Go(t, step) == pc' = [pc EXCEPT ![t] = step]
Meet(t, step) == Go(t, step) /\ Arrive(t)
-----------------------------------------------------------------------------
(***************************************************************************)
(* matmul_tiled.  Tiles are stored by row; -1 stands for the zero a thread *)
(* stores where the matrix has ended.                                      *)
(***************************************************************************)
Tx(t) == t % Tile
Ty(t) == t \div Tile
BatchRow(t) == (block[2] * Tile) + Ty(t)
Output(t) == (block[1] * Tile) + Tx(t)

LoadTile(t) ==
    LET column == stride[t] + Tx(t)
        weightOutput == (block[1] * Tile) + Ty(t)
    IN
    /\ pc[t] = "tiled" /\ Open(t) /\ stride[t] < launch.m
    /\ arrays' =
         [arrays EXCEPT
            !.x[t] = IF BatchRow(t) < launch.batch /\ column < launch.m
                     THEN (BatchRow(t) * launch.m) + column ELSE -1,
            !.weight[(Tx(t) * Tile) + Ty(t)] =
                     IF weightOutput < launch.n /\ column < launch.m
                     THEN (weightOutput * launch.m) + column ELSE -1]
    /\ Meet(t, "addTile")
    /\ UNCHANGED <<launch, todo, block, stride, sum, memory>>

AddedTile(t) ==
    LET x(j) == arrays.x[(Ty(t) * Tile) + j]
        weight(j) == arrays.weight[(j * Tile) + Tx(t)]
        nonzero == {j \in UpTo(Tile) : x(j) # -1 /\ weight(j) # -1}
    IN sum' = [sum EXCEPT ![t] = @ (+) BagOf([j \in nonzero |-> <<x(j), weight(j)>>])]

(* Mutant of AddTile: no barrier before the next tile is loaded. *)
AddTileAlone(t) ==
    /\ pc[t] = "addTile" /\ Open(t)
    /\ AddedTile(t)
    /\ stride' = [stride EXCEPT ![t] = @ + Tile]
    /\ Go(t, "tiled")
    /\ UNCHANGED <<launch, todo, block, arrived, arrays, memory>>

AddTile(t) ==
    /\ pc[t] = "addTile" /\ Open(t)
    /\ AddedTile(t)
    /\ stride' = [stride EXCEPT ![t] = @ + Tile]
    /\ Meet(t, "tiled")
    /\ UNCHANGED <<launch, todo, block, arrays, memory>>

StoreOutput(t) ==
    /\ pc[t] = "tiled" /\ Open(t) /\ stride[t] >= launch.m
    /\ memory' = IF BatchRow(t) < launch.batch /\ Output(t) < launch.n
                   THEN [memory EXCEPT !.out[(BatchRow(t) * launch.n) + Output(t)] = sum[t]]
                   ELSE memory
    /\ Go(t, "done")
    /\ UNCHANGED <<launch, todo, block, stride, sum, arrived, arrays>>

(***************************************************************************)
(* matvec_warp.  The lanes of a warp shuffle in step, so lane 0 stands for *)
(* all: each takes the sum of the lane offset above it, or its own again.  *)
(***************************************************************************)
ShuffleDown(lanes, offset) ==
    [lane \in DOMAIN lanes |->
        lanes[lane] (+) lanes[IF lane + offset \in DOMAIN lanes THEN lane + offset ELSE lane]]

(* after[w] are the lanes once w lanes of the warp are left to be added. *)
WarpSum(lanes) ==
    LET size == Cardinality(DOMAIN lanes)
        after[w \in 1 .. size] ==
            IF 2 * w > size THEN lanes ELSE ShuffleDown(after[2 * w], w)
    IN after[1][0]

Warp(t) ==
    LET warpInBlock == t \div launch.warp
        output == (block * (BlockDim \div launch.warp)) + warpInBlock
        term(column) == <<column, (output * launch.m) + column>>
        own(lane) == {column \in UpTo(launch.m) : column % launch.warp = lane}
        lanes == [lane \in UpTo(launch.warp) |-> BagOf([column \in own(lane) |-> term(column)])]
    IN
    /\ pc[t] = "matvec"
    /\ memory' = IF t % launch.warp = 0 /\ output < launch.n
                   THEN [memory EXCEPT !.out[output] = WarpSum(lanes)]
                   ELSE memory
    /\ Go(t, "done")
    /\ UNCHANGED <<launch, todo, block, stride, sum, arrived, arrays>>
-----------------------------------------------------------------------------
(***************************************************************************)
(* qk_norm_rope_cache_kernel: a block is a head of a token, of a query or  *)
(* of a key.                                                               *)
(***************************************************************************)
IsQuery == block < launch.batch * launch.heads
RowInType == IF IsQuery THEN block ELSE block - (launch.batch * launch.heads)
HeadsOfType == IF IsQuery THEN launch.heads ELSE launch.kvHeads
Token == RowInType \div HeadsOfType
HeadOf == RowInType % HeadsOfType
Values == IF IsQuery THEN "q" ELSE "k"
Base == (Token * HeadsOfType * launch.headDim) + (HeadOf * launch.headDim)
CacheBase == ((launch.kvPos + Token) * launch.kvHeads * launch.headDim) + (HeadOf * launch.headDim)

LocalSquares(t) ==
    LET own == {i \in UpTo(launch.headDim) : i % BlockDim = t} IN
    /\ pc[t] = "normRope"
    /\ arrays' = [arrays EXCEPT
                    !.squares[t] = BagOf([i \in own |-> Squared(memory[Values][Base + i])])]
    /\ stride' = [stride EXCEPT ![t] = BlockDim \div 2]
    /\ Meet(t, "reduce")
    /\ UNCHANGED <<launch, todo, block, sum, memory>>

ReduceSquares(t) ==
    /\ pc[t] = "reduce" /\ Open(t) /\ stride[t] > 0
    /\ arrays' = IF t < stride[t]
                   THEN [arrays EXCEPT !.squares[t] = @ (+) arrays.squares[t + stride[t]]]
                   ELSE arrays
    /\ stride' = [stride EXCEPT ![t] = @ \div 2]
    /\ Meet(t, "reduce")
    /\ UNCHANGED <<launch, todo, block, sum, memory>>

(* Element c of the head after the kernel, from the head before. *)
Normalised(c) ==
    Whole(Term(Squared(memory[Values][Base + c]), arrays.squares[0], c))
Turned(c) ==
    LET first == c - (c % 2) IN
    IF c < 2 * (launch.headDim \div 2) /\ first < launch.rotaryDim
    THEN TurnPair(Normalised(first), Normalised(first + 1), first, launch.pos + Token)[PartOf(c)]
    ELSE Normalised(c)

(* The pairs of t, and for thread 0 the last element of an odd head. *)
OwnElements(t) ==
    {c \in UpTo(launch.headDim) :
        IF c = 2 * (launch.headDim \div 2) THEN t = 0 ELSE (c \div 2) % BlockDim = t}

StoreHead(t) ==
    LET turned == [c \in OwnElements(t) |-> Turned(c)]
        copied == [c \in OwnElements(t) |-> memory.v[Base + c]]
    IN memory' =
         IF IsQuery THEN [memory EXCEPT !.q = Stored(@, Base, turned)]
         ELSE [memory EXCEPT !.k = Stored(@, Base, turned),
                             !.cacheK = Stored(@, CacheBase, turned),
                             !.cacheV = Stored(@, CacheBase, copied)]

(* Mutant of TurnHead: no barrier after the last round. *)
TurnHeadEarly(t) ==
    /\ pc[t] = "reduce" /\ stride[t] = 0
    /\ StoreHead(t)
    /\ Go(t, "done")
    /\ UNCHANGED <<launch, todo, block, stride, sum, arrived, arrays>>

TurnHead(t) ==
    /\ pc[t] = "reduce" /\ Open(t) /\ stride[t] = 0
    /\ StoreHead(t)
    /\ Go(t, "done")
    /\ UNCHANGED <<launch, todo, block, stride, sum, arrived, arrays>>
-----------------------------------------------------------------------------
(***************************************************************************)
(* rotate_sink_tokens_kernel: a thread turns one pair of one sink.         *)
(***************************************************************************)
TurnSink(t) ==
    LET pair == (block * BlockDim) + t
        pairsPerHead == launch.rotaryDim \div 2
        pairsPerSink == launch.kvHeads * pairsPerHead
        sink == pair \div pairsPerSink
        kvHead == (pair % pairsPerSink) \div pairsPerHead
        ropePair == (pair % pairsPerSink) % pairsPerHead
        element == (sink * launch.kvHeads * launch.headDim)
                     + (kvHead * launch.headDim) + (2 * ropePair)
        turned == TurnPair(memory.cacheK[element], memory.cacheK[element + 1], 2 * ropePair, 1)
    IN
    /\ pc[t] = "sinks"
    /\ memory' = IF pair < TotalPairs(launch)
                   THEN [memory EXCEPT !.cacheK[element] = turned["first"],
                                       !.cacheK[element + 1] = turned["second"]]
                   ELSE memory
    /\ Go(t, "done")
    /\ UNCHANGED <<launch, todo, block, stride, sum, arrived, arrays>>
-----------------------------------------------------------------------------
KernelThread(t) ==
    \/ LoadTile(t) \/ AddTile(t) \/ StoreOutput(t)
    \/ Warp(t)
    \/ LocalSquares(t) \/ ReduceSquares(t) \/ TurnHead(t)
    \/ TurnSink(t)

LaunchDone == todo = {} /\ Done
KernelFinished == LaunchDone /\ UNCHANGED kernelVars

KernelNext ==
    \/ \E b \in todo : StartBlock(b)
    \/ \E t \in Threads : KernelThread(t)
    \/ KernelFinished

KernelSpec == KernelInit /\ [][KernelNext]_kernelVars
-----------------------------------------------------------------------------
(***************************************************************************)
(* The CPU layers, on the same buffers.                                    *)
(***************************************************************************)

(* matmul_cpu: out[b * n + i] sums row b of x by row i of the weights. *)
CpuProduct(l) ==
    [o \in UpTo(l.n * l.batch) |->
        BagOf([column \in UpTo(l.m) |->
                 <<((o \div l.n) * l.m) + column, ((o % l.n) * l.m) + column>>])]

(* rmsnorm_cpu of every head of f, in place. *)
CpuNorm(f, headDim) ==
    [i \in DOMAIN f |->
        LET base == i - (i % headDim)
        IN Whole(Term(Squared(f[i]),
                      BagOf([c \in UpTo(headDim) |-> Squared(f[base + c])]),
                      i % headDim))]

(* rope_cpu of each token, d elements of f, at its position.  Beyond
   rotary_dim the angle is 0, which leaves a pair as it is. *)
CpuRope(f, d, headDim, positions, rotaryDim) ==
    [i \in DOMAIN f |->
        LET first == i - (i % 2)
            headIndex == (first % d) % headDim
        IN IF headIndex >= rotaryDim THEN f[i]
           ELSE TurnPair(f[first], f[first + 1], headIndex, positions[i \div d])[PartOf(i)]]

CpuHeads(l, f, heads) ==
    LET positions == [token \in UpTo(l.batch) |-> l.pos + token]
    IN CpuRope(CpuNorm(f, l.headDim), heads * l.headDim, l.headDim, positions, l.rotaryDim)

(* The sinks of ForwardCPU: rope_cpu of each by one position. *)
CpuSinks(l) ==
    LET once == [sink \in UpTo(l.sinks) |-> 1]
        d == l.kvHeads * l.headDim
        sinks == CpuRope([i \in UpTo(l.sinks * d) |-> Raw(i)], d, l.headDim, once, l.rotaryDim)
    IN [cacheK |-> Stored(Memory(l).cacheK, 0, sinks)]

CpuNormRope(l) ==
    LET start == Memory(l)
        keys == CpuHeads(l, start.k, l.kvHeads)
        first == l.kvPos * l.kvHeads * l.headDim
        stored(f) == [i \in DOMAIN start.cacheK |-> IF i < first THEN Unwritten ELSE f[i - first]]
    IN [q |-> CpuHeads(l, start.q, l.heads), k |-> keys, v |-> start.v,
        cacheK |-> stored(keys), cacheV |-> stored(start.v)]
-----------------------------------------------------------------------------
(***************************************************************************)
(* convert.py.  interleave_rope_coordinates: the row of a checkpoint's     *)
(* head that becomes row c of the converted one, for the tensors convert   *)
(* reorders.                                                               *)
(***************************************************************************)
Interleaved(c, rotaryDim) ==
    IF c >= rotaryDim THEN c
    ELSE IF c % 2 = 0 THEN c \div 2 ELSE (rotaryDim \div 2) + (c \div 2)

(* Mutant of CheckpointRow: convert reorders the projections only. *)
CheckpointRowOfProjections(tensor, c, rotaryDim) ==
    IF tensor \in {"wq", "wk"} THEN Interleaved(c, rotaryDim) ELSE c

CheckpointRow(tensor, c, rotaryDim) ==
    IF tensor \in {"q_norm", "k_norm", "wq", "wk"} THEN Interleaved(c, rotaryDim) ELSE c
-----------------------------------------------------------------------------
(***************************************************************************)
(* A product on the GPU sums the terms the CPU sums, each of them once:    *)
(* no tile is overwritten before all have used it, and the edges of the    *)
(* matrices, of the grid and of the warps fit.                             *)
(***************************************************************************)
ProductsMatchCpu ==
    LaunchDone /\ launch.kernel \in {"tiled", "matvec"} => memory.out = CpuProduct(launch)

(***************************************************************************)
(* Queries, keys, caches and sinks are on the GPU what they are on the     *)
(* CPU: normalised by the whole head although that is done in place,       *)
(* turned in the same pairs by the same angle, keys and values stored at   *)
(* their row, each sink turned once.  (For heads of an even size: rope_cpu *)
(* pairs across the heads of an odd one.)                                  *)
(***************************************************************************)
HeadsMatchCpu ==
    LaunchDone /\ launch.kernel \in {"normRope", "sinks"} /\ launch.headDim % 2 = 0 =>
        memory = IF launch.kernel = "sinks" THEN CpuSinks(launch) ELSE CpuNormRope(launch)

(***************************************************************************)
(* The pairs are those the checkpoint means, whose coordinate j turns with *)
(* j + rotary_dim / 2 by the frequency of 2j: convert.py, which moves them *)
(* next to each other, and the kernel agree, for heads of any size, and    *)
(* the weights of the norm have moved with their coordinates.              *)
(***************************************************************************)
TurnsSplitHalves ==
    LaunchDone /\ launch.kernel = "normRope" =>
        LET half == launch.rotaryDim \div 2
            row(tensor, c) == CheckpointRow(tensor, c, launch.rotaryDim)
            is(term, wx, norm, r) ==
                /\ row(wx, term.of % launch.headDim) = r
                /\ row(norm, term.weight) = r
            right(v, r, wx, norm) ==
                IF r >= launch.rotaryDim THEN v.part = "whole" /\ is(v.a, wx, norm, r)
                ELSE LET j == r % half IN
                     /\ v.part = IF r < half THEN "first" ELSE "second"
                     /\ v.exponent = 2 * j
                     /\ is(v.a, wx, norm, j) /\ is(v.b, wx, norm, j + half)
        IN /\ \A i \in DOMAIN memory.q :
                right(memory.q[i], row("wq", i % launch.headDim), "wq", "q_norm")
           /\ \A i \in DOMAIN memory.k :
                right(memory.k[i], row("wk", i % launch.headDim), "wk", "k_norm")
=============================================================================
