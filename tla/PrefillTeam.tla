----------------------------- MODULE PrefillTeam -----------------------------
(***************************************************************************)
(* Block::ForwardPrefillCPU: a team of OpenMP workers takes one chunk of a *)
(* prompt through one block.  The function is a sequence of parallel       *)
(* loops; a worker takes any iteration nobody has taken, and the implicit  *)
(* barrier at the end of each loop lets the next one begin.  Module        *)
(* Generate treats the whole function as one step, PrefillBlock: this      *)
(* module is why it may.                                                   *)
(*                                                                         *)
(* Memory is the buffers of State and the block's caches, element by       *)
(* element at the offsets the code computes.  Arithmetic is abstracted to  *)
(* provenance: an element holds the name of the loop that wrote it, or     *)
(* "garbage" if that loop read an element some other loop should have      *)
(* written first.  One element stands for a head's head_dim elements, and  *)
(* one for the dim elements of a row of x, which an iteration uses alike.  *)
(***************************************************************************)
EXTENDS Integers, Sequences, FiniteSets

CONSTANTS
    Workers,        \* threads of the OpenMP team
    NumTokens,      \* num_tokens, rows of the chunk
    Start,          \* pos, position of the first row
    Heads,          \* config.n_heads
    KvHeads,        \* config.n_kv_heads
    MaxSeqLen,      \* config.max_seq_len
    BatchCapacity   \* state.batch_capacity

\* What the checks at the head of the function and ValidateConfig establish.
ASSUME ChunkAssumption ==
    /\ {NumTokens, Heads, KvHeads, MaxSeqLen, BatchCapacity} \subseteq Nat \ {0}
    /\ Start \in Nat
    /\ Heads % KvHeads = 0
    /\ Start + NumTokens <= MaxSeqLen
    /\ NumTokens <= BatchCapacity

VARIABLES
    loop,     \* index of the parallel loop being executed
    todo,     \* its iterations nobody has taken
    running,  \* running[w]: the iteration worker w executes, or Idle
    memory,   \* memory[b][n]: element n of buffer b
    seen      \* seen[t, head]: the cache elements the attention of t has read

vars == <<loop, todo, running, memory, seen>>

Idle == <<>>
Tokens == 0 .. NumTokens - 1

(* The size of each buffer: State's constructor and Block's. *)
Size ==
    [x |-> BatchCapacity, norm |-> BatchCapacity, projected |-> BatchCapacity,
     q |-> BatchCapacity * Heads, out |-> BatchCapacity * Heads,
     lin1 |-> BatchCapacity, lin2 |-> BatchCapacity,
     k |-> BatchCapacity * KvHeads, v |-> BatchCapacity * KvHeads,
     cacheK |-> MaxSeqLen * KvHeads, cacheV |-> MaxSeqLen * KvHeads,
     scores |-> BatchCapacity * Heads * MaxSeqLen]
Buffers == DOMAIN Size
At(b, S) == {[buffer |-> b, index |-> n] : n \in S}

(* Mutant of Loops: the keys are stored before they are turned. *)
LoopsStoreFirst ==
    <<"attnNorm", "projectQ", "projectK", "projectV", "qNorm", "kNorm",
      "store", "rope", "attend", "projectOut", "residual",
      "mlpNorm", "gate", "up", "silu", "down", "finalResidual">>

(***************************************************************************)
(* The loops in the order of the function, with the loop that must have    *)
(* written what they read.  Consecutive loops over disjoint buffers keep   *)
(* the order of the code.                                                  *)
(***************************************************************************)
Loops == <<"attnNorm", "projectQ", "projectK", "projectV", "qNorm", "kNorm",
           "rope", "store", "attend", "projectOut", "residual",
           "mlpNorm", "gate", "up", "silu", "down", "finalResidual">>
Name == Loops[loop]

(***************************************************************************)
(* The loops over q, k and v go by row and head, the others by row; the    *)
(* silu loop of ffn_cpu is not parallel.  The code collapses matmul_cpu    *)
(* and the residual additions further, to single numbers of a row; those   *)
(* of a row or head are one iteration here.  Each writes its own number    *)
(* and reads none that another one of the loop writes, so any order of     *)
(* them gives what the one iteration does.                                 *)
(***************************************************************************)
Iterations(name) ==
    CASE name \in {"projectQ", "qNorm", "attend"} -> Tokens \X (0 .. Heads - 1)
      [] name \in {"projectK", "projectV", "kNorm"} -> Tokens \X (0 .. KvHeads - 1)
      [] name = "silu" -> {<<0, 0>>}
      [] OTHER -> Tokens \X {0}

(* kv_head of a query head: consecutive heads share one. *)
KvHead(head) == head \div (Heads \div KvHeads)

(* Mutant of KvLen: one row further than the query's own. *)
KvLenInclusive(t) == Start + t + 2

(* kv_len of row t: the positions up to and including its own. *)
KvLen(t) == Start + t + 1

(* Offsets into q and attn_output, into k and v, and into a cache. *)
QueryAt(t, head) == (t * Heads) + head
KeyAt(t, head) == (t * KvHeads) + head
CacheAt(p, head) == (p * KvHeads) + head

(* Mutant of ScoresAt: one row of scores per token, shared by its heads. *)
ScoresAtToken(t, head) == {(t * MaxSeqLen) + n : n \in 0 .. KvLen(t) - 1}

(* The scores of one query: a row of max_seq_len elements, used to kv_len. *)
ScoresAt(t, head) == {(((t * Heads) + head) * MaxSeqLen) + n : n \in 0 .. KvLen(t) - 1}

(* What the attention of row t and a head reads of a cache. *)
CacheRead(t, head) == {CacheAt(p, KvHead(head)) : p \in 0 .. KvLen(t) - 1}

QueryRow(t) == {QueryAt(t, head) : head \in 0 .. Heads - 1}
KeyRow(t) == {KeyAt(t, head) : head \in 0 .. KvHeads - 1}
CacheRow(p) == {CacheAt(p, head) : head \in 0 .. KvHeads - 1}

(* The elements an iteration reads, and the elements it writes. *)
Reads(name, it) ==
    LET t == it[1]  head == it[2] IN
    CASE name = "attnNorm" -> At("x", {t})
      [] name \in {"projectQ", "projectK", "projectV", "gate", "up"} -> At("norm", {t})
      [] name = "qNorm" -> At("q", {QueryAt(t, head)})
      [] name = "kNorm" -> At("k", {KeyAt(t, head)})
      [] name = "rope" -> At("q", QueryRow(t)) \cup At("k", KeyRow(t))
      [] name = "store" -> At("k", KeyRow(t)) \cup At("v", KeyRow(t))
      [] name = "attend" ->
           At("q", {QueryAt(t, head)})
           \cup At("cacheK", CacheRead(t, head)) \cup At("cacheV", CacheRead(t, head))
      [] name = "projectOut" -> At("out", QueryRow(t))
      [] name = "mlpNorm" -> At("x", {t})
      [] name = "silu" -> At("lin1", Tokens) \cup At("lin2", Tokens)
      [] name = "down" -> At("lin1", {t})
      [] name \in {"residual", "finalResidual"} -> At("x", {t}) \cup At("projected", {t})

Writes(name, it) ==
    LET t == it[1]  head == it[2] IN
    CASE name \in {"attnNorm", "mlpNorm"} -> At("norm", {t})
      [] name \in {"projectQ", "qNorm"} -> At("q", {QueryAt(t, head)})
      [] name \in {"projectK", "kNorm"} -> At("k", {KeyAt(t, head)})
      [] name = "projectV" -> At("v", {KeyAt(t, head)})
      [] name = "rope" -> At("q", QueryRow(t)) \cup At("k", KeyRow(t))
      [] name = "store" -> At("cacheK", CacheRow(Start + t)) \cup At("cacheV", CacheRow(Start + t))
      [] name = "attend" -> At("scores", ScoresAt(t, head)) \cup At("out", {QueryAt(t, head)})
      [] name = "gate" -> At("lin1", {t})
      [] name = "up" -> At("lin2", {t})
      [] name = "silu" -> At("lin1", Tokens)
      [] name \in {"projectOut", "down"} -> At("projected", {t})
      [] name \in {"residual", "finalResidual"} -> At("x", {t})

(***************************************************************************)
(* The loop that must have written an element of buffer b last when loop   *)
(* name reads it.  Cache rows before Start come from earlier chunks.       *)
(***************************************************************************)
Source(name, l) ==
    CASE l.buffer = "x" -> IF name \in {"attnNorm", "residual"} THEN "input" ELSE "residual"
      [] l.buffer = "norm" -> IF name \in {"gate", "up"} THEN "mlpNorm" ELSE "attnNorm"
      [] l.buffer = "lin1" -> IF name = "silu" THEN "gate" ELSE "silu"
      [] l.buffer = "lin2" -> "up"
      [] l.buffer = "q" ->
           CASE name = "qNorm" -> "projectQ" [] name = "rope" -> "qNorm" [] OTHER -> "rope"
      [] l.buffer = "k" ->
           CASE name = "kNorm" -> "projectK" [] name = "rope" -> "kNorm" [] OTHER -> "rope"
      [] l.buffer = "v" -> "projectV"
      [] l.buffer \in {"cacheK", "cacheV"} ->
           IF l.index < Start * KvHeads THEN "earlier" ELSE "store"
      [] l.buffer = "out" -> "attend"
      [] l.buffer = "projected" -> IF name = "residual" THEN "projectOut" ELSE "down"

Value(l) == memory[l.buffer][l.index]

Init ==
    /\ loop = 1
    /\ todo = Iterations(Loops[1])
    /\ running = [w \in Workers |-> Idle]
    /\ memory = [b \in Buffers |-> [n \in 0 .. Size[b] - 1 |->
                   IF b = "x" /\ n < NumTokens THEN "input"
                   ELSE IF b \in {"cacheK", "cacheV"} /\ n < Start * KvHeads THEN "earlier"
                   ELSE "garbage"]]
    /\ seen = [it \in Iterations("attend") |-> {}]

(* A worker takes an iteration of the current loop. *)
Take(w, it) ==
    /\ running[w] = Idle /\ it \in todo
    /\ todo' = todo \ {it}
    /\ running' = [running EXCEPT ![w] = it]
    /\ UNCHANGED <<loop, memory, seen>>

(* It has executed it: what it wrote is as good as what it read. *)
Execute(w) ==
    LET it == running[w]
        good == \A l \in Reads(Name, it) : Value(l) = Source(Name, l)
    IN
    /\ it # Idle
    /\ memory' = [b \in Buffers |-> [n \in 0 .. Size[b] - 1 |->
                    IF [buffer |-> b, index |-> n] \in Writes(Name, it)
                    THEN IF good THEN Name ELSE "garbage"
                    ELSE memory[b][n]]]
    /\ seen' = IF Name = "attend"
                 THEN [seen EXCEPT ![it] = {l \in Reads(Name, it) : l.buffer = "cacheK"}]
                 ELSE seen
    /\ running' = [running EXCEPT ![w] = Idle]
    /\ UNCHANGED <<loop, todo>>

(* The implicit barrier: the loop is over when everybody has finished. *)
Barrier ==
    /\ todo = {} /\ \A w \in Workers : running[w] = Idle
    /\ loop < Len(Loops)
    /\ loop' = loop + 1
    /\ todo' = Iterations(Loops[loop + 1])
    /\ UNCHANGED <<running, memory, seen>>

Done == loop = Len(Loops) /\ todo = {} /\ \A w \in Workers : running[w] = Idle
Returned == Done /\ UNCHANGED vars

Next ==
    \/ \E w \in Workers : \/ \E it \in todo : Take(w, it)
                          \/ Execute(w)
    \/ Barrier
    \/ Returned

Spec == Init /\ [][Next]_vars
-----------------------------------------------------------------------------
(***************************************************************************)
(* No two workers touch the same element unless both only read it: neither *)
(* the rows of q, k and the caches nor the rows of attention scores of two *)
(* iterations overlap.                                                     *)
(***************************************************************************)
RaceFree ==
    \A w, u \in Workers :
        w # u /\ running[w] # Idle /\ running[u] # Idle =>
            Writes(Name, running[w]) \cap
                (Reads(Name, running[u]) \cup Writes(Name, running[u])) = {}

(* Every access stays within the buffers State and Block have allocated. *)
InBounds ==
    \A w \in Workers : running[w] # Idle =>
        \A l \in Reads(Name, running[w]) \cup Writes(Name, running[w]) :
            l.index \in 0 .. Size[l.buffer] - 1

(***************************************************************************)
(* When the function returns, every row of x has gone through every loop   *)
(* in order, the chunk's rows of both caches are stored, and every query   *)
(* has read the cache rows of the positions up to its own and no later     *)
(* one, although later rows of the chunk were stored before it ran.        *)
(***************************************************************************)
ChunkAtOnce ==
    Done =>
        /\ \A t \in Tokens : memory.x[t] = "finalResidual"
        /\ \A n \in 0 .. ((Start + NumTokens) * KvHeads) - 1 :
               memory.cacheK[n] = IF n < Start * KvHeads THEN "earlier" ELSE "store"
        /\ \A it \in Iterations("attend") :
               {l.index \div KvHeads : l \in seen[it]} = 0 .. Start + it[1]
=============================================================================
