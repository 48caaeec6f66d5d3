------------------------- MODULE PrefillTeam_proof -------------------------
(***************************************************************************)
(* ForwardPrefillCPU has no data race and no access outside a buffer, and  *)
(* takes every row through the whole block, for every team, chunk, number  *)
(* of heads and size of the cache.                                         *)
(***************************************************************************)
EXTENDS PrefillTeam, Lemmas_proof, SequenceTheorems

Names ==
    {"attnNorm", "projectQ", "projectK", "projectV", "qNorm", "kNorm", "rope", "store", "attend",
     "projectOut", "residual", "mlpNorm", "gate", "up", "silu", "down", "finalResidual"}

(* Chunk, heads, cache and buffers, and the loops in order. *)
LEMMA Chunk ==
    /\ NumTokens \in Nat \ {0} /\ Heads \in Nat \ {0} /\ KvHeads \in Nat \ {0}
    /\ MaxSeqLen \in Nat \ {0} /\ BatchCapacity \in Nat \ {0} /\ Start \in Nat
    /\ Start + NumTokens <= MaxSeqLen /\ NumTokens <= BatchCapacity
    /\ Loops \in Seq(Names) /\ Len(Loops) = 17
<1>1. Loops \in Seq(Names) /\ Len(Loops) = 17  BY DEF Loops, Names
<1> QED BY <1>1, ChunkAssumption

(* No iteration of a loop leaves the buffers. *)
LEMMA IterationWithin ==
    ASSUME NEW name \in Names, NEW it \in Iterations(name),
           NEW l \in Reads(name, it) \cup Writes(name, it)
    PROVE  l.index \in 0 .. Size[l.buffer] - 1
<1> DEFINE t == it[1]  head == it[2]
<1>1. /\ NumTokens \in Nat \ {0} /\ Heads \in Nat \ {0} /\ KvHeads \in Nat \ {0}
      /\ MaxSeqLen \in Nat \ {0} /\ BatchCapacity \in Nat \ {0} /\ Start \in Nat
      /\ Start + NumTokens <= MaxSeqLen /\ NumTokens <= BatchCapacity
    BY Chunk
<1>2. t \in Tokens
    BY <1>1 DEF Iterations, Tokens, Names
<1>3. \A i \in Tokens : i \in 0 .. BatchCapacity - 1  BY <1>1 DEF Tokens
<1>4. \A w \in Nat \ {0} : \A h \in 0 .. w - 1 : (t * w) + h \in 0 .. (BatchCapacity * w) - 1
    BY <1>1, <1>2, <1>3, Offsets
<1>5. \A p \in 0 .. MaxSeqLen - 1 : \A h \in 0 .. KvHeads - 1 :
        CacheAt(p, h) \in 0 .. (MaxSeqLen * KvHeads) - 1
    BY <1>1, Offsets DEF CacheAt
<1>6. /\ QueryRow(t) \subseteq 0 .. (BatchCapacity * Heads) - 1
      /\ KeyRow(t) \subseteq 0 .. (BatchCapacity * KvHeads) - 1
    BY <1>1, <1>4 DEF QueryRow, KeyRow, QueryAt, KeyAt
<1>a. CASE name \in {"attnNorm", "mlpNorm", "gate", "up", "down", "residual", "finalResidual"}
    BY <1>a, <1>2, <1>3 DEF Reads, Writes, At, Size
<1>b. CASE name = "silu"
    BY <1>b, <1>3 DEF Reads, Writes, At, Size
<1>c. CASE name \in {"projectQ", "qNorm"}
    <2>1. head \in 0 .. Heads - 1  BY <1>c DEF Iterations
    <2>2. QueryAt(t, head) \in 0 .. (BatchCapacity * Heads) - 1  BY <2>1, <1>1, <1>4 DEF QueryAt
    <2> QED BY <1>c, <2>2, <1>2, <1>3 DEF Reads, Writes, At, Size
<1>d. CASE name \in {"projectK", "projectV", "kNorm"}
    <2>1. head \in 0 .. KvHeads - 1  BY <1>d DEF Iterations
    <2>2. KeyAt(t, head) \in 0 .. (BatchCapacity * KvHeads) - 1  BY <2>1, <1>1, <1>4 DEF KeyAt
    <2> QED BY <1>d, <2>2, <1>2, <1>3 DEF Reads, Writes, At, Size
<1>e. CASE name \in {"rope", "projectOut"}
    BY <1>e, <1>2, <1>3, <1>6 DEF Reads, Writes, At, Size
<1>f. CASE name = "store"
    <2>1. Start + t \in 0 .. MaxSeqLen - 1  BY <1>1, <1>2 DEF Tokens
    <2>2. CacheRow(Start + t) \subseteq 0 .. (MaxSeqLen * KvHeads) - 1
        BY <2>1, <1>5 DEF CacheRow
    <2> QED BY <1>f, <2>2, <1>6 DEF Reads, Writes, At, Size
<1>g. CASE name = "attend"
    <2>1. head \in 0 .. Heads - 1  BY <1>g DEF Iterations
    <2>2. QueryAt(t, head) \in 0 .. (BatchCapacity * Heads) - 1  BY <2>1, <1>1, <1>4 DEF QueryAt
    <2>3. \A n \in 0 .. KvLen(t) - 1 : n \in 0 .. MaxSeqLen - 1  BY <1>1, <1>2 DEF KvLen, Tokens
    <2>4. KvHead(head) \in 0 .. KvHeads - 1
        BY <2>1, <1>1, ChunkAssumption, Grouped DEF KvHead
    <2>5. CacheRead(t, head) \subseteq 0 .. (MaxSeqLen * KvHeads) - 1
        BY <2>3, <2>4, <1>5 DEF CacheRead
    <2>6. ScoresAt(t, head) \subseteq 0 .. (BatchCapacity * Heads * MaxSeqLen) - 1
        <3>1. BatchCapacity * Heads \in Nat  BY <1>1
        <3>2. \A n \in 0 .. MaxSeqLen - 1 :
                (QueryAt(t, head) * MaxSeqLen) + n \in 0 .. (BatchCapacity * Heads * MaxSeqLen) - 1
            BY <3>1, <2>2, <1>1, Offsets
        <3> QED BY <3>2, <2>3 DEF ScoresAt, QueryAt
    <2> QED BY <1>g, <2>2, <2>5, <2>6 DEF Reads, Writes, At, Size
<1> QED BY <1>a, <1>b, <1>c, <1>d, <1>e, <1>f, <1>g DEF Names

(* What an iteration writes, no other iteration of the loop reads or writes. *)
LEMMA IterationsApart ==
    ASSUME NEW name \in Names, NEW it \in Iterations(name), NEW jt \in Iterations(name), it # jt
    PROVE  Writes(name, it) \cap (Reads(name, jt) \cup Writes(name, jt)) = {}
<1>1. /\ Heads \in Nat \ {0} /\ KvHeads \in Nat \ {0} /\ MaxSeqLen \in Nat \ {0}
      /\ NumTokens \in Nat \ {0} /\ Start \in Nat /\ Start + NumTokens <= MaxSeqLen
    BY Chunk
<1> DEFINE t == it[1]  head == it[2]  u == jt[1]  other == jt[2]
<1>2. t \in Tokens /\ u \in Tokens /\ t \in Nat /\ u \in Nat
    BY <1>1 DEF Iterations, Tokens, Names
<1>3. \A w \in Nat \ {0} : \A g, h \in 0 .. w - 1 : (t * w) + g = (u * w) + h => t = u /\ g = h
    BY <1>1, <1>2, Offsets
<1>a. CASE name \in {"attnNorm", "mlpNorm", "gate", "up", "down", "residual", "finalResidual"}
    <2>1. t # u  BY <1>a DEF Iterations
    <2> QED BY <1>a, <2>1 DEF Reads, Writes, At
<1>b. CASE name = "silu"
    BY <1>b DEF Iterations
<1>c. CASE name \in {"projectQ", "qNorm"}
    <2>1. head \in 0 .. Heads - 1 /\ other \in 0 .. Heads - 1 /\ (t # u \/ head # other)
        BY <1>c DEF Iterations
    <2>2. QueryAt(t, head) # QueryAt(u, other)  BY <2>1, <1>1, <1>3 DEF QueryAt
    <2> QED BY <1>c, <2>2 DEF Reads, Writes, At
<1>d. CASE name \in {"projectK", "projectV", "kNorm"}
    <2>1. head \in 0 .. KvHeads - 1 /\ other \in 0 .. KvHeads - 1 /\ (t # u \/ head # other)
        BY <1>d DEF Iterations
    <2>2. KeyAt(t, head) # KeyAt(u, other)  BY <2>1, <1>1, <1>3 DEF KeyAt
    <2> QED BY <1>d, <2>2 DEF Reads, Writes, At
<1>e. CASE name \in {"rope", "store", "projectOut"}
    <2>1. t # u  BY <1>e DEF Iterations
    <2>2. QueryRow(t) \cap QueryRow(u) = {} /\ KeyRow(t) \cap KeyRow(u) = {}
        <3>1. \A g, h \in 0 .. Heads - 1 : (t * Heads) + g # (u * Heads) + h
            BY <2>1, <1>1, <1>3
        <3>2. \A g, h \in 0 .. KvHeads - 1 : (t * KvHeads) + g # (u * KvHeads) + h
            BY <2>1, <1>1, <1>3
        <3> QED BY <3>1, <3>2, Zenon DEF QueryRow, KeyRow, QueryAt, KeyAt
    <2>3. CacheRow(Start + t) \cap CacheRow(Start + u) = {}
        <3> DEFINE p == Start + t  q == Start + u
        <3>1. \A a, b \in Nat : /\ Start + a \in Nat
                                /\ a # b => Start + a # Start + b
            BY <1>1
        <3>2. p \in Nat /\ q \in Nat /\ p # q  BY <3>1, <2>1, <1>2, Zenon
        <3> HIDE DEF p, q
        <3>3. \A g, h \in 0 .. KvHeads - 1 : (p * KvHeads) + g # (q * KvHeads) + h
            BY <3>2, <1>1, Offsets
        <3>4. CacheRow(p) \cap CacheRow(q) = {}  BY <3>3, Zenon DEF CacheRow, CacheAt
        <3> QED BY <3>4 DEF p, q
    <2> QED BY <1>e, <2>1, <2>2, <2>3 DEF Reads, Writes, At
<1>f. CASE name = "attend"
    <2>1. head \in 0 .. Heads - 1 /\ other \in 0 .. Heads - 1 /\ (t # u \/ head # other)
        BY <1>f DEF Iterations
    <2>2. QueryAt(t, head) # QueryAt(u, other) /\ QueryAt(t, head) \in Nat /\ QueryAt(u, other) \in Nat
        <3>1. t * Heads \in Nat /\ u * Heads \in Nat  BY <1>1, <1>2
        <3>2. QueryAt(t, head) # QueryAt(u, other)  BY <2>1, <1>1, <1>3 DEF QueryAt
        <3> QED BY <2>1, <3>1, <3>2 DEF QueryAt
    <2>3. \A n, m \in 0 .. MaxSeqLen - 1 :
            (QueryAt(t, head) * MaxSeqLen) + n # (QueryAt(u, other) * MaxSeqLen) + m
        BY <2>2, <1>1, Offsets
    <2>4. \A v \in Tokens : \A n \in 0 .. KvLen(v) - 1 : n \in 0 .. MaxSeqLen - 1
        BY <1>1 DEF KvLen, Tokens
    <2>5. ScoresAt(t, head) \cap ScoresAt(u, other) = {}
        BY <2>3, <2>4, <1>2 DEF ScoresAt, QueryAt
    <2> QED BY <1>f, <2>2, <2>5 DEF Reads, Writes, At
<1> QED BY <1>a, <1>b, <1>c, <1>d, <1>e, <1>f DEF Names

-----------------------------------------------------------------------------
(***************************************************************************)
(* The inductive invariant: workers execute iterations of the current loop *)
(* only, and no iteration is taken twice.                                  *)
(***************************************************************************)
TeamInv ==
    /\ loop \in 1 .. Len(Loops)
    /\ todo \subseteq Iterations(Name)
    /\ running \in [Workers -> Iterations(Name) \cup {Idle}]
    /\ \A w \in Workers : running[w] # Idle =>
           /\ running[w] \notin todo
           /\ \A u \in Workers : w # u => running[w] # running[u]

LEMMA TeamInvAlways == Spec => []TeamInv
<1>1. Init => TeamInv
    BY Chunk DEF Init, TeamInv, Name
<1>2. TeamInv /\ [Next]_vars => TeamInv'
    <2> SUFFICES ASSUME TeamInv, [Next]_vars PROVE TeamInv'  OBVIOUS
    <2>1. ASSUME NEW w \in Workers, NEW it \in todo, Take(w, it) PROVE TeamInv'
        BY <2>1 DEF Take, TeamInv, Name
    <2>2. ASSUME NEW w \in Workers, Execute(w) PROVE TeamInv'
        BY <2>2 DEF Execute, TeamInv, Name
    <2>3. CASE Barrier
        BY <2>3, Chunk DEF Barrier, TeamInv, Name
    <2>4. CASE Returned \/ UNCHANGED vars
        BY <2>4 DEF Returned, vars, TeamInv, Name
    <2> QED BY <2>1, <2>2, <2>3, <2>4 DEF Next
<1> QED BY <1>1, <1>2, PTL DEF Spec

(***************************************************************************)
(* Whatever iterations the workers of a team of any size have taken, what  *)
(* one writes no other one reads or writes.                                *)
(***************************************************************************)
THEOREM TeamRaceFree == Spec => []RaceFree
<1>1. TeamInv => RaceFree
    <2> SUFFICES ASSUME TeamInv, NEW w \in Workers, NEW u \in Workers, w # u,
                        running[w] # Idle, running[u] # Idle
                 PROVE  Writes(Name, running[w]) \cap
                          (Reads(Name, running[u]) \cup Writes(Name, running[u])) = {}
        BY DEF RaceFree
    <2>1. Name \in Names  BY Chunk, ElementOfSeq DEF TeamInv, Name
    <2>2. running[w] \in Iterations(Name) /\ running[u] \in Iterations(Name) /\ running[w] # running[u]
        BY DEF TeamInv
    <2> QED BY <2>1, <2>2, IterationsApart
<1> QED BY <1>1, TeamInvAlways, PTL

(***************************************************************************)
(* Every access of every iteration stays within the buffers of State and   *)
(* Block, up to a chunk that fills both the batch and the cache.           *)
(***************************************************************************)
THEOREM TeamInBounds == Spec => []InBounds
<1>1. TeamInv => InBounds
    <2> SUFFICES ASSUME TeamInv, NEW w \in Workers, running[w] # Idle,
                        NEW l \in Reads(Name, running[w]) \cup Writes(Name, running[w])
                 PROVE  l.index \in 0 .. Size[l.buffer] - 1
        BY DEF InBounds
    <2>1. Name \in Names  BY Chunk, ElementOfSeq DEF TeamInv, Name
    <2>2. running[w] \in Iterations(Name)  BY DEF TeamInv
    <2> QED BY <2>1, <2>2, IterationWithin
<1> QED BY <1>1, TeamInvAlways, PTL

-----------------------------------------------------------------------------
(***************************************************************************)
(* What the chunk's part of each buffer holds.  Before loop i of the       *)
(* function an element holds Held(i, l), the name of the loop that wrote   *)
(* it last; scores are only ever used within an iteration.                 *)
(***************************************************************************)
Part(b) ==
    CASE b \in {"x", "norm", "projected", "lin1", "lin2"} -> Tokens
      [] b \in {"q", "out"} -> 0 .. (NumTokens * Heads) - 1
      [] b \in {"k", "v"} -> 0 .. (NumTokens * KvHeads) - 1
      [] b \in {"cacheK", "cacheV"} -> 0 .. ((Start + NumTokens) * KvHeads) - 1
Claimed == {l \in [buffer : Buffers \ {"scores"}, index : Nat] : l.index \in Part(l.buffer)}

Held(i, l) ==
    CASE l.buffer = "x" -> IF i <= 11 THEN "input" ELSE "residual"
      [] l.buffer = "norm" -> IF i <= 1 THEN "garbage" ELSE IF i <= 12 THEN "attnNorm" ELSE "mlpNorm"
      [] l.buffer = "q" -> IF i <= 2 THEN "garbage" ELSE IF i <= 5 THEN "projectQ"
                           ELSE IF i <= 7 THEN "qNorm" ELSE "rope"
      [] l.buffer = "k" -> IF i <= 3 THEN "garbage" ELSE IF i <= 6 THEN "projectK"
                           ELSE IF i <= 7 THEN "kNorm" ELSE "rope"
      [] l.buffer = "v" -> IF i <= 4 THEN "garbage" ELSE "projectV"
      [] l.buffer \in {"cacheK", "cacheV"} ->
           IF l.index < Start * KvHeads THEN "earlier" ELSE IF i <= 8 THEN "garbage" ELSE "store"
      [] l.buffer = "out" -> IF i <= 9 THEN "garbage" ELSE "attend"
      [] l.buffer = "projected" -> IF i <= 10 THEN "garbage" ELSE IF i <= 16 THEN "projectOut" ELSE "down"
      [] l.buffer = "lin1" -> IF i <= 13 THEN "garbage" ELSE IF i <= 15 THEN "gate" ELSE "silu"
      [] l.buffer = "lin2" -> IF i <= 14 THEN "garbage" ELSE "up"

(* The iterations of the current loop that have been executed. *)
Executed == Iterations(Name) \ (todo \cup {running[w] : w \in Workers})

(***************************************************************************)
(* The second part of the inductive invariant: an element holds the name   *)
(* of the current loop once its iteration has been executed, and until     *)
(* then what it held before the loop; an executed query has read the rows  *)
(* of its own and earlier positions.                                       *)
(***************************************************************************)
MemoryInv ==
    /\ DOMAIN memory = Buffers
    /\ \A b \in Buffers : DOMAIN memory[b] = 0 .. Size[b] - 1
    /\ \A l \in Claimed :
           Value(l) = IF \E it \in Executed : l \in Writes(Name, it) THEN Name ELSE Held(loop, l)

SeenInv ==
    /\ DOMAIN seen = Iterations("attend")
    /\ \A it \in Iterations("attend") :
           loop > 9 \/ (loop = 9 /\ it \in Executed) =>
               seen[it] = At("cacheK", CacheRead(it[1], it[2]))

LEMMA LoopOrder ==
    /\ Loops[1] = "attnNorm" /\ Loops[2] = "projectQ" /\ Loops[3] = "projectK"
    /\ Loops[4] = "projectV" /\ Loops[5] = "qNorm" /\ Loops[6] = "kNorm" /\ Loops[7] = "rope"
    /\ Loops[8] = "store" /\ Loops[9] = "attend" /\ Loops[10] = "projectOut"
    /\ Loops[11] = "residual" /\ Loops[12] = "mlpNorm" /\ Loops[13] = "gate" /\ Loops[14] = "up"
    /\ Loops[15] = "silu" /\ Loops[16] = "down" /\ Loops[17] = "finalResidual"
BY DEF Loops

LEMMA BufferNames ==
    Buffers = {"x", "norm", "projected", "q", "out", "lin1", "lin2", "k", "v", "cacheK", "cacheV", "scores"}
BY DEF Buffers, Size

(* An element is in the chunk's part when its offset is. *)
LEMMA ClaimedAt ==
    ASSUME NEW b \in Buffers \ {"scores"}, NEW S, S \subseteq Part(b), NEW l \in At(b, S)
    PROVE  l \in Claimed /\ l.buffer = b /\ l.index \in S
<1>1. Part(b) \subseteq Nat
    <2>1. NumTokens * Heads \in Nat /\ NumTokens * KvHeads \in Nat /\ (Start + NumTokens) * KvHeads \in Nat
        BY Chunk
    <2> QED BY <2>1, Chunk, BufferNames DEF Part, Tokens
<1> QED BY <1>1 DEF At, Claimed

(* The chunk's part of a buffer is inside it. *)
LEMMA ClaimedWithin ==
    ASSUME NEW l \in Claimed
    PROVE  l.buffer \in Buffers /\ l.index \in 0 .. Size[l.buffer] - 1
<1>0. \A a, c \in Nat : a <= c => 0 .. a - 1 \subseteq 0 .. c - 1  OBVIOUS
<1>1. \A w \in Nat \ {0} : /\ NumTokens * w <= BatchCapacity * w /\ NumTokens * w \in Nat
                           /\ (Start + NumTokens) * w <= MaxSeqLen * w /\ (Start + NumTokens) * w \in Nat
                           /\ BatchCapacity * w \in Nat /\ MaxSeqLen * w \in Nat
    <2> TAKE w \in Nat \ {0}
    <2>1. \A a, c \in Nat : a <= c => a * w <= c * w /\ a * w \in Nat /\ c * w \in Nat  OBVIOUS
    <2> QED BY <2>1, Chunk
<1>2. /\ Part("x") \subseteq 0 .. Size["x"] - 1
      /\ Part("norm") \subseteq 0 .. Size["norm"] - 1
      /\ Part("projected") \subseteq 0 .. Size["projected"] - 1
      /\ Part("lin1") \subseteq 0 .. Size["lin1"] - 1
      /\ Part("lin2") \subseteq 0 .. Size["lin2"] - 1
    BY Chunk DEF Part, Tokens, Size
<1>3. Part("q") \subseteq 0 .. Size["q"] - 1 /\ Part("out") \subseteq 0 .. Size["out"] - 1
    <2>1. Size["q"] = BatchCapacity * Heads /\ Size["out"] = BatchCapacity * Heads  BY DEF Size
    <2>2. Part("q") = 0 .. (NumTokens * Heads) - 1 /\ Part("out") = 0 .. (NumTokens * Heads) - 1
        BY DEF Part
    <2>3. Heads \in Nat \ {0}  BY Chunk
    <2> QED BY <2>1, <2>2, <2>3, <1>0, <1>1, Zenon
<1>4. Part("k") \subseteq 0 .. Size["k"] - 1 /\ Part("v") \subseteq 0 .. Size["v"] - 1
    <2>1. Size["k"] = BatchCapacity * KvHeads /\ Size["v"] = BatchCapacity * KvHeads  BY DEF Size
    <2>2. Part("k") = 0 .. (NumTokens * KvHeads) - 1 /\ Part("v") = 0 .. (NumTokens * KvHeads) - 1
        BY DEF Part
    <2>3. KvHeads \in Nat \ {0}  BY Chunk
    <2> QED BY <2>1, <2>2, <2>3, <1>0, <1>1, Zenon
<1>5. Part("cacheK") \subseteq 0 .. Size["cacheK"] - 1 /\ Part("cacheV") \subseteq 0 .. Size["cacheV"] - 1
    <2>1. Size["cacheK"] = MaxSeqLen * KvHeads /\ Size["cacheV"] = MaxSeqLen * KvHeads  BY DEF Size
    <2>2. Part("cacheK") = 0 .. ((Start + NumTokens) * KvHeads) - 1 /\ Part("cacheV") = 0 .. ((Start + NumTokens) * KvHeads) - 1
        BY DEF Part
    <2>3. KvHeads \in Nat \ {0}  BY Chunk
    <2> QED BY <2>1, <2>2, <2>3, <1>0, <1>1, Zenon
<1> QED BY <1>2, <1>3, <1>4, <1>5, BufferNames DEF Claimed

(* What an iteration reads is in the chunk's part of a buffer, and holds   *)
(* before its loop what the loop expects.                                  *)
LEMMA ReadsHeld ==
    ASSUME NEW i \in 1 .. 17, NEW it \in Iterations(Loops[i]), NEW l \in Reads(Loops[i], it)
    PROVE  l \in Claimed /\ Source(Loops[i], l) = Held(i, l)
<1> DEFINE t == it[1]  head == it[2]
<1>1. /\ NumTokens \in Nat \ {0} /\ Heads \in Nat \ {0} /\ KvHeads \in Nat \ {0} /\ Start \in Nat
    BY Chunk
<1>2. t \in Tokens /\ {t} \subseteq Tokens
    BY <1>1, LoopOrder DEF Iterations, Tokens
<1>3. \A w \in Nat \ {0} : \A h \in 0 .. w - 1 : (t * w) + h \in 0 .. (NumTokens * w) - 1
    BY <1>1, <1>2, Offsets DEF Tokens
<1>4. QueryRow(t) \subseteq Part("q") /\ QueryRow(t) \subseteq Part("out")
    BY <1>1, <1>3 DEF QueryRow, QueryAt, Part
<1>5. KeyRow(t) \subseteq Part("k") /\ KeyRow(t) \subseteq Part("v")
    BY <1>1, <1>3 DEF KeyRow, KeyAt, Part
<1>6. \A b \in {"x", "norm", "projected", "lin1", "lin2"} : Part(b) = Tokens  BY DEF Part
<1>7. /\ i \in {1, 12} => l \in At("x", {t})
      /\ i \in {2, 3, 4, 13, 14} => l \in At("norm", {t})
      /\ i = 5 => l \in At("q", {QueryAt(t, head)})
      /\ i = 6 => l \in At("k", {KeyAt(t, head)})
      /\ i = 7 => l \in At("q", QueryRow(t)) \cup At("k", KeyRow(t))
      /\ i = 8 => l \in At("k", KeyRow(t)) \cup At("v", KeyRow(t))
      /\ i = 9 => l \in At("q", {QueryAt(t, head)})
                  \cup At("cacheK", CacheRead(t, head)) \cup At("cacheV", CacheRead(t, head))
      /\ i = 10 => l \in At("out", QueryRow(t))
      /\ i \in {11, 17} => l \in At("x", {t}) \cup At("projected", {t})
      /\ i = 15 => l \in At("lin1", Tokens) \cup At("lin2", Tokens)
      /\ i = 16 => l \in At("lin1", {t})
    BY LoopOrder DEF Reads
<1>8. \A b \in {"x", "norm", "projected", "lin1", "lin2"} :
        l \in At(b, {t}) \cup At(b, Tokens) => l \in Claimed /\ l.buffer = b
    BY <1>2, <1>6, ClaimedAt, BufferNames
<1>9. /\ l \in At("q", QueryRow(t)) => l \in Claimed /\ l.buffer = "q"
      /\ l \in At("out", QueryRow(t)) => l \in Claimed /\ l.buffer = "out"
      /\ l \in At("k", KeyRow(t)) => l \in Claimed /\ l.buffer = "k"
      /\ l \in At("v", KeyRow(t)) => l \in Claimed /\ l.buffer = "v"
    BY <1>4, <1>5, ClaimedAt, BufferNames
<1>a. CASE i \in {1, 2, 3, 4, 11, 12, 13, 14, 15, 16, 17}
    BY <1>a, <1>7, <1>8, LoopOrder DEF Source, Held
<1>b. CASE i \in {7, 8, 10}
    BY <1>b, <1>7, <1>9, LoopOrder DEF Source, Held
<1>c. CASE i = 5 \/ i = 9
    <2>1. head \in 0 .. Heads - 1  BY <1>c, LoopOrder DEF Iterations
    <2>2. {QueryAt(t, head)} \subseteq Part("q")  BY <2>1, <1>1, <1>3 DEF QueryAt, Part
    <2>3. l \in At("q", {QueryAt(t, head)}) => l \in Claimed /\ l.buffer = "q"
        BY <2>2, ClaimedAt, BufferNames
    <2>4. CASE i = 5
        BY <2>3, <2>4, <1>7, LoopOrder DEF Source, Held
    <2>5. CASE i = 9
        <3>1. \A p \in 0 .. (Start + NumTokens) - 1 : \A h \in 0 .. KvHeads - 1 :
                CacheAt(p, h) \in 0 .. ((Start + NumTokens) * KvHeads) - 1
            BY <1>1, Offsets DEF CacheAt
        <3>2. KvHead(head) \in 0 .. KvHeads - 1
            BY <2>1, <1>1, ChunkAssumption, Grouped DEF KvHead
        <3>3. \A n \in 0 .. KvLen(t) - 1 : n \in 0 .. (Start + NumTokens) - 1
            BY <1>1, <1>2 DEF KvLen, Tokens
        <3>4. CacheRead(t, head) \subseteq Part("cacheK") /\ CacheRead(t, head) \subseteq Part("cacheV")
            BY <3>1, <3>2, <3>3 DEF CacheRead, Part
        <3>5. \A b \in {"cacheK", "cacheV"} :
                l \in At(b, CacheRead(t, head)) => l \in Claimed /\ l.buffer = b
            BY <3>4, ClaimedAt, BufferNames
        <3> QED BY <3>5, <2>3, <2>5, <1>7, LoopOrder DEF Source, Held
    <2> QED BY <1>c, <2>4, <2>5
<1>d. CASE i = 6
    <2>1. head \in 0 .. KvHeads - 1  BY <1>d, LoopOrder DEF Iterations
    <2>2. {KeyAt(t, head)} \subseteq Part("k")  BY <2>1, <1>1, <1>3 DEF KeyAt, Part
    <2>3. l \in At("k", {KeyAt(t, head)}) => l \in Claimed /\ l.buffer = "k"
        BY <2>2, ClaimedAt, BufferNames
    <2> QED BY <2>3, <1>d, <1>7, LoopOrder DEF Source, Held
<1> QED BY <1>a, <1>b, <1>c, <1>d

(* The elements of the chunk's part that a loop writes: all those of the   *)
(* buffers it writes, and of the caches the rows from Start on.            *)
WrittenIn(i, l) ==
    \/ i \in {1, 12} /\ l.buffer = "norm"
    \/ i \in {2, 5, 7} /\ l.buffer = "q"
    \/ i \in {3, 6, 7} /\ l.buffer = "k"
    \/ i = 4 /\ l.buffer = "v"
    \/ i = 8 /\ l.buffer \in {"cacheK", "cacheV"} /\ l.index >= Start * KvHeads
    \/ i = 9 /\ l.buffer = "out"
    \/ i \in {10, 16} /\ l.buffer = "projected"
    \/ i \in {11, 17} /\ l.buffer = "x"
    \/ i \in {13, 15} /\ l.buffer = "lin1"
    \/ i = 14 /\ l.buffer = "lin2"

LEMMA LoopWrites ==
    ASSUME NEW i \in 1 .. 17, NEW l \in Claimed
    PROVE  (\E it \in Iterations(Loops[i]) : l \in Writes(Loops[i], it)) <=> WrittenIn(i, l)
<1> DEFINE n == l.index  b == l.buffer
<1>1. /\ NumTokens \in Nat \ {0} /\ Heads \in Nat \ {0} /\ KvHeads \in Nat \ {0} /\ Start \in Nat
    BY Chunk
<1>2. n \in Nat /\ n \in Part(b) /\ b \in Buffers \ {"scores"} /\ l = [buffer |-> b, index |-> n]
    BY DEF Claimed
<1>3. \A c, S : l \in At(c, S) <=> b = c /\ n \in S  BY <1>2 DEF At
<1>4. /\ \A t \in Tokens : <<t, 0>> \in Tokens \X {0} /\ <<t, 0>>[1] = t
      /\ \A w \in Nat : \A t \in Tokens, h \in 0 .. w - 1 :
           <<t, h>> \in Tokens \X (0 .. w - 1) /\ <<t, h>>[1] = t /\ <<t, h>>[2] = h
      /\ 0 \in Tokens
    BY <1>1 DEF Tokens
<1>5. \A w \in Nat \ {0} : n < NumTokens * w =>
        \E t \in Tokens, h \in 0 .. w - 1 : n = (t * w) + h
    BY <1>1, <1>2, QuotientBound DEF Tokens
<1>a. CASE i \in {1, 12, 10, 16, 11, 17, 13, 14}
    <2>1. Iterations(Loops[i]) = Tokens \X {0}
        BY <1>a, LoopOrder DEF Iterations
    <2>2. \A it : l \in Writes(Loops[i], it) <=> WrittenIn(i, l) /\ n = it[1]
        BY <1>a, <1>3, LoopOrder DEF Writes, WrittenIn
    <2>3. WrittenIn(i, l) => n \in Tokens
        BY <1>a, <1>2 DEF WrittenIn, Part
    <2> QED BY <2>1, <2>2, <2>3, <1>4
<1>b. CASE i = 15
    <2>1. Iterations(Loops[i]) = {<<0, 0>>} /\ Writes(Loops[i], <<0, 0>>) = At("lin1", Tokens)
        BY <1>b, LoopOrder DEF Iterations, Writes
    <2>2. b = "lin1" => n \in Tokens  BY <1>2 DEF Part
    <2> QED BY <1>b, <2>1, <2>2, <1>3 DEF WrittenIn
<1>c. CASE i \in {2, 5, 9}
    <2>1. Iterations(Loops[i]) = Tokens \X (0 .. Heads - 1)
        BY <1>c, LoopOrder DEF Iterations
    <2>2. \A it : l \in Writes(Loops[i], it) <=> WrittenIn(i, l) /\ n = QueryAt(it[1], it[2])
        BY <1>c, <1>2, <1>3, LoopOrder DEF Writes, WrittenIn
    <2>3. WrittenIn(i, l) => n < NumTokens * Heads
        <3>1. WrittenIn(i, l) => b = "q" \/ b = "out"  BY <1>c DEF WrittenIn
        <3>2. Part("q") = 0 .. (NumTokens * Heads) - 1 /\ Part("out") = 0 .. (NumTokens * Heads) - 1
            BY DEF Part
        <3>3. NumTokens * Heads \in Nat  BY <1>1
        <3> QED BY <3>1, <3>2, <3>3, <1>2
    <2>4. ASSUME WrittenIn(i, l) PROVE \E it \in Iterations(Loops[i]) : l \in Writes(Loops[i], it)
        <3>1. PICK t \in Tokens, h \in 0 .. Heads - 1 : n = (t * Heads) + h
            BY <2>3, <2>4, <1>1, <1>5
        <3>2. <<t, h>> \in Iterations(Loops[i]) /\ n = QueryAt(<<t, h>>[1], <<t, h>>[2])
            BY <2>1, <3>1 DEF QueryAt
        <3> QED BY <2>2, <2>4, <3>2
    <2> QED BY <2>2, <2>4
<1>d. CASE i \in {3, 4, 6}
    <2>1. Iterations(Loops[i]) = Tokens \X (0 .. KvHeads - 1)
        BY <1>d, LoopOrder DEF Iterations
    <2>2. \A it : l \in Writes(Loops[i], it) <=> WrittenIn(i, l) /\ n = KeyAt(it[1], it[2])
        BY <1>d, <1>3, LoopOrder DEF Writes, WrittenIn
    <2>3. WrittenIn(i, l) => n < NumTokens * KvHeads
        <3>1. WrittenIn(i, l) => b = "k" \/ b = "v"  BY <1>d DEF WrittenIn
        <3>2. Part("k") = 0 .. (NumTokens * KvHeads) - 1 /\ Part("v") = 0 .. (NumTokens * KvHeads) - 1
            BY DEF Part
        <3>3. NumTokens * KvHeads \in Nat  BY <1>1
        <3> QED BY <3>1, <3>2, <3>3, <1>2
    <2>4. ASSUME WrittenIn(i, l) PROVE \E it \in Iterations(Loops[i]) : l \in Writes(Loops[i], it)
        <3>1. PICK t \in Tokens, h \in 0 .. KvHeads - 1 : n = (t * KvHeads) + h
            BY <2>3, <2>4, <1>1, <1>5
        <3>2. <<t, h>> \in Iterations(Loops[i]) /\ n = KeyAt(<<t, h>>[1], <<t, h>>[2])
            BY <2>1, <3>1 DEF KeyAt
        <3> QED BY <2>2, <2>4, <3>2
    <2> QED BY <2>2, <2>4
<1>e. CASE i = 7
    <2>1. Iterations(Loops[i]) = Tokens \X {0}
        BY <1>e, LoopOrder DEF Iterations
    <2>2. \A it : l \in Writes(Loops[i], it) <=>
                    \/ b = "q" /\ n \in QueryRow(it[1])
                    \/ b = "k" /\ n \in KeyRow(it[1])
        BY <1>e, <1>3, LoopOrder DEF Writes
    <2>3. b = "q" => \E t \in Tokens : n \in QueryRow(t)
        <3>1. Part("q") = 0 .. (NumTokens * Heads) - 1 /\ NumTokens * Heads \in Nat
            BY <1>1 DEF Part
        <3>2. b = "q" => n < NumTokens * Heads  BY <3>1, <1>2
        <3>3. b = "q" => \E t \in Tokens, h \in 0 .. Heads - 1 : n = (t * Heads) + h
            BY <3>2, <1>1, <1>5
        <3> QED BY <3>3 DEF QueryRow, QueryAt
    <2>4. b = "k" => \E t \in Tokens : n \in KeyRow(t)
        <3>1. Part("k") = 0 .. (NumTokens * KvHeads) - 1 /\ NumTokens * KvHeads \in Nat
            BY <1>1 DEF Part
        <3>2. b = "k" => n < NumTokens * KvHeads  BY <3>1, <1>2
        <3>3. b = "k" => \E t \in Tokens, h \in 0 .. KvHeads - 1 : n = (t * KvHeads) + h
            BY <3>2, <1>1, <1>5
        <3> QED BY <3>3 DEF KeyRow, KeyAt
    <2>5. WrittenIn(i, l) <=> b = "q" \/ b = "k"  BY <1>e DEF WrittenIn
    <2> QED BY <2>1, <2>2, <2>3, <2>4, <2>5, <1>4
<1>f. CASE i = 8
    <2>1. Iterations(Loops[i]) = Tokens \X {0}
        BY <1>f, LoopOrder DEF Iterations
    <2>2. \A it : l \in Writes(Loops[i], it) <=>
                    b \in {"cacheK", "cacheV"} /\ n \in CacheRow(Start + it[1])
        BY <1>f, <1>3, LoopOrder DEF Writes
    <2>3. ASSUME NEW t \in Tokens, n \in CacheRow(Start + t) PROVE n >= Start * KvHeads
        <3>1. PICK h \in 0 .. KvHeads - 1 : n = ((Start + t) * KvHeads) + h
            BY <2>3 DEF CacheRow, CacheAt
        <3>2. (Start + t) * KvHeads >= Start * KvHeads  BY <1>1 DEF Tokens
        <3>3. Start * KvHeads \in Nat /\ (Start + t) * KvHeads \in Nat  BY <1>1 DEF Tokens
        <3> QED BY <3>1, <3>2, <3>3, <1>1
    <2>4. ASSUME b \in {"cacheK", "cacheV"}, n >= Start * KvHeads
          PROVE  \E t \in Tokens : n \in CacheRow(Start + t)
        <3>1. Part(b) = 0 .. ((Start + NumTokens) * KvHeads) - 1 /\ (Start + NumTokens) * KvHeads \in Nat
            <4>1. Part("cacheK") = 0 .. ((Start + NumTokens) * KvHeads) - 1
                BY DEF Part
            <4>2. Part("cacheV") = 0 .. ((Start + NumTokens) * KvHeads) - 1
                BY DEF Part
            <4>3. (Start + NumTokens) * KvHeads \in Nat  BY <1>1
            <4> QED BY <4>1, <4>2, <4>3, <2>4
        <3>2. /\ n \div KvHeads \in 0 .. (Start + NumTokens) - 1 /\ n % KvHeads \in 0 .. KvHeads - 1
              /\ n = ((n \div KvHeads) * KvHeads) + (n % KvHeads)
            <4>1. n \in Nat /\ n < (Start + NumTokens) * KvHeads  BY <3>1, <1>2
            <4>2. Start + NumTokens \in Nat  BY <1>1
            <4> QED BY <4>1, <4>2, <1>1, QuotientBound
        <3> DEFINE p == n \div KvHeads
        <3>3. p >= Start
            <4> HIDE DEF p
            <4>1. p \in Nat  BY <3>2 DEF p
            <4>2. SUFFICES ASSUME p + 1 <= Start PROVE FALSE  BY <4>1, <1>1
            <4>3. (p + 1) * KvHeads <= Start * KvHeads  BY <4>1, <4>2, <1>1
            <4>4. (p + 1) * KvHeads = (p * KvHeads) + KvHeads /\ p * KvHeads \in Nat  BY <4>1, <1>1
            <4>5. Start * KvHeads \in Nat  BY <1>1
            <4> QED BY <4>3, <4>4, <4>5, <3>2, <2>4, <1>1 DEF p
        <3>4. p - Start \in Tokens /\ Start + (p - Start) = p
            BY <3>2, <3>3, <1>1 DEF Tokens
        <3>5. n \in CacheRow(p)  BY <3>2 DEF CacheRow, CacheAt
        <3> QED BY <3>4, <3>5
    <2>5. WrittenIn(i, l) <=> b \in {"cacheK", "cacheV"} /\ n >= Start * KvHeads
        BY <1>f DEF WrittenIn
    <2> QED BY <2>1, <2>2, <2>3, <2>4, <2>5, <1>4
<1> QED BY <1>a, <1>b, <1>c, <1>d, <1>e, <1>f

(* What a loop writes is what the next one finds. *)
LEMMA HeldNext ==
    ASSUME NEW i \in 1 .. 16, NEW l \in Claimed
    PROVE  Held(i + 1, l) = IF WrittenIn(i, l) THEN Loops[i] ELSE Held(i, l)
<1>1. Start * KvHeads \in Nat /\ l.index \in Nat  BY Chunk DEF Claimed
<1>2. l.buffer \in {"x", "norm", "projected", "q", "out", "lin1", "lin2", "k", "v", "cacheK", "cacheV"}
    BY BufferNames DEF Claimed
<1>3. CASE i \in {1, 2, 3, 4}  BY <1>1, <1>2, <1>3, LoopOrder DEF Held, WrittenIn
<1>4. CASE i \in {5, 6, 7, 8}  BY <1>1, <1>2, <1>4, LoopOrder DEF Held, WrittenIn
<1>5. CASE i \in {9, 10, 11, 12}  BY <1>1, <1>2, <1>5, LoopOrder DEF Held, WrittenIn
<1>6. CASE i \in {13, 14, 15, 16}  BY <1>1, <1>2, <1>6, LoopOrder DEF Held, WrittenIn
<1> QED BY <1>3, <1>4, <1>5, <1>6

-----------------------------------------------------------------------------
(* The attention of a row reads the positions up to its own: its offsets   *)
(* into a cache are those of one key/value head of every such row.         *)
LEMMA PositionsRead ==
    ASSUME NEW it \in Iterations("attend")
    PROVE  {l.index \div KvHeads : l \in At("cacheK", CacheRead(it[1], it[2]))} = 0 .. Start + it[1]
<1> DEFINE t == it[1]  head == KvHead(it[2])
<1>1. t \in Tokens /\ it[2] \in 0 .. Heads - 1  BY DEF Iterations
<1>2. head \in 0 .. KvHeads - 1 /\ KvHeads \in Nat \ {0} /\ t \in Nat /\ Start \in Nat
    <2>1. /\ KvHeads \in Nat \ {0} /\ Start \in Nat /\ Heads \in Nat \ {0} /\ NumTokens \in Nat \ {0}
          /\ Heads % KvHeads = 0
        BY Chunk, ChunkAssumption
    <2>2. head \in 0 .. KvHeads - 1  BY <1>1, <2>1, Grouped DEF KvHead
    <2>3. t \in Nat  BY <1>1, <2>1 DEF Tokens
    <2> QED BY <2>1, <2>2, <2>3
<1> HIDE DEF t, head
<1>3. \A p \in Nat : CacheAt(p, head) \div KvHeads = p
    BY <1>2, QuotientOfOffset DEF CacheAt
<1>4. KvLen(t) - 1 = Start + t  BY <1>2 DEF KvLen
<1>5. At("cacheK", CacheRead(t, it[2])) =
        {[buffer |-> "cacheK", index |-> CacheAt(p, head)] : p \in 0 .. Start + t}
    BY <1>4 DEF At, CacheRead, head
<1>6. \A p \in 0 .. Start + t : p \in Nat  BY <1>2
<1>7. {l.index \div KvHeads : l \in At("cacheK", CacheRead(t, it[2]))} = 0 .. Start + t
    <2> DEFINE at(p) == [buffer |-> "cacheK", index |-> CacheAt(p, head)]
    <2>1. \A p \in 0 .. Start + t : at(p).index \div KvHeads = p  BY <1>3, <1>6
    <2>2. At("cacheK", CacheRead(t, it[2])) = {at(p) : p \in 0 .. Start + t}  BY <1>5
    <2> HIDE DEF at
    <2>3. ASSUME NEW p \in 0 .. Start + t
          PROVE  p \in {l.index \div KvHeads : l \in At("cacheK", CacheRead(t, it[2]))}
        <3>1. at(p) \in At("cacheK", CacheRead(t, it[2]))  BY <2>2
        <3> QED BY <3>1, <2>1
    <2>4. ASSUME NEW l \in At("cacheK", CacheRead(t, it[2]))
          PROVE  l.index \div KvHeads \in 0 .. Start + t
        <3>1. PICK p \in 0 .. Start + t : l = at(p)  BY <2>2
        <3> QED BY <3>1, <2>1
    <2> QED BY <2>3, <2>4
<1> QED BY <1>7 DEF t

LEMMA IdleApart == \A name \in Names : Idle \notin Iterations(name)
BY DEF Idle, Iterations, Names

TeamMemoryInv == TeamInv /\ MemoryInv /\ SeenInv

(* The name of the current loop, and what it means to have executed.       *)
LEMMA CurrentLoop ==
    ASSUME TeamInv
    PROVE  loop \in 1 .. 17 /\ Name = Loops[loop] /\ Name \in Names
BY Chunk, ElementOfSeq DEF TeamInv, Name

LEMMA ExecuteKeeps ==
    ASSUME TeamMemoryInv, TeamInv', NEW w \in Workers, Execute(w)
    PROVE  MemoryInv' /\ SeenInv'
<1> DEFINE it == running[w]
<1>1. /\ loop \in 1 .. 17 /\ Name = Loops[loop] /\ Name \in Names /\ Name' = Name /\ loop' = loop
    BY CurrentLoop DEF TeamMemoryInv, Execute, Name
<1>2. it \in Iterations(Name) /\ it \notin Executed
    BY DEF Execute, TeamMemoryInv, TeamInv, Executed
<1>3. Executed' = Executed \cup {it}
    <2>1. todo' = todo /\ running' = [running EXCEPT ![w] = Idle]  BY DEF Execute
    <2>2. {running'[u] : u \in Workers} = {running[u] : u \in Workers \ {w}} \cup {Idle}
        BY <2>1 DEF TeamMemoryInv, TeamInv
    <2>3. it \notin {running[u] : u \in Workers \ {w}} /\ it \notin todo
        BY DEF Execute, TeamMemoryInv, TeamInv
    <2>4. {running[u] : u \in Workers} = {running[u] : u \in Workers \ {w}} \cup {it}  OBVIOUS
    <2>5. Idle \notin Iterations(Name)  BY <1>1, IdleApart
    <2>6. Executed' = Iterations(Name) \ (todo \cup {running'[u] : u \in Workers})
        BY <1>1, <2>1 DEF Executed
    <2> HIDE DEF it
    <2> QED BY <2>2, <2>3, <2>4, <2>5, <2>6, <1>2, Zenon DEF Executed
<1>4. \A l \in Reads(Name, it) : Value(l) = Source(Name, l)
    <2> SUFFICES ASSUME NEW l \in Reads(Name, it) PROVE Value(l) = Source(Name, l)  OBVIOUS
    <2>1. l \in Claimed /\ Source(Name, l) = Held(loop, l)  BY <1>1, <1>2, ReadsHeld
    <2>2. \A jt \in Executed : l \notin Writes(Name, jt)
        BY <1>1, <1>2, IterationsApart DEF Executed
    <2> QED BY <2>1, <2>2 DEF TeamMemoryInv, MemoryInv
<1>5. memory' = [b \in Buffers |-> [n \in 0 .. Size[b] - 1 |->
                   IF [buffer |-> b, index |-> n] \in Writes(Name, it) THEN Name ELSE memory[b][n]]]
    BY <1>4 DEF Execute
<1>6. MemoryInv'
    <2>1. DOMAIN memory' = Buffers /\ \A b \in Buffers : DOMAIN memory'[b] = 0 .. Size[b] - 1
        BY <1>5
    <2>2. ASSUME NEW l \in Claimed
          PROVE  Value(l)' = IF \E jt \in Executed' : l \in Writes(Name, jt) THEN Name ELSE Held(loop, l)
        <3>1. /\ l.buffer \in Buffers /\ l.index \in 0 .. Size[l.buffer] - 1
              /\ l = [buffer |-> l.buffer, index |-> l.index]
            BY ClaimedWithin DEF Claimed
        <3>2. Value(l)' = IF l \in Writes(Name, it) THEN Name ELSE Value(l)
            BY <3>1, <1>5 DEF Value
        <3>3. Value(l) = IF \E jt \in Executed : l \in Writes(Name, jt) THEN Name ELSE Held(loop, l)
            BY DEF TeamMemoryInv, MemoryInv
        <3> QED BY <3>2, <3>3, <1>3
    <2> QED BY <2>1, <2>2, <1>1 DEF MemoryInv
<1>7. SeenInv'
    <2>1. CASE Name = "attend"
        <3>1. loop = 9  BY <2>1, <1>1, LoopOrder
        <3>2. seen' = [seen EXCEPT ![it] = {l \in Reads(Name, it) : l.buffer = "cacheK"}]
            BY <2>1 DEF Execute
        <3>3. {l \in Reads(Name, it) : l.buffer = "cacheK"} = At("cacheK", CacheRead(it[1], it[2]))
            BY <2>1 DEF Reads, At
        <3> HIDE DEF it
        <3> QED BY <3>1, <3>2, <3>3, <2>1, <1>1, <1>2, <1>3 DEF TeamMemoryInv, SeenInv
    <2>2. CASE Name # "attend"
        <3>1. loop # 9 /\ seen' = seen  BY <2>2, <1>1, LoopOrder DEF Execute
        <3> QED BY <3>1, <1>1 DEF TeamMemoryInv, SeenInv
    <2> QED BY <2>1, <2>2
<1> QED BY <1>6, <1>7

LEMMA BarrierKeeps ==
    ASSUME TeamMemoryInv, TeamInv', Barrier
    PROVE  MemoryInv' /\ SeenInv'
<1>1. /\ loop \in 1 .. 16 /\ loop' = loop + 1 /\ Name = Loops[loop] /\ Name' = Loops[loop + 1]
      /\ memory' = memory /\ seen' = seen
    BY CurrentLoop, Chunk DEF TeamMemoryInv, Barrier, Name
<1>2. Executed = Iterations(Name)
    <2>1. Name \in Names  BY CurrentLoop DEF TeamMemoryInv
    <2>2. todo \cup {running[w] : w \in Workers} \subseteq {Idle}  BY DEF Barrier
    <2> QED BY <2>1, <2>2, IdleApart DEF Executed
<1>3. Executed' = {}
    BY <1>1 DEF Barrier, Executed
<1>4. ASSUME NEW l \in Claimed
      PROVE  Value(l) = Held(loop + 1, l)
    <2>1. Value(l) = IF \E it \in Iterations(Loops[loop]) : l \in Writes(Loops[loop], it)
                     THEN Loops[loop] ELSE Held(loop, l)
        BY <1>1, <1>2 DEF TeamMemoryInv, MemoryInv
    <2>2. loop \in 1 .. 17  BY <1>1
    <2> QED BY <2>1, <2>2, <1>1, LoopWrites, HeldNext
<1>5. MemoryInv'
    <2>1. \A l \in Claimed : Value(l)' = Held(loop', l)
        BY <1>1, <1>4 DEF Value
    <2> QED BY <2>1, <1>1, <1>3 DEF TeamMemoryInv, MemoryInv
<1>6. SeenInv'
    <2>1. \A it \in Iterations("attend") : loop' > 9 => loop > 9 \/ (loop = 9 /\ it \in Executed)
        BY <1>1, <1>2, LoopOrder
    <2> QED BY <2>1, <1>1, <1>3 DEF TeamMemoryInv, SeenInv
<1> QED BY <1>5, <1>6

LEMMA TeamMemory == Spec => []TeamMemoryInv
<1>1. Init => TeamMemoryInv
    <2> SUFFICES ASSUME Init PROVE TeamMemoryInv  OBVIOUS
    <2>1. TeamInv  BY Chunk DEF Init, TeamInv, Name
    <2>2. loop = 1 /\ Executed = {}  BY DEF Init, Executed, Name
    <2>3. MemoryInv
        <3>1. DOMAIN memory = Buffers /\ \A b \in Buffers : DOMAIN memory[b] = 0 .. Size[b] - 1
            BY DEF Init
        <3>2. ASSUME NEW l \in Claimed PROVE Value(l) = Held(1, l)
            <4>1. /\ l.buffer \in Buffers /\ l.index \in 0 .. Size[l.buffer] - 1 /\ l.index \in Nat
                  /\ l.buffer # "scores" /\ l.index \in Part(l.buffer)
                BY ClaimedWithin DEF Claimed
            <4>2. Value(l) = IF l.buffer = "x" /\ l.index < NumTokens THEN "input"
                             ELSE IF l.buffer \in {"cacheK", "cacheV"} /\ l.index < Start * KvHeads
                             THEN "earlier" ELSE "garbage"
                BY <4>1 DEF Init, Value
            <4>3. l.buffer = "x" => l.index < NumTokens
                BY <4>1, Chunk DEF Part, Tokens
            <4> QED BY <4>1, <4>2, <4>3, BufferNames DEF Held
        <3> QED BY <3>1, <3>2, <2>2 DEF MemoryInv
    <2>4. SeenInv  BY <2>2 DEF Init, SeenInv
    <2> QED BY <2>1, <2>3, <2>4 DEF TeamMemoryInv
<1>2. TeamInv /\ TeamInv' /\ TeamMemoryInv /\ [Next]_vars => TeamMemoryInv'
    <2> SUFFICES ASSUME TeamInv', TeamMemoryInv, [Next]_vars PROVE MemoryInv' /\ SeenInv'
        BY DEF TeamMemoryInv
    <2>1. ASSUME NEW w \in Workers, NEW it \in todo, Take(w, it) PROVE MemoryInv' /\ SeenInv'
        <3>1. /\ loop' = loop /\ memory' = memory /\ seen' = seen /\ Name' = Name
              /\ todo' = todo \ {it} /\ running' = [running EXCEPT ![w] = it]
            BY <2>1 DEF Take, Name
        <3>2. running[w] = Idle /\ Idle \notin Iterations(Name)
            BY <2>1, CurrentLoop, IdleApart DEF Take, TeamMemoryInv
        <3>3. {running'[u] : u \in Workers} = {running[u] : u \in Workers \ {w}} \cup {it}
            BY <3>1 DEF TeamMemoryInv, TeamInv
        <3>4. {running[u] : u \in Workers} = {running[u] : u \in Workers \ {w}} \cup {Idle}
            BY <3>2
        <3>5. Executed' = Iterations(Name) \ (todo' \cup {running'[u] : u \in Workers})
            BY <3>1 DEF Executed
        <3>6. Executed' = Executed
            BY <3>1, <3>2, <3>3, <3>4, <3>5, Zenon DEF Executed
        <3>7. \A l : Value(l)' = Value(l)  BY <3>1 DEF Value
        <3> QED BY <3>1, <3>6, <3>7 DEF TeamMemoryInv, MemoryInv, SeenInv
    <2>2. ASSUME NEW w \in Workers, Execute(w) PROVE MemoryInv' /\ SeenInv'
        BY <2>2, ExecuteKeeps
    <2>3. CASE Barrier
        BY <2>3, BarrierKeeps
    <2>4. CASE Returned \/ UNCHANGED vars
        BY <2>4 DEF Returned, vars, TeamMemoryInv, MemoryInv, SeenInv, Value, Executed, Name
    <2> QED BY <2>1, <2>2, <2>3, <2>4 DEF Next
<1> QED BY <1>1, <1>2, TeamInvAlways, PTL DEF Spec

(***************************************************************************)
(* When ForwardPrefillCPU returns, every row of the chunk has gone through *)
(* every loop in order, its keys and values are in the caches, and every   *)
(* query has read exactly the positions up to its own.                     *)
(***************************************************************************)
THEOREM TeamChunkAtOnce == Spec => []ChunkAtOnce
<1>1. TeamMemoryInv => ChunkAtOnce
    <2> SUFFICES ASSUME TeamMemoryInv, Done PROVE ChunkAtOnce  BY DEF ChunkAtOnce
    <2>1. loop = 17 /\ Name = Loops[17] /\ Executed = Iterations(Name)
        <3>1. todo \cup {running[w] : w \in Workers} \subseteq {Idle}  BY DEF Done
        <3> QED BY <3>1, CurrentLoop, Chunk, IdleApart DEF Done, TeamMemoryInv, Executed
    <2>2. \A l \in Claimed : Value(l) = IF WrittenIn(17, l) THEN Loops[17] ELSE Held(17, l)
        BY <2>1, LoopWrites DEF TeamMemoryInv, MemoryInv
    <2>3. \A t \in Tokens : memory.x[t] = "finalResidual"
        <3> TAKE t \in Tokens
        <3>1. [buffer |-> "x", index |-> t] \in Claimed
            BY Chunk, BufferNames DEF Claimed, Part, Tokens
        <3> QED BY <3>1, <2>2, LoopOrder DEF Value, WrittenIn
    <2>4. \A n \in 0 .. ((Start + NumTokens) * KvHeads) - 1 :
            memory.cacheK[n] = IF n < Start * KvHeads THEN "earlier" ELSE "store"
        <3> TAKE n \in 0 .. ((Start + NumTokens) * KvHeads) - 1
        <3>1. (Start + NumTokens) * KvHeads \in Nat  BY Chunk
        <3>2. Part("cacheK") = 0 .. ((Start + NumTokens) * KvHeads) - 1  BY DEF Part
        <3>3. n \in Nat  BY <3>1
        <3>4. [buffer |-> "cacheK", index |-> n] \in Claimed
            BY <3>2, <3>3, BufferNames DEF Claimed
        <3> QED BY <3>4, <2>2 DEF Value, WrittenIn, Held
    <2>5. \A it \in Iterations("attend") : {l.index \div KvHeads : l \in seen[it]} = 0 .. Start + it[1]
        BY <2>1, PositionsRead DEF TeamMemoryInv, SeenInv
    <2> QED BY <2>3, <2>4, <2>5 DEF ChunkAtOnce
<1> QED BY <1>1, TeamMemory, PTL
=============================================================================
