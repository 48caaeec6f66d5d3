--------------------------- MODULE Reductions_proof ---------------------------
(***************************************************************************)
(* Proofs about the kernels of infer.cu whose threads share memory or a    *)
(* grid, for every block of a power of two of threads, every size the      *)
(* configuration may have and every logit, however the threads of a block  *)
(* are interleaved and in whatever order the blocks run:                   *)
(*                                                                         *)
(*   - argmax_kernel answers the index the CPU would;                      *)
(*   - softmax_rows_kernel divides by a sum that counts each exponential   *)
(*     of the row once;                                                    *)
(*   - matmul_tiled and matvec_warp store the products of matmul_cpu;      *)
(*   - qk_norm_rope_cache_kernel and rotate_sink_tokens_kernel leave the   *)
(*     heads that rmsnorm_cpu and rope_cpu leave, and turn together the    *)
(*     elements whose rows the checkpoint pairs.                           *)
(*                                                                         *)
(* The reductions rest on the same two facts.  The barriers keep the       *)
(* threads within one round of each other, and threads in the same round   *)
(* have the same stride (ArgmaxLockStep, SoftmaxLockStep, LockStep).  With *)
(* w slots still active, slot t < w stands for the elements whose index is *)
(* t modulo w, and the slot a partner will read once more, w <= t < 2 * w, *)
(* for those that are t modulo 2 * w (Covered, Summed, HeadSlot).          *)
(*                                                                         *)
(* The stores rest on one more: each element of a buffer has one thread of *)
(* one block that writes it, and holds what that thread stores once it has *)
(* returned, and what it held before until then (ProductStores,            *)
(* HeadsStored, SinksStored).                                              *)
(***************************************************************************)
EXTENDS ArgmaxKernel, SoftmaxRows, KernelThreads, Lemmas_proof

(* A block is a power of two of threads, numbered from 0. *)
LEMMA Blocks ==
    /\ PowerOfTwo(BlockDim)
    /\ BlockDim \in Nat \ {0}
    /\ BlockDim \div 2 \in Nat
    /\ \A t \in Threads : t \in Nat /\ t < BlockDim
BY BlockDimAssumption DEF PowerOfTwo, Threads
-----------------------------------------------------------------------------
(***************************************************************************)
(* argmax_kernel.                                                          *)
(***************************************************************************)

Candidates == [value : Int, index : Int]

ArgmaxTypeOK ==
    /\ count \in Nat \ {0}
    /\ values \in [Indices -> Nat]
    /\ pc \in [Threads -> {"scan", "reduce", "done"}]
    /\ next \in [Threads -> Nat]
    /\ best \in [Threads -> Candidates]
    /\ stride \in [Threads -> Nat]
    /\ arrived \in [Threads -> Nat]
    /\ shared \in [Threads -> Candidates]
    /\ out \in Int

(* The stride of a thread that has reached one barrier more than t. *)
ArgmaxNextRound(t, s) ==
    IF arrived[t] = 0
    THEN s = BlockDim \div 2
    ELSE stride[t] > 0 /\ s = stride[t] \div 2

(* Where two threads stand, seen from t. *)
ArgmaxLockStep(t, u) ==
    /\ arrived[u] <= arrived[t] + 1
    /\ arrived[u] = arrived[t] => stride[u] = stride[t]
    /\ arrived[u] = arrived[t] + 1 => ArgmaxNextRound(t, stride[u])

ArgmaxRounds ==
    /\ \A t \in Threads :
          /\ pc[t] = "scan" <=> arrived[t] = 0
          /\ pc[t] = "scan" => stride[t] = BlockDim \div 2
          /\ Halved(BlockDim, stride[t])
    /\ \A t, u \in Threads : ArgmaxLockStep(t, u)

(* No logit counted in S would replace the candidate x. *)
Unbeaten(x, S) == \A n \in S : ~Better(Found(values[n], n), x)

(* The indices that are t modulo w. *)
ArgmaxClass(w, t) == {n \in Indices : n % w = t}

(* A candidate is not larger than the logit it names. *)
Named(x) == x.index \in Indices /\ x.value <= values[x.index]

Scanned(t) ==
    /\ next[t] % BlockDim = t
    /\ Named(best[t])
    /\ Unbeaten(best[t], {n \in ArgmaxClass(BlockDim, t) : n < next[t]})

Covered(x, w, t) ==
    /\ Named(x)
    /\ t < w => Unbeaten(x, ArgmaxClass(w, t))
    /\ w <= t /\ t < 2 * w => Unbeaten(x, ArgmaxClass(2 * w, t))

ArgmaxSlots ==
    \A t \in Threads : IF pc[t] = "scan"
                       THEN Scanned(t)
                       ELSE Covered(shared[t], Width(stride[t]), t)

(* The inductive invariant. *)
ArgmaxInv == ArgmaxTypeOK /\ ArgmaxRounds /\ ArgmaxSlots /\ MatchesGreedy
-----------------------------------------------------------------------------
(* The larger of two candidates is beaten by nothing that loses to either. *)
LEMMA Larger ==
    ASSUME NEW x \in Candidates, NEW y \in Candidates, NEW f \in Candidates,
           ~Better(f, x) \/ ~Better(f, y)
    PROVE  ~Better(f, IF Better(y, x) THEN y ELSE x)
BY DEF Candidates, Better

(* What a thread finds at an index is a candidate. *)
LEMMA FoundType == \A v, n \in Int : Found(v, n) \in Candidates
BY DEF Found, Candidates

(* The logits are integers. *)
LEMMA LogitType ==
    ASSUME ArgmaxTypeOK, NEW n \in Indices
    PROVE  n \in Nat /\ values[n] \in Nat /\ Found(values[n], n) \in Candidates
<1>1. n \in Nat /\ values[n] \in Nat  BY DEF ArgmaxTypeOK, Indices
<1> QED BY <1>1, FoundType

(* What both of two candidates leave unbeaten, the larger leaves unbeaten. *)
LEMMA Merged ==
    ASSUME ArgmaxTypeOK, NEW x \in Candidates, NEW y \in Candidates, Named(x), Named(y),
           NEW z, z = (IF Better(y, x) THEN y ELSE x)
    PROVE  /\ z \in Candidates /\ Named(z)
           /\ \A S, T : S \subseteq Indices /\ T \subseteq Indices
                          /\ Unbeaten(x, S) /\ Unbeaten(y, T) => Unbeaten(z, S \cup T)
<1>1. ASSUME NEW n \in Indices, ~Better(Found(values[n], n), x) \/ ~Better(Found(values[n], n), y)
      PROVE  ~Better(Found(values[n], n), z)
    BY <1>1, LogitType, Larger
<1>2. z \in Candidates /\ Named(z)  OBVIOUS
<1>3. ASSUME NEW S, NEW T, S \subseteq Indices, T \subseteq Indices,
             Unbeaten(x, S), Unbeaten(y, T)
      PROVE  Unbeaten(z, S \cup T)
    BY <1>1, <1>3, Zenon DEF Unbeaten
<1> QED BY <1>2, <1>3

(* The candidate no logit beats is the index std::max_element returns. *)
LEMMA Largest ==
    ASSUME ArgmaxTypeOK, NEW x \in Candidates, Named(x), Unbeaten(x, Indices)
    PROVE  x.index = Greedy
<1>1. x.index \in Indices /\ x.index \in Nat /\ x.value \in Int  BY LogitType DEF Named, Candidates
<1>2. ASSUME NEW m \in Indices
      PROVE  values[m] <= x.value /\ (values[m] = x.value => x.index <= m)
    <2>1. ~Better(Found(values[m], m), x)  BY DEF Unbeaten
    <2>2. m \in Nat /\ values[m] \in Nat  BY LogitType
    <2> QED BY <1>1, <2>1, <2>2 DEF Better, Found
<1>3. values[x.index] = x.value
    <2>1. values[x.index] \in Nat  BY <1>1, LogitType
    <2>2. values[x.index] <= x.value /\ x.value <= values[x.index]
        BY <1>1, <1>2 DEF Named
    <2> QED BY <1>1, <2>1, <2>2
<1> DEFINE First(n) == /\ \A m \in Indices : values[m] <= values[n]
                       /\ \A m \in Indices : values[m] = values[n] => n <= m
<1>4. First(x.index)  BY <1>2, <1>3
<1>5. ASSUME NEW n \in Indices, First(n) PROVE n = x.index
    <2>1. values[n] <= values[x.index] /\ values[x.index] <= values[n]  BY <1>1, <1>4, <1>5
    <2>2. n \in Nat /\ values[n] \in Nat /\ values[x.index] \in Nat  BY <1>1, LogitType
    <2>3. values[n] = values[x.index]  BY <2>1, <2>2
    <2>4. n <= x.index /\ x.index <= n  BY <1>1, <1>4, <1>5, <2>3
    <2> QED BY <1>1, <2>2, <2>4
<1>6. Greedy = CHOOSE n \in Indices : First(n)  BY DEF Greedy
<1> HIDE DEF First
<1>7. x.index = CHOOSE n \in Indices : First(n)  BY <1>1, <1>4, <1>5
<1> QED BY <1>6, <1>7
-----------------------------------------------------------------------------
(* The invariant of argmax_kernel before any thread has run. *)
LEMMA ArgmaxBegins == ArgmaxInit => ArgmaxInv
<1> SUFFICES ASSUME ArgmaxInit PROVE ArgmaxInv
    OBVIOUS
<1>1. ArgmaxTypeOK
    <2>1. count \in Nat \ {0}  BY MaxCountAssumption DEF ArgmaxInit
    <2>2. values \in [Indices -> Nat]
        <3>1. 0 .. MaxLogit \subseteq Nat  BY MaxLogitAssumption
        <3> QED BY <3>1 DEF ArgmaxInit
    <2>3. BlockDim \div 2 \in Nat  BY Blocks
    <2>4. \A t \in Threads : t \in Nat  BY Blocks
    <2>5. Found(Lowest, 0) \in Candidates /\ Found(Lowest, -1) \in Candidates
        BY FoundType DEF Lowest
    <2>6. next \in [Threads -> Nat]  BY <2>4 DEF ArgmaxInit
    <2>7. stride \in [Threads -> Nat]  BY <2>3 DEF ArgmaxInit
    <2>8. best \in [Threads -> Candidates] /\ shared \in [Threads -> Candidates]
        BY <2>5 DEF ArgmaxInit
    <2> QED BY <2>1, <2>2, <2>6, <2>7, <2>8 DEF ArgmaxInit, ArgmaxTypeOK
<1>2. ArgmaxRounds
    <2>1. Halved(BlockDim, BlockDim \div 2)  BY Blocks, FirstStride
    <2>2. \A t \in Threads : pc[t] = "scan" /\ arrived[t] = 0 /\ stride[t] = BlockDim \div 2
        BY DEF ArgmaxInit
    <2> QED BY <2>1, <2>2 DEF ArgmaxRounds, ArgmaxLockStep, ArgmaxNextRound
<1>3. ASSUME NEW t \in Threads PROVE pc[t] = "scan" /\ Scanned(t)
    <2>1. pc[t] = "scan" /\ next[t] = t /\ best[t] = Found(0, 0)  BY DEF ArgmaxInit, Lowest
    <2>2. t % BlockDim = t  BY Blocks
    <2>3. Named(Found(0, 0))
        <3>1. 0 \in Indices  BY <1>1 DEF ArgmaxTypeOK, Indices
        <3>2. values[0] \in Nat  BY <1>1, <3>1 DEF ArgmaxTypeOK
        <3> QED BY <3>1, <3>2 DEF Named, Found
    <2>4. ASSUME NEW n \in ArgmaxClass(BlockDim, t) PROVE ~(n < t)
        <3>1. n \in Nat /\ n % BlockDim = t /\ t \in Nat  BY Blocks DEF ArgmaxClass, Indices
        <3>2. n < BlockDim => n % BlockDim = n  BY <3>1, Blocks
        <3> QED BY <3>1, <3>2, Blocks
    <2> QED BY <2>1, <2>2, <2>3, <2>4 DEF Scanned, Unbeaten
<1>4. MatchesGreedy  BY DEF ArgmaxInit, MatchesGreedy
<1> QED BY <1>1, <1>2, <1>3, <1>4 DEF ArgmaxInv, ArgmaxSlots

(* A thread's slot and strides as a step of another thread leaves them. *)
LEMMA ArgmaxOthersKept ==
    ASSUME ArgmaxTypeOK, ArgmaxSlots, NEW t \in Threads, NEW u \in Threads, u # t,
           UNCHANGED <<count, values>>, pc'[u] = pc[u], next'[u] = next[u],
           best'[u] = best[u], stride'[u] = stride[u], shared'[u] = shared[u]
    PROVE  IF pc'[u] = "scan" THEN Scanned(u)' ELSE Covered(shared[u], Width(stride[u]), u)'
<1>1. Indices' = Indices  BY DEF Indices
<1>2. CASE pc[u] = "scan"
    <2>1. Scanned(u)  BY <1>2 DEF ArgmaxSlots
    <2> QED BY <1>1, <1>2, <2>1 DEF Scanned, Named, Unbeaten, ArgmaxClass
<1>3. CASE pc[u] # "scan"
    <2>1. Covered(shared[u], Width(stride[u]), u)  BY <1>3 DEF ArgmaxSlots
    <2> QED BY <1>1, <1>3, <2>1 DEF Covered, Named, Unbeaten, ArgmaxClass, Width
<1> QED BY <1>2, <1>3

(***************************************************************************)
(* A thread moves on to the next round, on its own at the first barrier    *)
(* and with all others at or past its round at the later ones.             *)
(***************************************************************************)
LEMMA ArgmaxRoundsAdvance ==
    ASSUME ArgmaxTypeOK, ArgmaxTypeOK', ArgmaxRounds, NEW t \in Threads,
           arrived' = [arrived EXCEPT ![t] = @ + 1], pc'[t] # "scan",
           \A u \in Threads : u # t => pc'[u] = pc[u] /\ stride'[u] = stride[u],
           Open(t), ArgmaxNextRound(t, stride'[t])
    PROVE  ArgmaxRounds'
<1> DEFINE a == arrived[t]
<1>1. /\ a \in Nat /\ arrived'[t] = a + 1
      /\ \A u \in Threads : arrived[u] \in Nat /\ stride[u] \in Nat
      /\ \A u \in Threads : u # t => arrived'[u] = arrived[u]
    BY DEF ArgmaxTypeOK
<1>2. Halved(BlockDim, stride'[t])
    <2>1. CASE a = 0
        BY <2>1, Blocks, FirstStride DEF ArgmaxNextRound
    <2>2. CASE a # 0
        <3>1. stride[t] \in Nat \ {0} /\ Halved(BlockDim, stride[t]) /\ stride'[t] = stride[t] \div 2
            BY <2>2, <1>1 DEF ArgmaxNextRound, ArgmaxRounds
        <3> QED BY <3>1, Blocks, NextStride
    <2> QED BY <2>1, <2>2
<1>3. ASSUME NEW u \in Threads
      PROVE  /\ pc'[u] = "scan" <=> arrived'[u] = 0
             /\ pc'[u] = "scan" => stride'[u] = BlockDim \div 2
             /\ Halved(BlockDim, stride'[u])
    <2>1. CASE u = t
        BY <2>1, <1>1, <1>2
    <2>2. CASE u # t
        BY <2>2, <1>1 DEF ArgmaxRounds
    <2> QED BY <2>1, <2>2
<1>4. ASSUME NEW u \in Threads, NEW v \in Threads PROVE ArgmaxLockStep(u, v)'
    <2>1. CASE u = t /\ v = t
        BY <2>1, <1>1 DEF ArgmaxLockStep
    <2>2. CASE u # t /\ v # t
        <3>1. ArgmaxLockStep(u, v)  BY DEF ArgmaxRounds
        <3> QED BY <3>1, <2>2, <1>1 DEF ArgmaxLockStep, ArgmaxNextRound
    <2>3. CASE u = t /\ v # t
        <3>1. ArgmaxLockStep(t, v) /\ arrived[v] >= a  BY <2>3 DEF ArgmaxRounds, Open
        <3>2. arrived[v] = a + 1 => stride[v] = stride'[t]
            BY <3>1 DEF ArgmaxLockStep, ArgmaxNextRound
        <3> QED BY <2>3, <1>1, <3>1, <3>2 DEF ArgmaxLockStep
    <2>4. CASE u # t /\ v = t
        <3>1. ArgmaxLockStep(t, u) /\ arrived[u] >= a  BY <2>4 DEF ArgmaxRounds, Open
        <3>2. arrived[u] = a \/ arrived[u] = a + 1  BY <1>1, <3>1 DEF ArgmaxLockStep
        <3>3. CASE arrived[u] = a
            <4>1. stride[u] = stride[t]  BY <3>1, <3>3 DEF ArgmaxLockStep
            <4>2. ArgmaxNextRound(u, stride'[t])  BY <3>3, <4>1 DEF ArgmaxNextRound
            <4>3. ArgmaxNextRound(u, stride[t])'  BY <4>2, <2>4, <1>1 DEF ArgmaxNextRound
            <4> QED BY <2>4, <1>1, <3>3, <4>3 DEF ArgmaxLockStep
        <3>4. CASE arrived[u] = a + 1
            <4>1. stride[u] = stride'[t]  BY <3>1, <3>4 DEF ArgmaxLockStep, ArgmaxNextRound
            <4> QED BY <2>4, <1>1, <3>4, <4>1 DEF ArgmaxLockStep
        <3> QED BY <3>2, <3>3, <3>4
    <2> QED BY <2>1, <2>2, <2>3, <2>4
<1> QED BY <1>3, <1>4 DEF ArgmaxRounds

(* A thread that has not published holds the others back at the barrier. *)
LEMMA FirstBarrier ==
    ASSUME ArgmaxTypeOK, ArgmaxRounds, NEW t \in Threads, pc[t] = "scan"
    PROVE  Open(t) /\ arrived[t] = 0 /\ stride[t] = BlockDim \div 2
BY DEF ArgmaxTypeOK, ArgmaxRounds, Open

(* A thread looks at its next logit. *)
LEMMA ScanKeeps ==
    ASSUME ArgmaxInv, NEW t \in Threads, Scan(t)
    PROVE  ArgmaxInv'
<1> USE DEF ArgmaxInv
<1>1. t \in Nat /\ pc[t] = "scan" /\ next[t] \in Nat /\ next[t] < count /\ count \in Nat
    BY Blocks DEF Scan, ArgmaxTypeOK
<1> DEFINE k == next[t]  seen == Found(values[k], k)
<1>2. k \in Indices  BY <1>1 DEF Indices
<1>3. /\ UNCHANGED <<count, values, pc, stride, arrived, shared, out>>
      /\ best' = [best EXCEPT ![t] = IF Better(seen, best[t]) THEN seen ELSE best[t]]
      /\ next' = [next EXCEPT ![t] = k + BlockDim]
    BY DEF Scan
<1>4. Indices' = Indices  BY <1>3 DEF Indices
<1>5. Scanned(t)  BY <1>1 DEF ArgmaxSlots
<1>6. seen \in Candidates /\ Named(seen) /\ best[t] \in Candidates /\ Named(best[t])
    <2>1. seen \in Candidates /\ values[k] \in Nat  BY <1>2, LogitType
    <2>2. Named(seen)  BY <1>2, <2>1 DEF Named, Found
    <2> QED BY <2>1, <2>2, <1>5 DEF Scanned, ArgmaxTypeOK
<1>7. /\ best'[t] \in Candidates /\ Named(best'[t])
      /\ \A S, T : S \subseteq Indices /\ T \subseteq Indices
                     /\ Unbeaten(best[t], S) /\ Unbeaten(seen, T) => Unbeaten(best'[t], S \cup T)
    <2>1. best'[t] = IF Better(seen, best[t]) THEN seen ELSE best[t]  BY <1>3 DEF ArgmaxTypeOK
    <2> HIDE DEF seen
    <2> QED BY <2>1, <1>6, Merged
<1>8. ArgmaxTypeOK'
    <2>1. next' \in [Threads -> Nat]
        <3>1. k + BlockDim \in Nat  BY <1>1, Blocks
        <3> QED BY <3>1, <1>3 DEF ArgmaxTypeOK
    <2>2. best' \in [Threads -> Candidates]
        BY <1>3, <1>6 DEF ArgmaxTypeOK
    <2> QED BY <2>1, <2>2, <1>3, <1>4 DEF ArgmaxTypeOK
<1>9. ArgmaxRounds'
    BY <1>3 DEF ArgmaxRounds, ArgmaxLockStep, ArgmaxNextRound
<1>10. Scanned(t)'
    <2>1. next'[t] = k + BlockDim  BY <1>3 DEF ArgmaxTypeOK
    <2>2. (k + BlockDim) % BlockDim = t
        BY <1>1, <1>5, Blocks, RemainderOfSum DEF Scanned
    <2> DEFINE S == {n \in ArgmaxClass(BlockDim, t) : n < k}
    <2>3. {n \in ArgmaxClass(BlockDim, t) : n < k + BlockDim} \subseteq S \cup {k}
        <3> SUFFICES ASSUME NEW n \in ArgmaxClass(BlockDim, t), n < k + BlockDim, ~(n < k)
                     PROVE  n = k
            OBVIOUS
        <3>1. n \in Nat /\ n % BlockDim = t /\ k % BlockDim = t
            BY <1>5 DEF ArgmaxClass, Indices, Scanned
        <3>2. k <= n /\ k \in Nat /\ BlockDim \in Nat \ {0}  BY <3>1, <1>1, Blocks
        <3> HIDE DEF k
        <3> QED BY <3>1, <3>2, NextOfClass
    <2>4. Unbeaten(best[t], S) /\ Unbeaten(seen, {k})
        <3>1. Unbeaten(best[t], S)  BY <1>5 DEF Scanned
        <3>2. ~Better(seen, seen)
            <4>1. seen.value \in Int /\ seen.index \in Int  BY <1>6 DEF Candidates
            <4> QED BY <4>1 DEF Better
        <3> QED BY <3>1, <3>2 DEF Unbeaten
    <2>5. S \subseteq Indices /\ {k} \subseteq Indices  BY <1>2 DEF ArgmaxClass
    <2>6. Unbeaten(best'[t], S \cup {k})  BY <1>7, <2>4, <2>5
    <2>7. Unbeaten(best'[t], {n \in ArgmaxClass(BlockDim, t) : n < k + BlockDim})
        <3> HIDE DEF S
        <3> QED BY <2>3, <2>6 DEF Unbeaten
    <2> HIDE DEF k
    <2> QED BY <1>3, <1>4, <1>7, <2>1, <2>2, <2>7 DEF Scanned, Named, Unbeaten, ArgmaxClass
<1>11. ArgmaxSlots'
    <2>1. ASSUME NEW u \in Threads, u # t
          PROVE  IF pc'[u] = "scan" THEN Scanned(u)' ELSE Covered(shared[u], Width(stride[u]), u)'
        <3>1. next'[u] = next[u] /\ best'[u] = best[u]  BY <1>3, <2>1 DEF ArgmaxTypeOK
        <3> QED BY <1>3, <2>1, <3>1, ArgmaxOthersKept
    <2>2. pc'[t] = "scan"  BY <1>1, <1>3
    <2> QED BY <1>10, <2>1, <2>2 DEF ArgmaxSlots
<1>12. MatchesGreedy'
    BY <1>3, <1>4 DEF MatchesGreedy, Greedy
<1> QED BY <1>8, <1>9, <1>11, <1>12

(* A thread puts its best candidate in its slot and meets the others. *)
LEMMA PublishKeeps ==
    ASSUME ArgmaxInv, NEW t \in Threads, Publish(t)
    PROVE  ArgmaxInv'
<1> USE DEF ArgmaxInv
<1>1. t \in Nat /\ pc[t] = "scan" /\ next[t] \in Nat /\ next[t] >= count /\ count \in Nat
    BY Blocks DEF Publish, ArgmaxTypeOK
<1>2. /\ UNCHANGED <<count, values, next, best, stride, out>>
      /\ shared' = [shared EXCEPT ![t] = best[t]]
      /\ arrived' = [arrived EXCEPT ![t] = @ + 1]
      /\ pc' = [pc EXCEPT ![t] = "reduce"]
    BY DEF Publish, Arrive
<1>3. Indices' = Indices  BY <1>2 DEF Indices
<1>4. Scanned(t)  BY <1>1 DEF ArgmaxSlots
<1>5. ArgmaxTypeOK'  BY <1>2, <1>3 DEF ArgmaxTypeOK
<1>6. Open(t) /\ arrived[t] = 0 /\ stride[t] = BlockDim \div 2  BY <1>1, FirstBarrier
<1>7. ArgmaxRounds'
    <2>1. ArgmaxNextRound(t, stride'[t])  BY <1>2, <1>6 DEF ArgmaxNextRound
    <2>2. pc'[t] # "scan" /\ \A u \in Threads : u # t => pc'[u] = pc[u]  BY <1>2 DEF ArgmaxTypeOK
    <2> QED BY <1>2, <1>5, <1>6, <2>1, <2>2, ArgmaxRoundsAdvance
<1>8. Covered(shared[t], Width(stride[t]), t)'
    <2>1. shared'[t] = best[t] /\ stride'[t] = BlockDim \div 2  BY <1>2, <1>6 DEF ArgmaxTypeOK
    <2>2. Width(stride'[t]) = BlockDim  BY <2>1, Blocks, FirstStride
    <2>3. {n \in ArgmaxClass(BlockDim, t) : n < next[t]} = ArgmaxClass(BlockDim, t)
        <3>1. \A n \in ArgmaxClass(BlockDim, t) : n < next[t]  BY <1>1 DEF ArgmaxClass, Indices
        <3> QED BY <3>1
    <2>4. Named(best[t]) /\ Unbeaten(best[t], ArgmaxClass(BlockDim, t))  BY <1>4, <2>3 DEF Scanned
    <2>5. Covered(best[t], BlockDim, t)
        <3>1. ~(BlockDim <= t)  BY Blocks
        <3> QED BY <2>4, <3>1 DEF Covered
    <2> QED BY <1>2, <1>3, <2>1, <2>2, <2>5 DEF Covered, Named, Unbeaten, ArgmaxClass
<1>9. ArgmaxSlots'
    <2>1. ASSUME NEW u \in Threads, u # t
          PROVE  IF pc'[u] = "scan" THEN Scanned(u)' ELSE Covered(shared[u], Width(stride[u]), u)'
        <3>1. pc'[u] = pc[u] /\ shared'[u] = shared[u]  BY <1>2, <2>1 DEF ArgmaxTypeOK
        <3> QED BY <1>2, <2>1, <3>1, ArgmaxOthersKept
    <2>2. pc'[t] # "scan"  BY <1>2 DEF ArgmaxTypeOK
    <2> QED BY <1>8, <2>1, <2>2 DEF ArgmaxSlots
<1>10. MatchesGreedy'
    BY <1>2, <1>3 DEF MatchesGreedy, Greedy
<1> QED BY <1>5, <1>7, <1>9, <1>10

(* The partner's slot, read in the round t is in, is already covered. *)
LEMMA ArgmaxPartner ==
    ASSUME ArgmaxTypeOK, ArgmaxRounds, ArgmaxSlots, NEW t \in Threads, NEW s, s = stride[t], s > 0,
           pc[t] # "scan", Open(t), t < s
    PROVE  /\ t + s \in Threads
           /\ Named(shared[t + s]) /\ Unbeaten(shared[t + s], ArgmaxClass(2 * s, t + s))
<1> DEFINE u == t + s
<1>1. t \in Nat /\ s \in Nat \ {0} /\ Halved(BlockDim, s)  BY Blocks DEF ArgmaxTypeOK, ArgmaxRounds
<1>2. 2 * s <= BlockDim /\ Width(s \div 2) = s  BY <1>1, Blocks, NextStride
<1>3. u \in Threads  BY <1>1, <1>2, Blocks DEF Threads
<1>4. arrived[t] \in Nat /\ arrived[u] \in Nat /\ arrived[t] # 0  BY <1>3 DEF ArgmaxTypeOK, ArgmaxRounds
<1>5. ArgmaxLockStep(t, u) /\ arrived[u] >= arrived[t]  BY <1>3 DEF ArgmaxRounds, Open
<1>6. arrived[u] = arrived[t] \/ arrived[u] = arrived[t] + 1  BY <1>4, <1>5 DEF ArgmaxLockStep
<1>7. pc[u] # "scan"  BY <1>3, <1>4, <1>6 DEF ArgmaxRounds
<1>8. Covered(shared[u], Width(stride[u]), u)  BY <1>3, <1>7 DEF ArgmaxSlots
<1>9. CASE arrived[u] = arrived[t]
    <2>1. stride[u] = s  BY <1>5, <1>9 DEF ArgmaxLockStep
    <2>2. Width(stride[u]) = 2 * s /\ u < 2 * s  BY <2>1, <1>1 DEF Width
    <2> HIDE DEF u
    <2>3. Covered(shared[u], 2 * s, u)  BY <1>8, <2>2
    <2>4. Named(shared[u]) /\ Unbeaten(shared[u], ArgmaxClass(2 * s, u))  BY <2>2, <2>3 DEF Covered
    <2> QED BY <1>3, <2>4 DEF u
<1>10. CASE arrived[u] = arrived[t] + 1
    <2>1. stride[u] = s \div 2  BY <1>4, <1>5, <1>10 DEF ArgmaxLockStep, ArgmaxNextRound
    <2>2. Width(stride[u]) = s /\ s <= u /\ u < 2 * s  BY <2>1, <1>1, <1>2
    <2> HIDE DEF u
    <2>3. Covered(shared[u], s, u)  BY <1>8, <2>2
    <2>4. Named(shared[u]) /\ Unbeaten(shared[u], ArgmaxClass(2 * s, u))  BY <2>2, <2>3 DEF Covered
    <2> QED BY <1>3, <2>4 DEF u
<1> QED BY <1>6, <1>9, <1>10

(* A round of the reduction. *)
LEMMA ReduceKeeps ==
    ASSUME ArgmaxInv, NEW t \in Threads, ReduceBest(t)
    PROVE  ArgmaxInv'
<1> USE DEF ArgmaxInv
<1>1. PICK s : s = stride[t]  OBVIOUS
<1>2. t \in Nat /\ pc[t] = "reduce" /\ s \in Nat \ {0} /\ Halved(BlockDim, s) /\ Open(t)
    BY <1>1, Blocks DEF ReduceBest, ArgmaxTypeOK, ArgmaxRounds
<1>3. 2 * s <= BlockDim /\ Width(s \div 2) = s /\ s \div 2 \in Nat
    BY <1>2, Blocks, NextStride DEF Halved
<1>4. /\ UNCHANGED <<count, values, pc, next, best, out>>
      /\ shared' = IF t < s /\ Better(shared[t + s], shared[t])
                     THEN [shared EXCEPT ![t] = shared[t + s]] ELSE shared
      /\ stride' = [stride EXCEPT ![t] = s \div 2]
      /\ arrived' = [arrived EXCEPT ![t] = @ + 1]
    BY <1>1 DEF ReduceBest, Arrive
<1>5. Indices' = Indices  BY <1>4 DEF Indices
<1>6. Covered(shared[t], 2 * s, t)
    <2>1. Width(s) = 2 * s  BY <1>2 DEF Width
    <2> QED BY <1>1, <1>2, <2>1 DEF ArgmaxSlots
<1>7. shared[t] \in Candidates /\ Named(shared[t])  BY <1>6 DEF Covered, ArgmaxTypeOK
<1>8. t < s => /\ t + s \in Threads /\ shared[t + s] \in Candidates
               /\ Named(shared[t + s]) /\ Unbeaten(shared[t + s], ArgmaxClass(2 * s, t + s))
    BY <1>1, <1>2, ArgmaxPartner DEF ArgmaxTypeOK
<1>9. /\ shared'[t] = IF t < s /\ Better(shared[t + s], shared[t])
                        THEN shared[t + s] ELSE shared[t]
      /\ \A u \in Threads : u # t => shared'[u] = shared[u]
    BY <1>4 DEF ArgmaxTypeOK
<1>10. ArgmaxTypeOK'
    <2>1. shared' \in [Threads -> Candidates]
        BY <1>4, <1>8 DEF ArgmaxTypeOK
    <2>2. stride' \in [Threads -> Nat] /\ arrived' \in [Threads -> Nat]
        BY <1>3, <1>4 DEF ArgmaxTypeOK
    <2> QED BY <2>1, <2>2, <1>4, <1>5 DEF ArgmaxTypeOK
<1>11. ArgmaxRounds'
    <2>1. arrived[t] # 0 /\ stride'[t] = s \div 2  BY <1>2, <1>4 DEF ArgmaxRounds, ArgmaxTypeOK
    <2>2. ArgmaxNextRound(t, stride'[t])  BY <1>1, <1>2, <2>1 DEF ArgmaxNextRound
    <2>3. pc'[t] # "scan" /\ \A u \in Threads : u # t => pc'[u] = pc[u] /\ stride'[u] = stride[u]
        BY <1>2, <1>4 DEF ArgmaxTypeOK
    <2> QED BY <1>2, <1>4, <1>10, <2>2, <2>3, ArgmaxRoundsAdvance
<1>12. Covered(shared'[t], s, t)
    <2>1. CASE t < s
        <3>1. PICK z : z = shared'[t]  OBVIOUS
        <3>2. z = IF Better(shared[t + s], shared[t]) THEN shared[t + s] ELSE shared[t]
            BY <1>9, <2>1, <3>1
        <3>3. Unbeaten(shared[t], ArgmaxClass(2 * s, t))
            <4>1. t < 2 * s  BY <1>2, <2>1
            <4> QED BY <4>1, <1>6 DEF Covered
        <3>4. ArgmaxClass(s, t) = ArgmaxClass(2 * s, t) \cup ArgmaxClass(2 * s, t + s)
            <4>1. ASSUME NEW n \in Indices
                  PROVE  n % s = t <=> n % (2 * s) = t \/ n % (2 * s) = t + s
                <5>1. n \in Nat /\ t \in 0 .. s - 1  BY <1>2, <2>1 DEF Indices
                <5> QED BY <5>1, <1>2, ResidueSplit
            <4> QED BY <4>1 DEF ArgmaxClass
        <3>5. Named(z) /\ Unbeaten(z, ArgmaxClass(2 * s, t) \cup ArgmaxClass(2 * s, t + s))
            <4>1. ArgmaxClass(2 * s, t) \subseteq Indices /\ ArgmaxClass(2 * s, t + s) \subseteq Indices
                BY DEF ArgmaxClass
            <4> QED BY <4>1, <1>7, <1>8, <2>1, <3>2, <3>3, Merged
        <3>6. Unbeaten(z, ArgmaxClass(s, t)) /\ ~(s <= t)  BY <1>2, <2>1, <3>4, <3>5
        <3> QED BY <3>1, <3>5, <3>6 DEF Covered
    <2>2. CASE ~(t < s)
        <3>1. shared'[t] = shared[t]  BY <1>9, <2>2
        <3>2. t < 2 * s => Unbeaten(shared[t], ArgmaxClass(2 * s, t))  BY <1>6 DEF Covered
        <3> QED BY <1>7, <2>2, <3>1, <3>2 DEF Covered
    <2> QED BY <2>1, <2>2
<1>13. ArgmaxSlots'
    <2>1. ASSUME NEW u \in Threads, u # t
          PROVE  IF pc'[u] = "scan" THEN Scanned(u)' ELSE Covered(shared[u], Width(stride[u]), u)'
        <3>1. pc'[u] = pc[u] /\ stride'[u] = stride[u]  BY <1>4, <2>1 DEF ArgmaxTypeOK
        <3> QED BY <1>4, <1>9, <2>1, <3>1, ArgmaxOthersKept
    <2>2. pc'[t] # "scan" /\ stride'[t] = s \div 2  BY <1>2, <1>4 DEF ArgmaxTypeOK
    <2>3. Covered(shared[t], Width(stride[t]), t)'
        <3>1. Width(stride'[t]) = s  BY <1>3, <2>2
        <3>2. PICK z : z = shared'[t]  OBVIOUS
        <3>3. Covered(z, s, t)'  BY <1>4, <1>5, <1>12, <3>2 DEF Covered, Named, Unbeaten, ArgmaxClass
        <3> QED BY <3>1, <3>2, <3>3 DEF Covered, Named, Unbeaten, ArgmaxClass, Width
    <2> QED BY <2>1, <2>2, <2>3 DEF ArgmaxSlots
<1>14. MatchesGreedy'
    BY <1>4, <1>5 DEF MatchesGreedy, Greedy
<1> QED BY <1>10, <1>11, <1>13, <1>14

(* A thread leaves the reduction, and thread 0 stores the index. *)
LEMMA ReturnKeeps ==
    ASSUME ArgmaxInv, NEW t \in Threads, Return(t)
    PROVE  ArgmaxInv'
<1> USE DEF ArgmaxInv
<1>1. /\ pc[t] = "reduce" /\ stride[t] = 0
      /\ UNCHANGED <<count, values, next, best, stride, arrived, shared>>
      /\ pc' = [pc EXCEPT ![t] = "done"]
      /\ out' = IF t = 0 THEN shared[0].index ELSE out
    BY DEF Return
<1>2. Indices' = Indices  BY <1>1 DEF Indices
<1>3. Covered(shared[t], 1, t)
    <2>1. Width(stride[t]) = 1  BY <1>1 DEF Width
    <2> QED BY <1>1, <2>1 DEF ArgmaxSlots
<1>4. ArgmaxTypeOK'
    <2>1. shared[t].index \in Int  BY DEF ArgmaxTypeOK, Candidates
    <2> QED BY <1>1, <1>2, <2>1 DEF ArgmaxTypeOK
<1>5. ArgmaxRounds'
    <2>1. ASSUME NEW u \in Threads PROVE pc'[u] = "scan" <=> pc[u] = "scan"
        BY <1>1 DEF ArgmaxTypeOK
    <2> QED BY <1>1, <2>1 DEF ArgmaxRounds, ArgmaxLockStep, ArgmaxNextRound
<1>6. ArgmaxSlots'
    <2>1. ASSUME NEW u \in Threads, u # t
          PROVE  IF pc'[u] = "scan" THEN Scanned(u)' ELSE Covered(shared[u], Width(stride[u]), u)'
        <3>1. pc'[u] = pc[u]  BY <1>1, <2>1 DEF ArgmaxTypeOK
        <3> QED BY <1>1, <2>1, <3>1, ArgmaxOthersKept
    <2>2. pc'[t] # "scan"  BY <1>1 DEF ArgmaxTypeOK
    <2>3. Covered(shared[t], Width(stride[t]), t)  BY <1>1 DEF ArgmaxSlots
    <2>4. Covered(shared[t], Width(stride[t]), t)'
        BY <1>1, <1>2, <2>3 DEF Covered, Named, Unbeaten, ArgmaxClass, Width
    <2> QED BY <2>1, <2>2, <2>4 DEF ArgmaxSlots
<1>7. MatchesGreedy'
    <2>1. Greedy' = Greedy  BY <1>1, <1>2 DEF Greedy
    <2>2. CASE t = 0
        <3>1. ArgmaxClass(1, 0) = Indices
            <4>1. \A n \in Indices : n % 1 = 0  BY DEF Indices
            <4> QED BY <4>1 DEF ArgmaxClass
        <3>2. Named(shared[0]) /\ Unbeaten(shared[0], Indices) /\ shared[0] \in Candidates
            BY <1>3, <2>2, <3>1 DEF Covered, ArgmaxTypeOK
        <3>3. shared[0].index = Greedy  BY <3>2, Largest
        <3> QED BY <1>1, <2>1, <2>2, <3>3 DEF MatchesGreedy
    <2>3. CASE t # 0
        BY <1>1, <2>1, <2>3 DEF MatchesGreedy
    <2> QED BY <2>2, <2>3
<1> QED BY <1>4, <1>5, <1>6, <1>7

(* Every step of argmax_kernel keeps the invariant. *)
LEMMA ArgmaxSteps == ArgmaxInv /\ [ArgmaxNext]_argmaxVars => ArgmaxInv'
<1> SUFFICES ASSUME ArgmaxInv, [ArgmaxNext]_argmaxVars PROVE ArgmaxInv'
    OBVIOUS
<1>1. ASSUME NEW t \in Threads, ArgmaxThread(t) PROVE ArgmaxInv'
    BY <1>1, ScanKeeps, PublishKeeps, ReduceKeeps, ReturnKeeps DEF ArgmaxThread
<1>2. CASE UNCHANGED argmaxVars
    BY <1>2 DEF argmaxVars, ArgmaxInv, ArgmaxTypeOK, Indices, ArgmaxRounds, ArgmaxLockStep, ArgmaxNextRound,
                ArgmaxSlots, Scanned, Covered, Named, Unbeaten, ArgmaxClass, Width, MatchesGreedy, Greedy
<1> QED BY <1>1, <1>2 DEF ArgmaxNext, ArgmaxFinished

(***************************************************************************)
(* However the threads of argmax_kernel are interleaved, and whichever of  *)
(* them have nothing to scan, the index it stores is the one               *)
(* Sampler::Greedy returns for the same logits.                            *)
(***************************************************************************)
THEOREM ArgmaxIsGreedy == ArgmaxSpec => []MatchesGreedy
<1>1. ArgmaxInv => MatchesGreedy  BY DEF ArgmaxInv
<1> QED BY <1>1, ArgmaxBegins, ArgmaxSteps, PTL DEF ArgmaxSpec
-----------------------------------------------------------------------------
(***************************************************************************)
(* softmax_rows_kernel.  Its second reduction reuses the scratch of the    *)
(* first, so the argument must also say that no thread still works on      *)
(* maxima when another already adds: SoftmaxLockStep relates the phase,    *)
(* the stride and the barriers of two threads.                             *)
(***************************************************************************)

Amounts == [kind : {"max", "sum", "unset", "mixed"}, over : [Scores -> Nat]]

SoftmaxTypeOK ==
    /\ pc \in [Threads -> {"localMax", "reduceMax", "localSum", "reduceSum", "done"}]
    /\ stride \in [Threads -> Nat]
    /\ arrived \in [Threads -> Nat]
    /\ scratch \in [Threads -> Amounts]
    /\ maximum \in [Threads -> Amounts]
    /\ row \in [Scores -> [state : {"score", "exponential", "probability"},
                           maximum : Amounts, total : Amounts]]

(* The thread has begun to add. *)
Adding(t) == pc[t] \in {"reduceSum", "done"}

(* Where a thread is that has reached one barrier more than t. *)
SoftmaxNextRound(t, p, s) ==
    \/ /\ pc[t] = "localMax"
       /\ p = "reduceMax" /\ s = BlockDim \div 2
    \/ /\ pc[t] \in {"reduceMax", "reduceSum"} /\ stride[t] > 0
       /\ p = pc[t] /\ s = stride[t] \div 2
    \/ /\ pc[t] \in {"reduceMax", "localSum"} /\ stride[t] = 0
       /\ p = "reduceSum" /\ s = BlockDim \div 2

(* Where two threads stand, seen from t. *)
SoftmaxLockStep(t, u) ==
    /\ arrived[u] <= arrived[t] + 1
    /\ arrived[u] = arrived[t] => stride[u] = stride[t] /\ (Adding(u) <=> Adding(t))
    /\ arrived[u] = arrived[t] + 1 => SoftmaxNextRound(t, pc[u], stride[u])

Standing(t) ==
    /\ pc[t] = "localMax" <=> arrived[t] = 0
    /\ pc[t] = "localMax" => stride[t] = BlockDim \div 2
    /\ pc[t] = "localSum" => stride[t] = 0 /\ Open(t)
    /\ pc[t] = "done" => stride[t] = 0
    /\ Halved(BlockDim, stride[t])

SoftmaxRounds ==
    /\ \A t \in Threads : Standing(t)
    /\ \A t, u \in Threads : SoftmaxLockStep(t, u)

(* The scores that are t modulo w. *)
SoftmaxClass(w, t) == {j \in Scores : j % w = t}

Summed(x, w, t) ==
    /\ t < w => x = SumOf(SoftmaxClass(w, t))
    /\ w <= t /\ t < 2 * w => x = SumOf(SoftmaxClass(2 * w, t))

SoftmaxSlots == \A t \in Threads : Adding(t) => Summed(scratch[t], Width(stride[t]), t)

(* The inductive invariant. *)
SoftmaxInv == SoftmaxTypeOK /\ SoftmaxRounds /\ SoftmaxSlots /\ RowSum
-----------------------------------------------------------------------------
(* What the reductions make of amounts are amounts. *)
LEMMA AmountType ==
    /\ Unset \in Amounts
    /\ \A S : MaxOf(S) \in Amounts /\ SumOf(S) \in Amounts
    /\ \A a, b \in Amounts : MaxBoth(a, b) \in Amounts /\ SumBoth(a, b) \in Amounts
BY DEF Amounts, Unset, MaxOf, SumOf, MaxBoth, SumBoth

(* Two sums over disjoint sets of scores add up to the sum over both. *)
LEMMA SumOfBoth ==
    ASSUME NEW S, NEW T, S \cap T = {}
    PROVE  SumBoth(SumOf(S), SumOf(T)) = SumOf(S \cup T)
<1> DEFINE A == [j \in Scores |-> IF j \in S THEN 1 ELSE 0]
           B == [j \in Scores |-> IF j \in T THEN 1 ELSE 0]
<1>1. [j \in Scores |-> A[j] + B[j]] = [j \in Scores |-> IF j \in S \cup T THEN 1 ELSE 0]
    <2>1. ASSUME NEW j \in Scores PROVE A[j] + B[j] = IF j \in S \cup T THEN 1 ELSE 0
        OBVIOUS
    <2> QED BY <2>1
<1>2. /\ SumOf(S).kind = "sum" /\ SumOf(S).over = A
      /\ SumOf(T).kind = "sum" /\ SumOf(T).over = B
    BY DEF SumOf
<1> HIDE DEF A, B
<1> QED BY <1>1, <1>2 DEF SumBoth, SumOf
-----------------------------------------------------------------------------
(* The invariant of softmax_rows_kernel before any thread has run. *)
LEMMA SoftmaxBegins == SoftmaxInit => SoftmaxInv
<1> SUFFICES ASSUME SoftmaxInit PROVE SoftmaxInv
    OBVIOUS
<1>1. SoftmaxTypeOK
    <2>1. Unset \in Amounts /\ BlockDim \div 2 \in Nat  BY AmountType, Blocks
    <2> QED BY <2>1 DEF SoftmaxInit, SoftmaxTypeOK
<1>2. ASSUME NEW t \in Threads
      PROVE  pc[t] = "localMax" /\ arrived[t] = 0 /\ stride[t] = BlockDim \div 2
    BY DEF SoftmaxInit
<1>3. SoftmaxRounds
    <2>1. Halved(BlockDim, BlockDim \div 2)  BY Blocks, FirstStride
    <2> QED BY <1>2, <2>1 DEF SoftmaxRounds, Standing, SoftmaxLockStep, Adding
<1>4. SoftmaxSlots  BY <1>2 DEF SoftmaxSlots, Adding
<1>5. RowSum  BY DEF SoftmaxInit, RowSum
<1> QED BY <1>1, <1>3, <1>4, <1>5 DEF SoftmaxInv

(***************************************************************************)
(* A thread reaches its next barrier, with all others at or past the one   *)
(* it leaves.                                                              *)
(***************************************************************************)
LEMMA SoftmaxRoundsAdvance ==
    ASSUME SoftmaxTypeOK, SoftmaxTypeOK', SoftmaxRounds, NEW t \in Threads,
           arrived' = [arrived EXCEPT ![t] = @ + 1],
           \A u \in Threads : u # t => pc'[u] = pc[u] /\ stride'[u] = stride[u],
           Open(t), SoftmaxNextRound(t, pc'[t], stride'[t])
    PROVE  SoftmaxRounds'
<1> DEFINE a == arrived[t]
<1>1. /\ a \in Nat /\ arrived'[t] = a + 1
      /\ \A u \in Threads : arrived[u] \in Nat /\ stride[u] \in Nat
      /\ \A u \in Threads : u # t => arrived'[u] = arrived[u]
    BY DEF SoftmaxTypeOK
<1>2. /\ pc'[t] \in {"reduceMax", "reduceSum"}
      /\ pc'[t] = "reduceMax" <=> pc[t] = "localMax" \/ (pc[t] = "reduceMax" /\ stride[t] > 0)
    BY DEF SoftmaxNextRound
<1>3. Halved(BlockDim, stride'[t])
    <2>1. CASE stride'[t] = BlockDim \div 2
        BY <2>1, Blocks, FirstStride
    <2>2. CASE stride[t] > 0 /\ stride'[t] = stride[t] \div 2
        <3>1. stride[t] \in Nat \ {0} /\ Halved(BlockDim, stride[t])
            BY <2>2, <1>1 DEF SoftmaxRounds, Standing
        <3> QED BY <2>2, <3>1, Blocks, NextStride
    <2> QED BY <2>1, <2>2 DEF SoftmaxNextRound
<1>4. ASSUME NEW u \in Threads, Open(u), u # t PROVE Open(u)'
    BY <1>1, <1>4 DEF Open
<1>5. ASSUME NEW u \in Threads PROVE Standing(u)'
    <2>1. CASE u = t
        BY <2>1, <1>1, <1>2, <1>3 DEF Standing
    <2>2. CASE u # t
        <3>1. Standing(u)  BY DEF SoftmaxRounds
        <3> QED BY <2>2, <1>1, <1>4, <3>1 DEF Standing
    <2> QED BY <2>1, <2>2
<1>6. ASSUME NEW u \in Threads, NEW v \in Threads PROVE SoftmaxLockStep(u, v)'
    <2>1. CASE u = t /\ v = t
        BY <2>1, <1>1 DEF SoftmaxLockStep
    <2>2. CASE u # t /\ v # t
        <3>1. SoftmaxLockStep(u, v)  BY DEF SoftmaxRounds
        <3> QED BY <3>1, <2>2, <1>1 DEF SoftmaxLockStep, SoftmaxNextRound, Adding
    <2>3. CASE u = t /\ v # t
        <3>1. SoftmaxLockStep(t, v) /\ arrived[v] >= a  BY <2>3 DEF SoftmaxRounds, Open
        <3>2. ASSUME arrived[v] = a + 1
              PROVE  stride[v] = stride'[t] /\ pc[v] = pc'[t]
            <4>1. SoftmaxNextRound(t, pc[v], stride[v])  BY <3>1, <3>2 DEF SoftmaxLockStep
            <4> QED BY <4>1, <1>1 DEF SoftmaxNextRound
        <3>3. arrived'[v] = arrived[v] /\ pc'[v] = pc[v] /\ stride'[v] = stride[v]
            BY <2>3, <1>1
        <3>4. arrived[v] = a \/ arrived[v] = a + 1  BY <1>1, <3>1 DEF SoftmaxLockStep
        <3> QED BY <2>3, <1>1, <3>2, <3>3, <3>4 DEF SoftmaxLockStep, Adding
    <2>4. CASE u # t /\ v = t
        <3>1. SoftmaxLockStep(t, u) /\ arrived[u] >= a  BY <2>4 DEF SoftmaxRounds, Open
        <3>2. arrived[u] = a \/ arrived[u] = a + 1  BY <1>1, <3>1 DEF SoftmaxLockStep
        <3>3. arrived'[u] = arrived[u] /\ pc'[u] = pc[u] /\ stride'[u] = stride[u]
            BY <2>4, <1>1
        <3>4. CASE arrived[u] = a
            <4>1. stride[u] = stride[t] /\ (Adding(u) <=> Adding(t))
                BY <3>1, <3>4 DEF SoftmaxLockStep
            <4>2. Standing(u) /\ Standing(t)  BY DEF SoftmaxRounds
            <4>3. pc[u] = "localMax" <=> pc[t] = "localMax"  BY <3>4, <4>2 DEF Standing
            <4>4. pc[t] = "localSum" => stride[t] = 0  BY <4>2 DEF Standing
            <4>5. /\ pc[u] = "done" => stride[u] = 0
                  /\ pc[u] = "localSum" => stride[u] = 0
                BY <4>2 DEF Standing
            <4>6. pc[u] \in {"localMax", "reduceMax", "localSum", "reduceSum", "done"}
                BY DEF SoftmaxTypeOK
            <4>7. SoftmaxNextRound(u, pc'[t], stride'[t])
                BY <4>1, <4>3, <4>4, <4>5, <4>6, <1>1 DEF SoftmaxNextRound, Adding
            <4>8. SoftmaxNextRound(u, pc[t], stride[t])'  BY <3>3, <4>7 DEF SoftmaxNextRound
            <4> QED BY <2>4, <1>1, <3>3, <3>4, <4>8 DEF SoftmaxLockStep
        <3>5. CASE arrived[u] = a + 1
            <4>1. SoftmaxNextRound(t, pc[u], stride[u])  BY <3>1, <3>5 DEF SoftmaxLockStep
            <4>2. pc[u] = pc'[t] /\ stride[u] = stride'[t]  BY <4>1, <1>1 DEF SoftmaxNextRound
            <4> QED BY <2>4, <1>1, <3>3, <3>5, <4>2 DEF SoftmaxLockStep, Adding
        <3> QED BY <3>2, <3>4, <3>5
    <2> QED BY <2>1, <2>2, <2>3, <2>4
<1> QED BY <1>5, <1>6 DEF SoftmaxRounds

(* A thread passes its last barrier of a reduction without reaching one. *)
LEMMA RoundsPass ==
    ASSUME SoftmaxTypeOK, SoftmaxRounds, NEW t \in Threads, UNCHANGED <<arrived, stride>>,
           stride[t] = 0, Open(t),
           \/ pc[t] = "reduceMax" /\ pc' = [pc EXCEPT ![t] = "localSum"]
           \/ pc[t] = "reduceSum" /\ pc' = [pc EXCEPT ![t] = "done"]
    PROVE  SoftmaxRounds'
<1>1. /\ \A u \in Threads : u # t => pc'[u] = pc[u]
      /\ \/ pc[t] = "reduceMax" /\ pc'[t] = "localSum"
         \/ pc[t] = "reduceSum" /\ pc'[t] = "done"
      /\ \A u \in Threads : arrived[u] \in Nat
    BY DEF SoftmaxTypeOK
<1>2. ASSUME NEW u \in Threads PROVE Standing(u)'
    <2>1. Standing(u)  BY DEF SoftmaxRounds
    <2>2. Open(u)' <=> Open(u)  BY DEF Open
    <2> QED BY <1>1, <2>1, <2>2 DEF Standing
<1>3. ASSUME NEW u \in Threads, NEW v \in Threads PROVE SoftmaxLockStep(u, v)'
    <2>1. SoftmaxLockStep(u, v) /\ (v = t => arrived[u] >= arrived[v])
        BY DEF SoftmaxRounds, Open
    <2>2. (Adding(u)' <=> Adding(u)) /\ (Adding(v)' <=> Adding(v))
        BY <1>1 DEF Adding
    <2>3. ASSUME arrived[v] = arrived[u] + 1 PROVE SoftmaxNextRound(u, pc[v], stride[v])'
        <3>1. v # t  BY <2>1, <2>3, <1>1
        <3>2. SoftmaxNextRound(u, pc[v], stride[v])  BY <2>1, <2>3 DEF SoftmaxLockStep
        <3> QED BY <3>1, <3>2, <1>1 DEF SoftmaxNextRound
    <2> QED BY <2>1, <2>2, <2>3 DEF SoftmaxLockStep
<1> QED BY <1>2, <1>3 DEF SoftmaxRounds

(* The slots of the threads that do not take the step. *)
LEMMA SoftmaxOthersKept ==
    ASSUME SoftmaxSlots, NEW t \in Threads, NEW u \in Threads, u # t, Adding(u)',
           pc'[u] = pc[u], stride'[u] = stride[u], scratch'[u] = scratch[u]
    PROVE  Summed(scratch[u], Width(stride[u]), u)'
<1>1. Adding(u)  BY DEF Adding
<1>2. Summed(scratch[u], Width(stride[u]), u)  BY <1>1 DEF SoftmaxSlots
<1> QED BY <1>2 DEF Summed, Width, SumOf, SoftmaxClass

(* A thread publishes its maximum and reaches the first barrier. *)
LEMMA LocalMaxKeeps ==
    ASSUME SoftmaxInv, NEW t \in Threads, LocalMax(t)
    PROVE  SoftmaxInv'
<1> USE DEF SoftmaxInv
<1>1. /\ pc[t] = "localMax"
      /\ scratch' = [scratch EXCEPT ![t] = MaxOf(Own(t))]
      /\ arrived' = [arrived EXCEPT ![t] = @ + 1]
      /\ pc' = [pc EXCEPT ![t] = "reduceMax"]
      /\ UNCHANGED <<stride, maximum, row>>
    BY DEF LocalMax, ArriveBefore, Arrive
<1>2. Standing(t) /\ arrived[t] = 0 /\ Open(t)
    <2>1. Standing(t) /\ arrived[t] = 0  BY <1>1 DEF SoftmaxRounds, Standing
    <2> QED BY <2>1 DEF Open, SoftmaxTypeOK
<1>3. SoftmaxTypeOK'  BY <1>1, AmountType DEF SoftmaxTypeOK
<1>4. pc'[t] = "reduceMax" /\ \A u \in Threads : u # t => pc'[u] = pc[u] /\ scratch'[u] = scratch[u]
    BY <1>1 DEF SoftmaxTypeOK
<1>5. SoftmaxRounds'
    <2>1. SoftmaxNextRound(t, pc'[t], stride'[t])  BY <1>1, <1>2, <1>4 DEF SoftmaxNextRound, Standing
    <2> QED BY <1>1, <1>2, <1>3, <1>4, <2>1, SoftmaxRoundsAdvance
<1>6. SoftmaxSlots'
    <2>1. ~Adding(t)'  BY <1>4 DEF Adding
    <2> QED BY <1>1, <1>4, <2>1, SoftmaxOthersKept DEF SoftmaxSlots
<1>7. RowSum'  BY <1>1 DEF RowSum, SumOf
<1> QED BY <1>3, <1>5, <1>6, <1>7

(* One round of the first reduction. *)
LEMMA ReduceMaxKeeps ==
    ASSUME SoftmaxInv, NEW t \in Threads, ReduceMax(t)
    PROVE  SoftmaxInv'
<1> USE DEF SoftmaxInv
<1>1. PICK s : s = stride[t]  OBVIOUS
<1>2. /\ pc[t] = "reduceMax" /\ s > 0 /\ Open(t)
      /\ scratch' = IF t < s
                      THEN [scratch EXCEPT ![t] = MaxBoth(scratch[t], scratch[t + s])]
                      ELSE scratch
      /\ stride' = [stride EXCEPT ![t] = s \div 2]
      /\ arrived' = [arrived EXCEPT ![t] = @ + 1]
      /\ pc' = [pc EXCEPT ![t] = "reduceMax"]
      /\ UNCHANGED <<maximum, row>>
    BY <1>1 DEF ReduceMax, ReduceScratch, ArriveBefore, Arrive
<1>3. t \in Nat /\ s \in Nat \ {0} /\ Halved(BlockDim, s)
    BY <1>1, <1>2, Blocks DEF SoftmaxTypeOK, SoftmaxRounds, Standing
<1>4. 2 * s <= BlockDim /\ s \div 2 \in Nat  BY <1>3, Blocks, NextStride DEF Halved
<1>5. SoftmaxTypeOK'
    <2>1. t < s => t + s \in Threads  BY <1>3, <1>4, Blocks DEF Threads
    <2>2. scratch' \in [Threads -> Amounts]
        <3>1. t < s => MaxBoth(scratch[t], scratch[t + s]) \in Amounts
            BY <2>1, AmountType DEF SoftmaxTypeOK
        <3> QED BY <3>1, <1>2 DEF SoftmaxTypeOK
    <2>3. stride' \in [Threads -> Nat] /\ arrived' \in [Threads -> Nat]
        BY <1>2, <1>4 DEF SoftmaxTypeOK
    <2> QED BY <1>2, <2>2, <2>3 DEF SoftmaxTypeOK
<1>6. /\ pc'[t] = "reduceMax" /\ stride'[t] = s \div 2
      /\ \A u \in Threads : u # t => /\ pc'[u] = pc[u] /\ stride'[u] = stride[u]
                                     /\ scratch'[u] = scratch[u]
    BY <1>2 DEF SoftmaxTypeOK
<1>7. SoftmaxRounds'
    <2>1. SoftmaxNextRound(t, pc'[t], stride'[t])  BY <1>1, <1>2, <1>6 DEF SoftmaxNextRound
    <2> QED BY <1>2, <1>5, <1>6, <2>1, SoftmaxRoundsAdvance
<1>8. SoftmaxSlots'
    <2>1. ~Adding(t)'  BY <1>6 DEF Adding
    <2> QED BY <1>6, <2>1, SoftmaxOthersKept DEF SoftmaxSlots
<1>9. RowSum'  BY <1>2 DEF RowSum, SumOf
<1> QED BY <1>5, <1>7, <1>8, <1>9

(* A thread reads the maximum; no barrier follows. *)
LEMMA ReadMaximumKeeps ==
    ASSUME SoftmaxInv, NEW t \in Threads, ReadMaximum(t)
    PROVE  SoftmaxInv'
<1> USE DEF SoftmaxInv
<1>1. /\ pc[t] = "reduceMax" /\ stride[t] = 0 /\ Open(t)
      /\ maximum' = [maximum EXCEPT ![t] = scratch[0]]
      /\ pc' = [pc EXCEPT ![t] = "localSum"]
      /\ UNCHANGED <<stride, arrived, scratch, row>>
    BY DEF ReadMaximum
<1>2. 0 \in Threads  BY Blocks DEF Threads
<1>3. SoftmaxTypeOK'  BY <1>1, <1>2 DEF SoftmaxTypeOK
<1>4. SoftmaxRounds'  BY <1>1, RoundsPass
<1>5. SoftmaxSlots'
    <2>1. pc'[t] = "localSum" /\ \A u \in Threads : u # t => pc'[u] = pc[u]
        BY <1>1 DEF SoftmaxTypeOK
    <2>2. ~Adding(t)'  BY <2>1 DEF Adding
    <2> QED BY <1>1, <2>1, <2>2, SoftmaxOthersKept DEF SoftmaxSlots
<1>6. RowSum'  BY <1>1 DEF RowSum, SumOf
<1> QED BY <1>3, <1>4, <1>5, <1>6

(* A thread publishes its sum and reaches the first barrier of the second reduction. *)
LEMMA LocalSumKeeps ==
    ASSUME SoftmaxInv, NEW t \in Threads, LocalSum(t)
    PROVE  SoftmaxInv'
<1> USE DEF SoftmaxInv
<1>1. /\ pc[t] = "localSum"
      /\ row' = [j \in Scores |->
                   IF j \in Own(t)
                   THEN [row[j] EXCEPT !.state = "exponential", !.maximum = maximum[t]]
                   ELSE row[j]]
      /\ scratch' = [scratch EXCEPT ![t] = SumOf(Own(t))]
      /\ stride' = [stride EXCEPT ![t] = BlockDim \div 2]
      /\ arrived' = [arrived EXCEPT ![t] = @ + 1]
      /\ pc' = [pc EXCEPT ![t] = "reduceSum"]
      /\ UNCHANGED maximum
    BY DEF LocalSum, ArriveBefore, Arrive
<1>2. stride[t] = 0 /\ Open(t)  BY <1>1 DEF SoftmaxRounds, Standing
<1>3. SoftmaxTypeOK'
    <2>1. row' \in [Scores -> [state : {"score", "exponential", "probability"},
                               maximum : Amounts, total : Amounts]]
        BY <1>1 DEF SoftmaxTypeOK
    <2>2. scratch' \in [Threads -> Amounts]  BY <1>1, AmountType DEF SoftmaxTypeOK
    <2>3. stride' \in [Threads -> Nat]  BY <1>1, Blocks DEF SoftmaxTypeOK
    <2>4. pc' \in [Threads -> {"localMax", "reduceMax", "localSum", "reduceSum", "done"}]
        BY <1>1 DEF SoftmaxTypeOK
    <2>5. arrived' \in [Threads -> Nat]
        <3>1. arrived \in [Threads -> Nat] /\ arrived[t] + 1 \in Nat  BY DEF SoftmaxTypeOK
        <3>2. arrived' = [arrived EXCEPT ![t] = arrived[t] + 1]  BY <1>1
        <3> QED BY <3>1, <3>2, Zenon
    <2> QED BY <1>1, <2>1, <2>2, <2>3, <2>4, <2>5 DEF SoftmaxTypeOK
<1>4. /\ pc'[t] = "reduceSum" /\ stride'[t] = BlockDim \div 2 /\ scratch'[t] = SumOf(Own(t))
      /\ \A u \in Threads : u # t => /\ pc'[u] = pc[u] /\ stride'[u] = stride[u]
                                     /\ scratch'[u] = scratch[u]
    BY <1>1 DEF SoftmaxTypeOK
<1>5. SoftmaxRounds'
    <2>1. SoftmaxNextRound(t, pc'[t], stride'[t])  BY <1>1, <1>2, <1>4 DEF SoftmaxNextRound
    <2> QED BY <1>1, <1>2, <1>3, <1>4, <2>1, SoftmaxRoundsAdvance
<1>6. SoftmaxSlots'
    <2>1. Width(stride'[t]) = BlockDim  BY <1>4, Blocks, FirstStride
    <2>2. Own(t) = SoftmaxClass(BlockDim, t) /\ ~(BlockDim <= t)  BY Blocks DEF Own, SoftmaxClass
    <2>3. Summed(scratch'[t], Width(stride'[t]), t)  BY <1>4, <2>1, <2>2 DEF Summed
    <2>4. Summed(scratch[t], Width(stride[t]), t)'
        BY <2>3 DEF Summed, Width, SumOf, SoftmaxClass
    <2> QED BY <1>4, <2>4, SoftmaxOthersKept DEF SoftmaxSlots
<1>7. RowSum'
    <2>1. ASSUME NEW j \in Scores, row'[j].state = "probability"
          PROVE  row'[j].total = SumOf(Scores)
        <3>1. j \notin Own(t)  BY <1>1, <2>1 DEF SoftmaxTypeOK
        <3> QED BY <1>1, <2>1, <3>1 DEF RowSum
    <2> QED BY <2>1 DEF RowSum, SumOf
<1> QED BY <1>3, <1>5, <1>6, <1>7

(* The partner's slot, read in the round t is in, holds what is missing. *)
LEMMA SoftmaxPartner ==
    ASSUME SoftmaxTypeOK, SoftmaxRounds, SoftmaxSlots, NEW t \in Threads, NEW s, s = stride[t], s > 0,
           pc[t] = "reduceSum", Open(t), t < s
    PROVE  t + s \in Threads /\ scratch[t + s] = SumOf(SoftmaxClass(2 * s, t + s))
<1> DEFINE u == t + s
<1>1. t \in Nat /\ s \in Nat \ {0} /\ Halved(BlockDim, s)
    BY Blocks DEF SoftmaxTypeOK, SoftmaxRounds, Standing
<1>2. 2 * s <= BlockDim /\ Width(s \div 2) = s  BY <1>1, Blocks, NextStride
<1>3. u \in Threads  BY <1>1, <1>2, Blocks DEF Threads
<1>4. s <= u /\ u < 2 * s  BY <1>1
<1> HIDE DEF u
<1>5. SoftmaxLockStep(t, u) /\ arrived[u] >= arrived[t]  BY <1>3 DEF SoftmaxRounds, Open
<1>6. arrived[u] = arrived[t] \/ arrived[u] = arrived[t] + 1
    <2>1. arrived[u] \in Nat /\ arrived[t] \in Nat  BY <1>3 DEF SoftmaxTypeOK
    <2> QED BY <1>5, <2>1 DEF SoftmaxLockStep
<1>7. CASE arrived[u] = arrived[t]
    <2>1. stride[u] = s /\ Adding(u)  BY <1>5, <1>7 DEF SoftmaxLockStep, Adding
    <2>2. Width(stride[u]) = 2 * s  BY <2>1, <1>1 DEF Width
    <2>3. Summed(scratch[u], 2 * s, u)  BY <1>3, <2>1, <2>2 DEF SoftmaxSlots
    <2>4. scratch[u] = SumOf(SoftmaxClass(2 * s, u))  BY <1>4, <2>3 DEF Summed
    <2> QED BY <1>3, <2>4 DEF u
<1>8. CASE arrived[u] = arrived[t] + 1
    <2>1. pc[u] = "reduceSum" /\ stride[u] = s \div 2
        BY <1>1, <1>5, <1>8 DEF SoftmaxLockStep, SoftmaxNextRound
    <2>2. Width(stride[u]) = s /\ Adding(u)  BY <2>1, <1>2 DEF Adding
    <2>3. Summed(scratch[u], s, u)  BY <1>3, <2>2 DEF SoftmaxSlots
    <2>4. scratch[u] = SumOf(SoftmaxClass(2 * s, u))  BY <1>4, <2>3 DEF Summed
    <2> QED BY <1>3, <2>4 DEF u
<1> QED BY <1>6, <1>7, <1>8

(* One round of the second reduction. *)
LEMMA ReduceSumKeeps ==
    ASSUME SoftmaxInv, NEW t \in Threads, ReduceSum(t)
    PROVE  SoftmaxInv'
<1> USE DEF SoftmaxInv
<1>1. PICK s : s = stride[t]  OBVIOUS
<1>2. /\ pc[t] = "reduceSum" /\ s > 0 /\ Open(t)
      /\ scratch' = IF t < s
                      THEN [scratch EXCEPT ![t] = SumBoth(scratch[t], scratch[t + s])]
                      ELSE scratch
      /\ stride' = [stride EXCEPT ![t] = s \div 2]
      /\ arrived' = [arrived EXCEPT ![t] = @ + 1]
      /\ pc' = [pc EXCEPT ![t] = "reduceSum"]
      /\ UNCHANGED <<maximum, row>>
    BY <1>1 DEF ReduceSum, ReduceScratch, ArriveBefore, Arrive
<1>3. t \in Nat /\ s \in Nat \ {0} /\ Halved(BlockDim, s)
    BY <1>1, <1>2, Blocks DEF SoftmaxTypeOK, SoftmaxRounds, Standing
<1>4. 2 * s <= BlockDim /\ Width(s \div 2) = s /\ s \div 2 \in Nat
    BY <1>3, Blocks, NextStride DEF Halved
<1>5. t < s => t + s \in Threads /\ scratch[t + s] = SumOf(SoftmaxClass(2 * s, t + s))
    BY <1>1, <1>2, SoftmaxPartner
<1>6. Summed(scratch[t], 2 * s, t)
    <2>1. Width(s) = 2 * s  BY <1>3 DEF Width
    <2>2. Adding(t)  BY <1>2 DEF Adding
    <2> QED BY <1>1, <2>1, <2>2 DEF SoftmaxSlots
<1>7. SoftmaxTypeOK'
    <2>1. scratch' \in [Threads -> Amounts]
        <3>1. t < s => SumBoth(scratch[t], scratch[t + s]) \in Amounts
            BY <1>5, AmountType DEF SoftmaxTypeOK
        <3> QED BY <3>1, <1>2 DEF SoftmaxTypeOK
    <2>2. stride' \in [Threads -> Nat] /\ arrived' \in [Threads -> Nat]
        BY <1>2, <1>4 DEF SoftmaxTypeOK
    <2> QED BY <1>2, <2>1, <2>2 DEF SoftmaxTypeOK
<1>8. /\ pc'[t] = "reduceSum" /\ stride'[t] = s \div 2
      /\ scratch'[t] = IF t < s THEN SumBoth(scratch[t], scratch[t + s]) ELSE scratch[t]
      /\ \A u \in Threads : u # t => /\ pc'[u] = pc[u] /\ stride'[u] = stride[u]
                                     /\ scratch'[u] = scratch[u]
    BY <1>2 DEF SoftmaxTypeOK
<1>9. SoftmaxRounds'
    <2>1. SoftmaxNextRound(t, pc'[t], stride'[t])  BY <1>1, <1>2, <1>8 DEF SoftmaxNextRound
    <2> QED BY <1>2, <1>7, <1>8, <2>1, SoftmaxRoundsAdvance
<1>10. Summed(scratch'[t], s, t)
    <2>1. CASE t < s
        <3>1. scratch[t] = SumOf(SoftmaxClass(2 * s, t))
            <4>1. t < 2 * s  BY <1>3, <2>1
            <4> QED BY <4>1, <1>6 DEF Summed
        <3>2. SoftmaxClass(s, t) = SoftmaxClass(2 * s, t) \cup SoftmaxClass(2 * s, t + s)
            <4>1. ASSUME NEW j \in Scores
                  PROVE  j % s = t <=> j % (2 * s) = t \/ j % (2 * s) = t + s
                <5>1. j \in Nat /\ t \in 0 .. s - 1  BY <1>3, <2>1 DEF Scores
                <5> QED BY <5>1, <1>3, ResidueSplit
            <4> QED BY <4>1 DEF SoftmaxClass
        <3>3. SoftmaxClass(2 * s, t) \cap SoftmaxClass(2 * s, t + s) = {}
            <4>1. t # t + s  BY <1>3
            <4> QED BY <4>1 DEF SoftmaxClass
        <3>4. SumBoth(scratch[t], scratch[t + s]) = SumOf(SoftmaxClass(s, t))
            BY <1>5, <2>1, <3>1, <3>2, <3>3, SumOfBoth
        <3>5. ~(s <= t)  BY <1>3, <2>1
        <3> QED BY <1>8, <2>1, <3>4, <3>5 DEF Summed
    <2>2. CASE ~(t < s)
        BY <1>6, <1>8, <2>2 DEF Summed
    <2> QED BY <2>1, <2>2
<1>11. SoftmaxSlots'
    <2>1. Width(stride'[t]) = s  BY <1>4, <1>8
    <2>2. Summed(scratch'[t], Width(stride'[t]), t)  BY <1>10, <2>1
    <2>3. Summed(scratch[t], Width(stride[t]), t)'
        BY <2>2 DEF Summed, Width, SumOf, SoftmaxClass
    <2> QED BY <1>8, <2>3, SoftmaxOthersKept DEF SoftmaxSlots
<1>12. RowSum'  BY <1>2 DEF RowSum, SumOf
<1> QED BY <1>7, <1>9, <1>11, <1>12

(* Past the last barrier of the second reduction slot 0 holds the sum of the row. *)
LEMMA Total ==
    ASSUME SoftmaxTypeOK, SoftmaxRounds, SoftmaxSlots, NEW t \in Threads,
           pc[t] = "reduceSum", stride[t] = 0, Open(t)
    PROVE  scratch[0] = SumOf(Scores)
<1>1. 0 \in Threads  BY Blocks DEF Threads
<1>2. SoftmaxLockStep(t, 0) /\ arrived[0] >= arrived[t]  BY <1>1 DEF SoftmaxRounds, Open
<1>3. arrived[0] # arrived[t] + 1  BY <1>2 DEF SoftmaxLockStep, SoftmaxNextRound
<1>4. arrived[0] = arrived[t]
    <2>1. arrived[0] \in Nat /\ arrived[t] \in Nat  BY <1>1 DEF SoftmaxTypeOK
    <2> QED BY <1>2, <1>3, <2>1 DEF SoftmaxLockStep
<1>5. stride[0] = 0 /\ Adding(0)  BY <1>2, <1>4 DEF SoftmaxLockStep, Adding
<1>6. Summed(scratch[0], 1, 0)
    <2>1. Width(stride[0]) = 1  BY <1>5 DEF Width
    <2> QED BY <1>1, <1>5, <2>1 DEF SoftmaxSlots
<1>7. SoftmaxClass(1, 0) = Scores
    <2>1. \A j \in Scores : j % 1 = 0  BY DEF Scores
    <2> QED BY <2>1 DEF SoftmaxClass
<1> QED BY <1>6, <1>7 DEF Summed

(* A thread divides its scores by the sum. *)
LEMMA ScaleKeeps ==
    ASSUME SoftmaxInv, NEW t \in Threads, Scale(t)
    PROVE  SoftmaxInv'
<1> USE DEF SoftmaxInv
<1>1. /\ pc[t] = "reduceSum" /\ stride[t] = 0 /\ Open(t)
      /\ row' = [j \in Scores |->
                   IF j \in Own(t)
                   THEN [row[j] EXCEPT !.state = "probability", !.total = scratch[0]]
                   ELSE row[j]]
      /\ pc' = [pc EXCEPT ![t] = "done"]
      /\ UNCHANGED <<stride, arrived, scratch, maximum>>
    BY DEF Scale
<1>2. scratch[0] = SumOf(Scores)  BY <1>1, Total
<1>3. SoftmaxTypeOK'
    <2>1. scratch[0] \in Amounts  BY <1>2, AmountType
    <2>2. row' \in [Scores -> [state : {"score", "exponential", "probability"},
                               maximum : Amounts, total : Amounts]]
        BY <1>1, <2>1 DEF SoftmaxTypeOK
    <2> QED BY <1>1, <2>2 DEF SoftmaxTypeOK
<1>4. SoftmaxRounds'  BY <1>1, RoundsPass
<1>5. SoftmaxSlots'
    <2>1. pc'[t] = "done" /\ \A u \in Threads : u # t => pc'[u] = pc[u]
        BY <1>1 DEF SoftmaxTypeOK
    <2>2. Adding(t)  BY <1>1 DEF Adding
    <2>3. Summed(scratch[t], Width(stride[t]), t)  BY <2>2 DEF SoftmaxSlots
    <2>4. Summed(scratch[t], Width(stride[t]), t)'
        BY <1>1, <2>3 DEF Summed, Width, SumOf, SoftmaxClass
    <2> QED BY <1>1, <2>1, <2>4, SoftmaxOthersKept DEF SoftmaxSlots
<1>6. RowSum'
    <2>1. ASSUME NEW j \in Scores, row'[j].state = "probability"
          PROVE  row'[j].total = SumOf(Scores)
        <3>1. CASE j \in Own(t)
            BY <1>1, <1>2, <3>1 DEF SoftmaxTypeOK
        <3>2. CASE j \notin Own(t)
            BY <1>1, <2>1, <3>2 DEF RowSum
        <3> QED BY <3>1, <3>2
    <2> QED BY <2>1 DEF RowSum, SumOf
<1> QED BY <1>3, <1>4, <1>5, <1>6

(* Every step of softmax_rows_kernel keeps the invariant. *)
LEMMA SoftmaxSteps == SoftmaxInv /\ [SoftmaxNext]_softmaxVars => SoftmaxInv'
<1> SUFFICES ASSUME SoftmaxInv, [SoftmaxNext]_softmaxVars PROVE SoftmaxInv'
    OBVIOUS
<1>1. ASSUME NEW t \in Threads, SoftmaxThread(t) PROVE SoftmaxInv'
    BY <1>1, LocalMaxKeeps, ReduceMaxKeeps, ReadMaximumKeeps, LocalSumKeeps,
       ReduceSumKeeps, ScaleKeeps DEF SoftmaxThread
<1>2. CASE UNCHANGED softmaxVars
    <2>1. SoftmaxTypeOK'  BY <1>2 DEF softmaxVars, SoftmaxInv, SoftmaxTypeOK
    <2>2. SoftmaxRounds'
        BY <1>2 DEF softmaxVars, SoftmaxInv, SoftmaxRounds, Standing, SoftmaxLockStep, SoftmaxNextRound, Adding, Open
    <2>3. SoftmaxSlots'
        BY <1>2 DEF softmaxVars, SoftmaxInv, SoftmaxSlots, Adding, Summed, Width, SumOf, SoftmaxClass
    <2>4. RowSum'  BY <1>2 DEF softmaxVars, SoftmaxInv, RowSum, SumOf
    <2> QED BY <2>1, <2>2, <2>3, <2>4 DEF SoftmaxInv
<1> QED BY <1>1, <1>2 DEF SoftmaxNext, SoftmaxFinished

(***************************************************************************)
(* However the threads of softmax_rows_kernel are interleaved, every       *)
(* probability has been divided by a sum that counts each exponential of   *)
(* the row exactly once.                                                   *)
(***************************************************************************)
THEOREM SumsTheRow == SoftmaxSpec => []RowSum
<1>1. SoftmaxInv => RowSum  BY DEF SoftmaxInv
<1> QED BY <1>1, SoftmaxBegins, SoftmaxSteps, PTL DEF SoftmaxSpec

-----------------------------------------------------------------------------
(***************************************************************************)
(* What the kernels of KernelThreads have in common: bags of terms, tables,*)
(* and which threads of which blocks have returned (Over).                 *)
(***************************************************************************)

(* The bag of the values of f holds each once, if no two are the same. *)
LEMMA OnceEach ==
    ASSUME NEW f, \A i, j \in DOMAIN f : f[i] = f[j] => i = j
    PROVE  BagOf(f) = SetToBag({f[j] : j \in DOMAIN f})
<1> DEFINE S == {f[j] : j \in DOMAIN f}
<1>1. ASSUME NEW v \in S PROVE Cardinality({j \in DOMAIN f : f[j] = v}) = 1
    <2>1. PICK i \in DOMAIN f : f[i] = v  OBVIOUS
    <2>2. {j \in DOMAIN f : f[j] = v} = {i}  BY <2>1
    <2> QED BY <2>2, FS_Singleton
<1>2. [v \in S |-> Cardinality({j \in DOMAIN f : f[j] = v})] = [v \in S |-> 1]
    BY <1>1, Zenon
<1> QED BY <1>2, Zenon DEF BagOf, SetToBag

(* Two bags that hold different things once hold them once together. *)
LEMMA BagsApart ==
    ASSUME NEW S, NEW T, S \cap T = {}
    PROVE  SetToBag(S) (+) SetToBag(T) = SetToBag(S \cup T)
<1> DEFINE A == SetToBag(S)  B == SetToBag(T)
           n(e) == (IF e \in DOMAIN A THEN A[e] ELSE 0) + (IF e \in DOMAIN B THEN B[e] ELSE 0)
<1>1. DOMAIN A = S /\ DOMAIN B = T /\ (\A e \in S : A[e] = 1) /\ (\A e \in T : B[e] = 1)
    BY Zenon DEF SetToBag
<1>2. A (+) B = [e \in DOMAIN A \cup DOMAIN B |-> n(e)]  BY Zenon DEF (+)
<1> HIDE DEF A, B
<1>3. ASSUME NEW e \in S \cup T PROVE n(e) = 1  BY <1>1
<1>4. A (+) B = [e \in S \cup T |-> n(e)]  BY <1>1, <1>2, Zenon
<1> HIDE DEF n
<1>5. A (+) B = [e \in S \cup T |-> 1]  BY <1>3, <1>4, Zenon
<1> QED BY <1>5, Zenon DEF SetToBag, A, B

(* The rows and columns of a table of rows of w. *)
Cells(w) ==
    /\ \A p \in Nat, j \in 0 .. w - 1 :
          /\ (p * w) + j \in Nat
          /\ ((p * w) + j) \div w = p /\ ((p * w) + j) % w = j
    /\ \A i \in Nat : /\ i \div w \in Nat /\ i % w \in 0 .. w - 1
                      /\ i = ((i \div w) * w) + (i % w)

(* Every table of rows of at least one element is such a table. *)
LEMMA CellsOf == \A w \in Positive : Cells(w)
<1> SUFFICES ASSUME NEW w \in Nat \ {0} PROVE Cells(w)
    BY DEF Positive
<1>1. ASSUME NEW i \in Nat
      PROVE  i \div w \in Nat /\ i % w \in 0 .. w - 1 /\ i = ((i \div w) * w) + (i % w)
    <2>1. i \div w \in Nat  BY QuotientBelow
    <2>2. i % w \in 0 .. w - 1 /\ i = (w * (i \div w)) + (i % w)  BY Division
    <2> HIDE DEF Cells
    <2> QED BY <2>1, <2>2
<1>2. ASSUME NEW p \in Nat, NEW j \in 0 .. w - 1
      PROVE  /\ (p * w) + j \in Nat
             /\ ((p * w) + j) \div w = p /\ ((p * w) + j) % w = j
    <2> DEFINE i == (p * w) + j  q == i \div w  r == i % w
    <2>1. i \in Nat  OBVIOUS
    <2>2. q = p  BY QuotientOfOffset
    <2>3. r \in 0 .. w - 1 /\ i = (q * w) + r  BY <1>1, <2>1
    <2> HIDE DEF q, r
    <2>4. r = j  BY <2>2, <2>3
    <2> QED BY <2>1, <2>2, <2>4 DEF q, r
<1> QED BY <1>1, <1>2, Zenon DEF Cells

(* The block of w elements that holds the i-th of n is in the grid. *)
LEMMA InGrid ==
    ASSUME NEW n \in Nat, NEW w \in Positive, NEW i \in UpTo(n)
    PROVE  i \div w \in UpTo(CeilDiv(n, w))
<1> DEFINE a == (n + w) - 1  c == a \div w  r == a % w
<1>1. i \in Nat /\ a \in Nat /\ w \in Nat \ {0} /\ i < n  BY DEF UpTo, Positive
<1>2. c \in Nat /\ r \in 0 .. w - 1 /\ a = (w * c) + r  BY <1>1, Division, QuotientBelow
<1>3. CeilDiv(n, w) = c
    <2>1. (n + w) - 1 = n + w - 1  BY <1>1
    <2> QED BY <2>1 DEF CeilDiv
<1> HIDE DEF c, r
<1>4. i < c * w
    <2>1. w * c >= n  BY <1>1, <1>2
    <2> QED BY <1>1, <1>2, <2>1
<1>5. i \div w \in Nat /\ i \div w < c  BY <1>1, <1>2, <1>4, QuotientBelow
<1> HIDE DEF a
<1> QED BY <1>2, <1>3, <1>5 DEF UpTo
-----------------------------------------------------------------------------
(* Where the threads of a kernel can be. *)
Steps(kernel) ==
    CASE kernel = "tiled" -> {"tiled", "addTile"}
      [] kernel = "normRope" -> {"normRope", "reduce"}
      [] OTHER -> {kernel}

Running == \E t \in Threads : pc[t] # "done"

(* Thread t of block b has returned. *)
Over(b, t) == b \in Grid(launch) \ todo /\ (b = block => pc[t] = "done")

KernelControl ==
    /\ launch \in Launches /\ todo \subseteq Grid(launch)
    /\ pc \in [Threads -> Steps(launch.kernel) \cup {"done"}]
    /\ stride \in [Threads -> Nat] /\ arrived \in [Threads -> Nat]
    /\ DOMAIN sum = Threads
    /\ DOMAIN arrays = {"x", "weight", "squares"}
    /\ DOMAIN arrays.x = Threads /\ DOMAIN arrays.weight = Threads
    /\ DOMAIN arrays.squares = Threads
    /\ Running => block \in Grid(launch) \ todo

(* The kernels there are. *)
LEMMA Kernels ==
    \A l \in Launches :
        /\ l.kernel \in {"tiled", "matvec", "normRope", "sinks"}
        /\ l.kernel \in {"tiled", "matvec"} =>
             /\ l.n \in Positive /\ l.m \in Positive /\ l.batch \in Positive
             /\ l.warp \in Positive /\ BlockDim % l.warp = 0
             /\ l.kernel = "matvec" <=> l.batch = 1
        /\ l.kernel = "normRope" =>
             /\ l.heads \in Positive /\ l.kvHeads \in Positive /\ l.headDim \in Positive
             /\ l.rotaryDim \in Nat /\ l.pos \in Nat /\ l.kvPos \in Nat /\ l.batch \in Positive
             /\ l.rotaryDim <= l.headDim /\ l.rotaryDim % 2 = 0
        /\ l.kernel = "sinks" =>
             /\ l.sinks \in Nat /\ l.kvHeads \in Positive /\ l.headDim \in Positive
             /\ l.rotaryDim \in Nat
             /\ l.rotaryDim <= l.headDim /\ l.rotaryDim % 2 = 0
BY LaunchesAssumption

(* What is over when a block starts, and when a thread goes on. *)
SameOver == \A c : \A u \in Threads : Over(c, u)' <=> Over(c, u)

(* A block that starts leaves what is over as it was. *)
LEMMA OverAfterStart ==
    ASSUME KernelControl, NEW b \in todo, StartBlock(b)
    PROVE  SameOver
<1>1. launch' = launch /\ todo' = todo \ {b} /\ block' = b /\ Done
      /\ pc' = [u \in Threads |-> launch.kernel]
    BY DEF StartBlock
<1>2. launch.kernel # "done"
    <2>1. launch.kernel \in {"tiled", "matvec", "normRope", "sinks"}  BY Kernels DEF KernelControl
    <2> QED BY <2>1
<1>3. ASSUME NEW c, NEW u \in Threads PROVE Over(c, u)' <=> Over(c, u)
    <2>1. Over(c, u)' <=> c \in Grid(launch) \ (todo \ {b}) /\ c # b
        BY <1>1, <1>2 DEF Over
    <2>2. Over(c, u) <=> c \in Grid(launch) \ todo  BY <1>1 DEF Over, Done
    <2> QED BY <2>1, <2>2
<1> QED BY <1>3 DEF SameOver

(* A step of a thread ends that thread, if it returns, and nothing else. *)
LEMMA OverAfterStep ==
    ASSUME KernelControl, UNCHANGED <<launch, todo, block>>, NEW t \in Threads, pc[t] # "done",
           NEW step, pc' = [pc EXCEPT ![t] = step], NEW c, NEW u \in Threads
    PROVE  Over(c, u)' <=> Over(c, u) \/ (step = "done" /\ c = block /\ u = t)
<1>1. pc'[u] = IF u = t THEN step ELSE pc[u]  BY DEF KernelControl
<1>2. block \in Grid(launch) \ todo  BY DEF KernelControl, Running
<1>3. Over(c, u)' <=> c \in Grid(launch) \ todo /\ (c = block => pc'[u] = "done")
    BY DEF Over
<1> QED BY <1>1, <1>2, <1>3 DEF Over

(* A thread that goes on to another step leaves what is over as it was. *)
LEMMA OverAfterGoing ==
    ASSUME KernelControl, UNCHANGED <<launch, todo, block>>, NEW t \in Threads, pc[t] # "done",
           NEW step, step # "done", pc' = [pc EXCEPT ![t] = step]
    PROVE  SameOver
BY OverAfterStep DEF SameOver

(* Control before the first block, and when a block starts. *)
LEMMA ControlBegins == KernelInit => KernelControl
<1> SUFFICES ASSUME KernelInit PROVE KernelControl
    OBVIOUS
<1>1. ~Running  BY DEF KernelInit, Running
<1>2. /\ DOMAIN EmptyArrays = {"x", "weight", "squares"}
      /\ DOMAIN EmptyArrays.x = Threads /\ DOMAIN EmptyArrays.weight = Threads
      /\ DOMAIN EmptyArrays.squares = Threads
    BY DEF EmptyArrays
<1> QED BY <1>1, <1>2 DEF KernelInit, KernelControl

(* A block that starts runs, under the same control. *)
LEMMA ControlStarts ==
    ASSUME KernelControl, NEW b \in todo, StartBlock(b)
    PROVE  KernelControl' /\ Running'
<1>1. /\ DOMAIN EmptyArrays = {"x", "weight", "squares"}
      /\ DOMAIN EmptyArrays.x = Threads /\ DOMAIN EmptyArrays.weight = Threads
      /\ DOMAIN EmptyArrays.squares = Threads
    BY DEF EmptyArrays
<1>2. launch.kernel \in Steps(launch.kernel) /\ launch.kernel # "done"
    <2>1. launch.kernel \in {"tiled", "matvec", "normRope", "sinks"}  BY Kernels DEF KernelControl
    <2> QED BY <2>1 DEF Steps
<1>3. 0 \in Threads  BY Blocks DEF Threads
<1>4. /\ launch' = launch /\ todo' = todo \ {b} /\ block' = b
      /\ pc' = [u \in Threads |-> launch.kernel] /\ stride' = [u \in Threads |-> 0]
      /\ sum' = [u \in Threads |-> EmptyBag] /\ arrived' = [u \in Threads |-> 0]
      /\ arrays' = EmptyArrays
    BY DEF StartBlock
<1>5. Running'  BY <1>2, <1>3, <1>4 DEF Running
<1>6. pc' \in [Threads -> Steps(launch.kernel) \cup {"done"}]  BY <1>2, <1>4
<1>7. b \in Grid(launch) /\ todo \ {b} \subseteq Grid(launch)  BY DEF KernelControl
<1> QED BY <1>1, <1>4, <1>5, <1>6, <1>7 DEF KernelControl

(* The terms of a product of row r by output i over the columns of S. *)
Terms(r, i, S) == {<<(r * launch.m) + column, (i * launch.m) + column>> : column \in S}

IsProduct == launch.kernel \in {"tiled", "matvec"}
Outputs == UpTo(launch.n * launch.batch)

(* The output o is the sum of the terms of its row and column. *)
Summing(o) == SetToBag(Terms(o \div launch.n, o % launch.n, UpTo(launch.m)))

(* Where an output is summed. *)
WarpsPerBlock == BlockDim \div launch.warp
OutBlock(o) ==
    IF launch.kernel = "tiled" THEN <<(o % launch.n) \div Tile, (o \div launch.n) \div Tile>>
    ELSE o \div WarpsPerBlock
OutThread(o) ==
    IF launch.kernel = "tiled" THEN (((o \div launch.n) % Tile) * Tile) + ((o % launch.n) % Tile)
    ELSE (o % WarpsPerBlock) * launch.warp

(* An output is the whole sum once its thread has returned. *)
ProductStores ==
    /\ memory = [out |-> [o \in Outputs |-> memory.out[o]]]
    /\ \A o \in Outputs : Over(OutBlock(o), OutThread(o)) => memory.out[o] = Summing(o)

(* The terms of columns given by a function with no repetition. *)
LEMMA TermsOnce ==
    ASSUME NEW r \in Nat, NEW i \in Nat, launch.m \in Nat, NEW S \in SUBSET Nat
    PROVE  BagOf([column \in S |-> <<(r * launch.m) + column, (i * launch.m) + column>>])
             = SetToBag(Terms(r, i, S))
<1> DEFINE f == [column \in S |-> <<(r * launch.m) + column, (i * launch.m) + column>>]
<1>1. \A a, b \in DOMAIN f : f[a] = f[b] => a = b
    <2> SUFFICES ASSUME NEW a \in S, NEW b \in S, f[a] = f[b] PROVE a = b
        OBVIOUS
    <2> DEFINE p == r * launch.m
    <2>1. p \in Nat /\ p + a = p + b  OBVIOUS
    <2> HIDE DEF p
    <2> QED BY <2>1
<1>2. {f[j] : j \in DOMAIN f} = Terms(r, i, S)  BY Zenon DEF Terms
<1> HIDE DEF f
<1>3. BagOf(f) = SetToBag({f[j] : j \in DOMAIN f})  BY <1>1, OnceEach
<1> QED BY <1>2, <1>3, Zenon DEF f

(* What the CPU sums. *)
LEMMA CpuSums ==
    ASSUME KernelControl, IsProduct
    PROVE  CpuProduct(launch) = [o \in Outputs |-> Summing(o)]
<1>1. launch.n \in Nat \ {0} /\ launch.m \in Nat \ {0} /\ launch.batch \in Nat \ {0}
    BY Kernels DEF KernelControl, IsProduct, Positive
<1>2. ASSUME NEW o \in Outputs
      PROVE  BagOf([column \in UpTo(launch.m) |->
                 <<((o \div launch.n) * launch.m) + column, ((o % launch.n) * launch.m) + column>>])
               = Summing(o)
    <2> DEFINE r == o \div launch.n  i == o % launch.n
    <2>1. o \in Nat  BY <1>1 DEF Outputs, UpTo
    <2>2. r \in Nat /\ i \in Nat
        <3>1. launch.n \in Positive  BY <1>1 DEF Positive
        <3>2. Cells(launch.n)  BY <3>1, CellsOf
        <3>3. i \in 0 .. launch.n - 1 /\ r \in Nat  BY <2>1, <3>2 DEF Cells
        <3> HIDE DEF r, i
        <3> QED BY <1>1, <3>3
    <2>3. UpTo(launch.m) \in SUBSET Nat  BY <1>1 DEF UpTo
    <2> HIDE DEF r, i
    <2>4. BagOf([column \in UpTo(launch.m) |-> <<(r * launch.m) + column, (i * launch.m) + column>>])
            = SetToBag(Terms(r, i, UpTo(launch.m)))
        BY <1>1, <2>2, <2>3, TermsOnce
    <2> QED BY <2>4, Zenon DEF r, i, Summing
<1>3. CpuProduct(launch) = [o \in Outputs |-> BagOf([column \in UpTo(launch.m) |->
        <<((o \div launch.n) * launch.m) + column, ((o % launch.n) * launch.m) + column>>])]
    BY Zenon DEF CpuProduct, Outputs
<1> QED BY <1>2, <1>3, Zenon

(* The thread of an output is in the grid. *)
LEMMA OutPlaces ==
    ASSUME KernelControl, IsProduct, NEW o \in Outputs
    PROVE  /\ OutBlock(o) \in Grid(launch) /\ OutThread(o) \in Threads
           /\ o \in Nat /\ o \div launch.n \in UpTo(launch.batch) /\ o % launch.n \in UpTo(launch.n)
           /\ o = ((o \div launch.n) * launch.n) + (o % launch.n)
           /\ launch.kernel = "tiled" =>
                /\ o \div launch.n = (OutBlock(o)[2] * Tile) + (OutThread(o) \div Tile)
                /\ o % launch.n = (OutBlock(o)[1] * Tile) + (OutThread(o) % Tile)
           /\ launch.kernel = "matvec" =>
                /\ OutThread(o) % launch.warp = 0 /\ o < launch.n
                /\ o = (OutBlock(o) * WarpsPerBlock) + (OutThread(o) \div launch.warp)
<1> DEFINE n == launch.n  batch == launch.batch  r == o \div n  i == o % n
<1>1. /\ n \in Positive /\ launch.m \in Positive /\ batch \in Positive
      /\ launch.warp \in Positive /\ BlockDim % launch.warp = 0
      /\ launch.kernel = "matvec" => batch = 1
    BY Kernels DEF KernelControl, IsProduct
<1>2. n \in Nat \ {0} /\ batch \in Nat \ {0} /\ launch.warp \in Nat \ {0}  BY <1>1 DEF Positive
<1>3. o \in Nat /\ o < batch * n  BY <1>2 DEF Outputs, UpTo
<1>4. r \in UpTo(batch) /\ i \in UpTo(n) /\ o = (r * n) + i
    <2>1. r \in 0 .. batch - 1 /\ i \in 0 .. n - 1 /\ o = (r * n) + i
        BY <1>2, <1>3, QuotientBound
    <2> QED BY <2>1 DEF UpTo
<1>5. r \in Nat /\ i \in Nat /\ r < batch /\ i < n  BY <1>2, <1>4 DEF UpTo
<1>6. ASSUME launch.kernel = "tiled"
      PROVE  /\ OutBlock(o) \in Grid(launch) /\ OutThread(o) \in Threads
             /\ r = (OutBlock(o)[2] * Tile) + (OutThread(o) \div Tile)
             /\ i = (OutBlock(o)[1] * Tile) + (OutThread(o) % Tile)
    <2> DEFINE bx == i \div Tile  tx == i % Tile  by == r \div Tile  ty == r % Tile
    <2>1. Tile \in Positive /\ Tile \in Nat \ {0} /\ BlockDim = Tile * Tile
        BY TileAssumption DEF Positive
    <2>2. bx \in UpTo(CeilDiv(n, Tile)) /\ by \in UpTo(CeilDiv(batch, Tile))
        BY <1>2, <1>4, <2>1, InGrid
    <2>3. /\ tx \in 0 .. Tile - 1 /\ ty \in 0 .. Tile - 1
          /\ i = (bx * Tile) + tx /\ r = (by * Tile) + ty
        BY <1>5, <2>1, CellsOf DEF Cells
    <2>4. OutBlock(o) = <<bx, by>> /\ OutThread(o) = (ty * Tile) + tx
        BY <1>6 DEF OutBlock, OutThread
    <2>5. Grid(launch) = UpTo(CeilDiv(n, Tile)) \X UpTo(CeilDiv(batch, Tile))
        BY <1>6 DEF Grid
    <2> HIDE DEF bx, by, tx, ty
    <2>6. (ty * Tile) + tx \in 0 .. (Tile * Tile) - 1  BY <2>1, <2>3, Offsets
    <2>7. ((ty * Tile) + tx) \div Tile = ty /\ ((ty * Tile) + tx) % Tile = tx
        BY <2>1, <2>3, CellsOf DEF Cells
    <2>8. OutThread(o) \in Threads  BY <2>1, <2>4, <2>6 DEF Threads
    <2>9. OutBlock(o) \in Grid(launch)  BY <2>2, <2>4, <2>5
    <2> QED BY <2>3, <2>4, <2>7, <2>8, <2>9
<1>7. ASSUME launch.kernel = "matvec"
      PROVE  /\ OutBlock(o) \in Grid(launch) /\ OutThread(o) \in Threads
             /\ OutThread(o) % launch.warp = 0 /\ o < n
             /\ o = (OutBlock(o) * WarpsPerBlock) + (OutThread(o) \div launch.warp)
    <2> DEFINE w == launch.warp  R == WarpsPerBlock  b == o \div R  p == o % R
    <2>1. R \in Nat \ {0} /\ BlockDim = R * w
        <3> DEFINE q == BlockDim \div w
        <3>1. BlockDim \in Nat \ {0}  BY Blocks
        <3>2. q \in Nat /\ BlockDim = (w * q) + 0
            BY <1>1, <1>2, <3>1, Division, QuotientBelow
        <3> HIDE DEF q
        <3>3. q # 0 /\ BlockDim = q * w  BY <1>2, <3>1, <3>2
        <3> QED BY <3>2, <3>3 DEF q, WarpsPerBlock
    <2>2. o \in UpTo(n) /\ o < n  BY <1>1, <1>2, <1>3, <1>7 DEF UpTo
    <2>3. OutBlock(o) = b /\ OutThread(o) = p * w  BY <1>7 DEF OutBlock, OutThread
    <2>4. Grid(launch) = UpTo(CeilDiv(n, R))  BY <1>7 DEF Grid, WarpsPerBlock
    <2> HIDE DEF R
    <2>5. b \in UpTo(CeilDiv(n, R))  BY <1>2, <2>1, <2>2, InGrid DEF Positive
    <2>6. p \in 0 .. R - 1 /\ o = (b * R) + p  BY <1>3, <2>1, CellsOf DEF Cells, Positive
    <2> HIDE DEF b, p
    <2>7. p \in Nat /\ 0 \in 0 .. w - 1 /\ (p * w) + 0 = p * w  BY <1>2, <2>1, <2>6
    <2>8. (p * w) \div w = p /\ (p * w) % w = 0
        <3>1. ((p * w) + 0) \div w = p /\ ((p * w) + 0) % w = 0  BY <1>1, <2>7, CellsOf, ZenonT(40) DEF Cells
        <3> QED BY <2>7, <3>1
    <2>9. p * w \in 0 .. (R * w) - 1
        <3>1. (p * w) + 0 \in 0 .. (R * w) - 1  BY <1>2, <2>1, <2>6, <2>7, Offsets
        <3> QED BY <2>7, <3>1
    <2>10. OutThread(o) \in Threads  BY <2>1, <2>3, <2>9 DEF Threads
    <2>11. OutBlock(o) \in Grid(launch)  BY <2>3, <2>4, <2>5
    <2> QED BY <2>2, <2>3, <2>6, <2>8, <2>10, <2>11 DEF R
<1>8. o \in Nat /\ r \in UpTo(batch) /\ i \in UpTo(n) /\ o = (r * n) + i  BY <1>3, <1>4
<1>9. launch.kernel = "tiled" \/ launch.kernel = "matvec"  BY DEF IsProduct
<1> HIDE DEF r, i, n, batch
<1> QED BY <1>6, <1>7, <1>8, <1>9, Zenon DEF r, i, n, batch

(* A thread that returns stores the output that is its own, if it has one. *)
LEMMA StoreKeeps ==
    ASSUME KernelControl, IsProduct, ProductStores, UNCHANGED <<launch, todo, block>>,
           NEW t \in Threads, pc[t] # "done", pc' = [pc EXCEPT ![t] = "done"],
           NEW k,
           \A o \in Outputs : OutBlock(o) = block /\ OutThread(o) = t => o = k,
           \/ memory' = memory /\ ~(k \in Outputs /\ OutBlock(k) = block /\ OutThread(k) = t)
           \/ memory' = [memory EXCEPT !.out[k] = Summing(k)]
    PROVE  ProductStores'
<1>1. /\ Outputs' = Outputs /\ launch' = launch /\ todo' = todo /\ block' = block
      /\ \A o : OutBlock(o)' = OutBlock(o) /\ OutThread(o)' = OutThread(o)
                /\ Summing(o)' = Summing(o)
    BY DEF Outputs, OutBlock, OutThread, Summing, Terms, WarpsPerBlock
<1>2. memory = [out |-> [a \in Outputs |-> memory.out[a]]]  BY DEF ProductStores
<1>3. memory' = [out |-> [a \in Outputs |-> memory'.out[a]]]
    <2> DEFINE f == [a \in Outputs |-> memory.out[a]]
    <2>2. [memory EXCEPT !.out[k] = Summing(k)] = [out |-> [f EXCEPT ![k] = Summing(k)]]
        BY <1>2
    <2>3. [f EXCEPT ![k] = Summing(k)] = [a \in Outputs |-> [f EXCEPT ![k] = Summing(k)][a]]
        OBVIOUS
    <2> QED BY <1>2, <2>2, <2>3
<1>4. ASSUME NEW o \in Outputs, Over(OutBlock(o), OutThread(o))' PROVE memory'.out[o] = Summing(o)
    <2>1. OutThread(o) \in Threads  BY OutPlaces
    <2>2. \E b : \E u \in Threads : b = OutBlock(o) /\ u = OutThread(o) /\ Over(b, u)'
        BY <1>1, <1>4, <2>1 DEF Over
    <2>3. Over(OutBlock(o), OutThread(o)) \/ (OutBlock(o) = block /\ OutThread(o) = t)
        <3>1. PICK b : \E u \in Threads : b = OutBlock(o) /\ u = OutThread(o) /\ Over(b, u)'
            BY <2>2
        <3>2. PICK u \in Threads : b = OutBlock(o) /\ u = OutThread(o) /\ Over(b, u)'
            BY <3>1
        <3>3. Over(b, u) \/ ("done" = "done" /\ b = block /\ u = t)
            <4>1. Over(b, u)'  BY <3>2
            <4>2. u \in Threads  OBVIOUS
            <4>3. KernelControl /\ UNCHANGED <<launch, todo, block>> /\ t \in Threads /\ pc[t] # "done"  OBVIOUS
            <4>4. pc' = [pc EXCEPT ![t] = "done"]  OBVIOUS
            <4> HIDE <3>2
            <4> QED BY <4>1, <4>2, <4>3, <4>4, OverAfterStep, Zenon
        <3> QED BY <3>2, <3>3
    <2>4. CASE Over(OutBlock(o), OutThread(o))
        <3>1. memory.out[o] = Summing(o)  BY <2>4 DEF ProductStores
        <3> QED BY <1>2, <3>1
    <2>5. CASE OutBlock(o) = block /\ OutThread(o) = t
        <3>1. o = k /\ memory' = [memory EXCEPT !.out[k] = Summing(k)]  BY <2>5
        <3> QED BY <1>2, <3>1
    <2> QED BY <2>3, <2>4, <2>5
<1> QED BY <1>1, <1>3, <1>4, Zenon DEF ProductStores

-----------------------------------------------------------------------------
(***************************************************************************)
(* matmul_tiled.                                                           *)
(***************************************************************************)

(* What thread u loads of the tile at column s. *)
TileX(u, s) ==
    IF BatchRow(u) < launch.batch /\ s + Tx(u) < launch.m
    THEN (BatchRow(u) * launch.m) + (s + Tx(u)) ELSE -1
TileWeight(u, s) ==
    IF (block[1] * Tile) + Ty(u) < launch.n /\ s + Tx(u) < launch.m
    THEN (((block[1] * Tile) + Ty(u)) * launch.m) + (s + Tx(u)) ELSE -1

HoldsTile(u, s) ==
    arrays.x[u] = TileX(u, s) /\ arrays.weight[(Tx(u) * Tile) + Ty(u)] = TileWeight(u, s)

(* How far thread t is, and what it has left in the shared arrays. *)
TilePlace(t) ==
    \E k \in Nat :
        /\ stride[t] = k * Tile
        /\ arrived[t] = IF pc[t] = "addTile" THEN (2 * k) + 1 ELSE 2 * k
        /\ pc[t] = "addTile" => HoldsTile(t, stride[t])
        /\ pc[t] # "addTile" /\ k > 0 => HoldsTile(t, stride[t] - Tile)

InRange(t) == BatchRow(t) < launch.batch /\ Output(t) < launch.n

(* The columns before column s. *)
Before(s) == {column \in UpTo(launch.m) : column < s}

(* The sum of a thread holds the columns of the tiles it has added. *)
TiledSums ==
    Running =>
        /\ \A t, u \in Threads : arrived[u] <= arrived[t] + 1
        /\ \A t \in Threads :
              /\ TilePlace(t)
              /\ InRange(t) => sum[t] = SetToBag(Terms(BatchRow(t), Output(t), Before(stride[t])))

TiledInv == launch.kernel = "tiled" => KernelControl /\ ProductStores /\ TiledSums

(* The row and the output of a thread, and the threads of its row and column. *)
LEMMA TileShape ==
    ASSUME KernelControl, launch.kernel = "tiled", Running
    PROVE  /\ Tile \in Nat \ {0} /\ BlockDim = Tile * Tile
           /\ launch.n \in Nat \ {0} /\ launch.m \in Nat \ {0} /\ launch.batch \in Nat \ {0}
           /\ block[1] \in Nat /\ block[2] \in Nat
           /\ \A t \in Threads :
                /\ Tx(t) \in UpTo(Tile) /\ Ty(t) \in UpTo(Tile) /\ t = (Ty(t) * Tile) + Tx(t)
                /\ BatchRow(t) \in Nat /\ Output(t) \in Nat
           /\ \A x, y \in UpTo(Tile) :
                /\ (y * Tile) + x \in Threads
                /\ Tx((y * Tile) + x) = x /\ Ty((y * Tile) + x) = y
<1>1. Tile \in Nat \ {0} /\ Tile \in Positive /\ BlockDim = Tile * Tile
    BY TileAssumption DEF Positive
<1>2. launch.n \in Nat \ {0} /\ launch.m \in Nat \ {0} /\ launch.batch \in Nat \ {0}
    BY Kernels DEF KernelControl, Positive
<1>3. block[1] \in Nat /\ block[2] \in Nat
    <2>1. block \in Grid(launch)  BY DEF KernelControl
    <2>2. Grid(launch) = UpTo(CeilDiv(launch.n, Tile)) \X UpTo(CeilDiv(launch.batch, Tile))
        BY DEF Grid
    <2> DEFINE S == UpTo(CeilDiv(launch.n, Tile))  V == UpTo(CeilDiv(launch.batch, Tile))
    <2>3. block \in S \X V  BY <2>1, <2>2, Zenon
    <2> HIDE DEF S, V
    <2>4. block[1] \in S /\ block[2] \in V  BY <2>3
    <2>5. \A x \in S \cup V : x \in Nat
        <3>1. \A c : \A x \in UpTo(c) : x \in 0 .. c - 1  BY Zenon DEF UpTo
        <3>2. \A c : \A x \in 0 .. c - 1 : x \in Nat
            OBVIOUS
        <3> QED BY <3>1, <3>2 DEF S, V
    <2> QED BY <2>4, <2>5
<1>4. ASSUME NEW t \in Threads
      PROVE  /\ Tx(t) \in UpTo(Tile) /\ Ty(t) \in UpTo(Tile) /\ t = (Ty(t) * Tile) + Tx(t)
             /\ BatchRow(t) \in Nat /\ Output(t) \in Nat
    <2> DEFINE x == t % Tile  y == t \div Tile
    <2>1. t \in Nat /\ t < Tile * Tile  BY <1>1, Blocks
    <2>2. x \in 0 .. Tile - 1 /\ y \in 0 .. Tile - 1 /\ t = (y * Tile) + x
        BY <1>1, <2>1, QuotientBound
    <2> HIDE DEF x, y
    <2>3. (block[2] * Tile) + y \in Nat /\ (block[1] * Tile) + x \in Nat
        BY <1>1, <1>3, <2>2
    <2> QED BY <2>2, <2>3 DEF x, y, Tx, Ty, UpTo, BatchRow, Output
<1>5. ASSUME NEW x \in UpTo(Tile), NEW y \in UpTo(Tile)
      PROVE  /\ (y * Tile) + x \in Threads
             /\ Tx((y * Tile) + x) = x /\ Ty((y * Tile) + x) = y
    <2>1. x \in 0 .. Tile - 1 /\ y \in 0 .. Tile - 1 /\ y \in Nat  BY <1>1 DEF UpTo
    <2>2. (y * Tile) + x \in 0 .. (Tile * Tile) - 1  BY <1>1, <2>1, Offsets
    <2>3. ((y * Tile) + x) \div Tile = y /\ ((y * Tile) + x) % Tile = x
        BY <1>1, <2>1, CellsOf DEF Cells
    <2> QED BY <1>1, <2>2, <2>3 DEF Tx, Ty, Threads
<1> QED BY <1>1, <1>2, <1>3, <1>4, <1>5

(* The barriers keep the threads of a tile within one of each other. *)
LEMMA BarrierKeeps ==
    ASSUME arrived \in [Threads -> Nat], NEW t \in Threads, Open(t), Arrive(t),
           \A u, v \in Threads : arrived[u] <= arrived[v] + 1
    PROVE  \A u, v \in Threads : arrived'[u] <= arrived'[v] + 1
<1>1. arrived' = [arrived EXCEPT ![t] = arrived[t] + 1]  BY DEF Arrive
<1>2. \A v \in Threads : arrived[v] \in Nat /\ arrived[t] <= arrived[v]  BY DEF Open
<1>3. \A v \in Threads : arrived'[v] = IF v = t THEN arrived[t] + 1 ELSE arrived[v]
    BY <1>1
<1> QED BY <1>2, <1>3

(* A thread that goes on leaves the control of the others. *)
LEMMA ControlGoes ==
    ASSUME KernelControl, UNCHANGED <<launch, todo, block>>, NEW t \in Threads, pc[t] # "done",
           NEW step, pc' = [pc EXCEPT ![t] = step], step \in Steps(launch.kernel) \cup {"done"},
           stride' \in [Threads -> Nat], arrived' \in [Threads -> Nat], DOMAIN sum' = Threads,
           \/ UNCHANGED arrays
           \/ /\ DOMAIN arrays' = {"x", "weight", "squares"}
              /\ DOMAIN arrays'.x = Threads /\ DOMAIN arrays'.weight = Threads
              /\ DOMAIN arrays'.squares = Threads
    PROVE  KernelControl'
<1>1. /\ DOMAIN arrays' = {"x", "weight", "squares"}
      /\ DOMAIN arrays'.x = Threads /\ DOMAIN arrays'.weight = Threads
      /\ DOMAIN arrays'.squares = Threads
    BY DEF KernelControl
<1>2. pc' \in [Threads -> Steps(launch.kernel) \cup {"done"}]  BY DEF KernelControl
<1>3. block \in Grid(launch) \ todo  BY DEF KernelControl, Running
<1> QED BY <1>1, <1>2, <1>3 DEF KernelControl

(* Arriving at a barrier. *)
LEMMA Arrives ==
    ASSUME arrived \in [Threads -> Nat], NEW t \in Threads, Arrive(t)
    PROVE  /\ arrived' \in [Threads -> Nat]
           /\ \A u \in Threads : arrived'[u] = IF u = t THEN arrived[t] + 1 ELSE arrived[u]
BY DEF Arrive

(* Then the outputs stay as they are. *)
LEMMA StoresKept ==
    ASSUME KernelControl, IsProduct, ProductStores, UNCHANGED <<launch, memory>>, SameOver
    PROVE  ProductStores'
<1>1. launch' = launch /\ memory' = memory  OBVIOUS
<1>2. /\ Outputs' = Outputs
      /\ \A o : OutBlock(o)' = OutBlock(o) /\ OutThread(o)' = OutThread(o)
                /\ Summing(o)' = Summing(o)
    BY <1>1 DEF Outputs, OutBlock, OutThread, Summing, Terms, WarpsPerBlock
<1>3. ASSUME NEW o \in Outputs, Over(OutBlock(o), OutThread(o))'
      PROVE  Over(OutBlock(o), OutThread(o))
    <2>1. OutThread(o) \in Threads  BY OutPlaces
    <2>2. \E c : \E u \in Threads : c = OutBlock(o) /\ u = OutThread(o) /\ Over(c, u)'
        BY <1>2, <1>3, <2>1 DEF Over
    <2>3. PICK c : \E u \in Threads : c = OutBlock(o) /\ u = OutThread(o) /\ Over(c, u)'
        BY <2>2
    <2>4. PICK u \in Threads : c = OutBlock(o) /\ u = OutThread(o) /\ Over(c, u)'
        BY <2>3
    <2>5. Over(c, u)  BY <2>4 DEF SameOver
    <2> QED BY <2>4, <2>5
<1>4. ASSUME NEW o \in Outputs, Over(OutBlock(o), OutThread(o))' PROVE memory'.out[o] = Summing(o)
    BY <1>1, <1>3, <1>4 DEF ProductStores
<1>5. memory' = [out |-> [a \in Outputs |-> memory'.out[a]]]  BY <1>1 DEF ProductStores
<1> QED BY <1>2, <1>4, <1>5, Zenon DEF ProductStores

(* What a thread that loads its part of a tile leaves as it was. *)
LEMMA LoadKeeps ==
    ASSUME TiledInv, launch.kernel = "tiled", NEW t \in Threads, LoadTile(t)
    PROVE  TiledInv'
<1> DEFINE at == (Tx(t) * Tile) + Ty(t)
           xs == TileX(t, stride[t])
           ws == TileWeight(t, stride[t])
<1>1. /\ pc[t] = "tiled" /\ Open(t) /\ stride[t] < launch.m
      /\ arrays' = [arrays EXCEPT !.x[t] = xs, !.weight[at] = ws]
      /\ pc' = [pc EXCEPT ![t] = "addTile"] /\ Arrive(t)
      /\ UNCHANGED <<launch, todo, block, stride, sum, memory>>
    BY Zenon DEF LoadTile, Meet, Go, TileX, TileWeight
<1>2. KernelControl /\ ProductStores /\ TiledSums  BY DEF TiledInv
<1>3. Running  BY <1>1 DEF Running
<1>4. IsProduct  BY DEF IsProduct
<1>5. /\ \A u \in Threads : pc'[u] = IF u = t THEN "addTile" ELSE pc[u]
      /\ arrived \in [Threads -> Nat] /\ stride \in [Threads -> Nat]
      /\ DOMAIN arrays = {"x", "weight", "squares"}
      /\ DOMAIN arrays.x = Threads /\ DOMAIN arrays.weight = Threads
      /\ DOMAIN arrays.squares = Threads /\ DOMAIN sum = Threads
    BY <1>1, <1>2 DEF KernelControl
<1>6. /\ arrived' \in [Threads -> Nat]
      /\ \A u \in Threads : arrived'[u] = IF u = t THEN arrived[t] + 1 ELSE arrived[u]
    BY <1>1, <1>5, Arrives
<1>7. /\ DOMAIN arrays' = {"x", "weight", "squares"}
      /\ DOMAIN arrays'.x = Threads /\ DOMAIN arrays'.weight = Threads
      /\ DOMAIN arrays'.squares = Threads
      /\ \A u \in Threads : /\ arrays'.x[u] = IF u = t THEN xs ELSE arrays.x[u]
                            /\ arrays'.weight[u] = IF u = at THEN ws ELSE arrays.weight[u]
    <2> HIDE DEF xs, ws, at
    <2> QED BY <1>1, <1>5
<1>8. KernelControl'
    <2>1. "addTile" \in Steps(launch.kernel) \cup {"done"}  BY DEF Steps
    <2>2. /\ stride' \in [Threads -> Nat] /\ DOMAIN sum' = Threads /\ pc[t] # "done"
          /\ UNCHANGED <<launch, todo, block>>
        BY <1>1, <1>5
    <2> HIDE DEF xs, ws, at
    <2> QED BY <1>1, <1>2, <1>6, <1>7, <2>1, <2>2, ControlGoes
<1>9. ProductStores'
    <2>1. UNCHANGED <<launch, todo, block>> /\ pc[t] # "done" /\ "addTile" # "done"  BY <1>1
    <2>2. SameOver  BY <1>1, <1>2, <2>1, OverAfterGoing
    <2>3. UNCHANGED <<launch, memory>>  BY <1>1
    <2> QED BY <1>2, <1>4, <2>2, <2>3, StoresKept
<1>10. ASSUME NEW u \in Threads, NEW s, u # t, HoldsTile(u, s) PROVE HoldsTile(u, s)'
    <2>1. (Tx(u) * Tile) + Ty(u) \in Threads /\ (Tx(u) * Tile) + Ty(u) # at
        <3> DEFINE v == (Tx(u) * Tile) + Ty(u)
        <3>1. /\ Tx(u) \in UpTo(Tile) /\ Ty(u) \in UpTo(Tile) /\ u = (Ty(u) * Tile) + Tx(u)
              /\ Tx(t) \in UpTo(Tile) /\ Ty(t) \in UpTo(Tile) /\ t = (Ty(t) * Tile) + Tx(t)
            BY <1>2, <1>3, TileShape
        <3>2. /\ v \in Threads /\ Tx(v) = Ty(u) /\ Ty(v) = Tx(u)
              /\ Tx(at) = Ty(t) /\ Ty(at) = Tx(t)
            BY <1>2, <1>3, <3>1, TileShape
        <3> HIDE DEF v, at
        <3>3. v = at => Tx(u) = Tx(t) /\ Ty(u) = Ty(t)  BY <3>2
        <3>4. v # at  BY <1>10, <3>1, <3>3
        <3> QED BY <3>2, <3>4 DEF v
    <2>2. TileX(u, s)' = TileX(u, s) /\ TileWeight(u, s)' = TileWeight(u, s)
        BY <1>1 DEF TileX, TileWeight, BatchRow
    <2> HIDE DEF at, xs, ws
    <2> QED BY <1>7, <1>10, <2>1, <2>2 DEF HoldsTile
<1>11. ASSUME NEW s, s = stride[t] PROVE HoldsTile(t, s)'
    <2>1. TileX(t, s)' = xs /\ TileWeight(t, s)' = ws
        BY <1>1, <1>11 DEF TileX, TileWeight, BatchRow
    <2>2. at \in Threads
        <3>1. Tx(t) \in UpTo(Tile) /\ Ty(t) \in UpTo(Tile)  BY <1>2, <1>3, TileShape
        <3> QED BY <1>2, <1>3, <3>1, TileShape
    <2> HIDE DEF xs, ws
    <2> QED BY <1>7, <2>1, <2>2 DEF HoldsTile
<1>12. ASSUME NEW u \in Threads PROVE TilePlace(u)'
    <2>1. TilePlace(u)  BY <1>2, <1>3 DEF TiledSums
    <2>2. PICK k \in Nat :
            /\ stride[u] = k * Tile
            /\ arrived[u] = IF pc[u] = "addTile" THEN (2 * k) + 1 ELSE 2 * k
            /\ pc[u] = "addTile" => HoldsTile(u, stride[u])
            /\ pc[u] # "addTile" /\ k > 0 => HoldsTile(u, stride[u] - Tile)
        BY <2>1 DEF TilePlace
    <2>3. CASE u = t
        <3>1. arrived'[u] = (2 * k) + 1  BY <1>1, <1>6, <2>2, <2>3
        <3>2. HoldsTile(u, stride[u])'
            <4>1. PICK s : s = stride[t]  OBVIOUS
            <4>2. HoldsTile(t, s)'  BY <1>11, <4>1
            <4>3. stride'[u] = s  BY <1>1, <2>3, <4>1
            <4> QED BY <2>3, <4>2, <4>3
        <3>3. pc'[u] = "addTile" /\ stride'[u] = k * Tile  BY <1>1, <1>5, <2>2, <2>3
        <3> QED BY <3>1, <3>2, <3>3 DEF TilePlace
    <2>4. CASE u # t
        <3>1. arrived'[u] = arrived[u] /\ pc'[u] = pc[u] /\ stride' = stride
            BY <1>1, <1>5, <1>6, <2>4
        <3>2. \A s : HoldsTile(u, s) => HoldsTile(u, s)'  BY <1>10, <2>4
        <3>3. HoldsTile(u, stride[u]) => HoldsTile(u, stride[u])'
            <4>1. PICK s : s = stride[u]  OBVIOUS
            <4>2. s = stride'[u]  BY <3>1, <4>1
            <4> QED BY <3>2, <4>1, <4>2
        <3>4. HoldsTile(u, stride[u] - Tile) => HoldsTile(u, stride[u] - Tile)'
            <4>1. PICK s : s = stride[u] - Tile  OBVIOUS
            <4>2. s = stride'[u] - Tile  BY <3>1, <4>1
            <4> QED BY <3>2, <4>1, <4>2
        <3> QED BY <2>2, <3>1, <3>3, <3>4 DEF TilePlace
    <2> QED BY <2>3, <2>4
<1>13. ASSUME NEW u \in Threads, InRange(u)'
      PROVE  (sum[u] = SetToBag(Terms(BatchRow(u), Output(u), Before(stride[u]))))'
    <2>1. InRange(u)  BY <1>1, <1>13 DEF InRange, BatchRow, Output
    <2>2. sum[u] = SetToBag(Terms(BatchRow(u), Output(u), Before(stride[u])))
        BY <1>2, <1>3, <2>1 DEF TiledSums
    <2> QED BY <1>1, <2>2 DEF BatchRow, Output, Terms, Before
<1>14. \A u, v \in Threads : arrived'[u] <= arrived'[v] + 1
    <2>1. \A u, v \in Threads : arrived[u] <= arrived[v] + 1  BY <1>2, <1>3 DEF TiledSums
    <2> QED BY <1>1, <1>5, <2>1, BarrierKeeps
<1>15. TiledSums'  BY <1>12, <1>13, <1>14 DEF TiledSums
<1> QED BY <1>8, <1>9, <1>15 DEF TiledInv

(* A thread finds the tiles its own thread row and column loaded. *)
LEMMA TileSum ==
    ASSUME TiledInv, launch.kernel = "tiled", NEW t \in Threads, pc[t] = "addTile", Open(t),
           InRange(t), AddedTile(t)
    PROVE  sum' = [sum EXCEPT ![t] = SetToBag(Terms(BatchRow(t), Output(t), Before(stride[t] + Tile)))]
<1> DEFINE s == stride[t]
           r == BatchRow(t)
           i == Output(t)
           m == launch.m
           x(j) == arrays.x[(Ty(t) * Tile) + j]
           weight(j) == arrays.weight[(j * Tile) + Tx(t)]
           nonzero == {j \in UpTo(Tile) : x(j) # -1 /\ weight(j) # -1}
           f == [j \in nonzero |-> <<x(j), weight(j)>>]
           C == {column \in UpTo(m) : s <= column /\ column < s + Tile}
<1>1. KernelControl /\ TiledSums /\ Running  BY DEF TiledInv, Running
<1>2. /\ Tile \in Nat \ {0} /\ m \in Nat \ {0} /\ r \in Nat /\ i \in Nat /\ s \in Nat
      /\ r < launch.batch /\ i < launch.n
      /\ Tx(t) \in UpTo(Tile) /\ Ty(t) \in UpTo(Tile)
    <2>1. s \in Nat  BY <1>1 DEF KernelControl
    <2> QED BY <1>1, <2>1, TileShape DEF InRange
<1>3. PICK k \in Nat : s = k * Tile /\ arrived[t] = (2 * k) + 1
    BY <1>1 DEF TiledSums, TilePlace
<1>4. ASSUME NEW u \in Threads PROVE HoldsTile(u, s)
    <2>1. TilePlace(u)  BY <1>1 DEF TiledSums
    <2>2. PICK c \in Nat :
            /\ stride[u] = c * Tile
            /\ arrived[u] = IF pc[u] = "addTile" THEN (2 * c) + 1 ELSE 2 * c
            /\ pc[u] = "addTile" => HoldsTile(u, stride[u])
            /\ pc[u] # "addTile" /\ c > 0 => HoldsTile(u, stride[u] - Tile)
        BY <2>1 DEF TilePlace
    <2>3. arrived[u] >= arrived[t] /\ arrived[u] <= arrived[t] + 1
        BY <1>1 DEF TiledSums, Open
    <2>4. CASE pc[u] = "addTile"
        <3>1. c = k
            <4> HIDE DEF s
            <4> QED BY <1>3, <2>2, <2>3, <2>4
        <3> QED BY <1>3, <2>2, <2>4, <3>1
    <2>5. CASE pc[u] # "addTile"
        <3>1. c = k + 1
            <4> HIDE DEF s
            <4> QED BY <1>3, <2>2, <2>3, <2>5
        <3>2. stride[u] - Tile = s
            <4> HIDE DEF s
            <4>1. stride[u] = (k + 1) * Tile  BY <2>2, <3>1
            <4>2. (k + 1) * Tile = (k * Tile) + Tile  BY <1>2
            <4>3. k * Tile \in Int  BY <1>2
            <4> QED BY <1>2, <1>3, <4>1, <4>2, <4>3
        <3> QED BY <2>2, <2>5, <3>1, <3>2
    <2> QED BY <2>4, <2>5
<1>5. ASSUME NEW j \in UpTo(Tile)
      PROVE  /\ x(j) = IF s + j < m THEN (r * m) + (s + j) ELSE -1
             /\ weight(j) = IF s + j < m THEN (i * m) + (s + j) ELSE -1
    <2>1. x(j) = IF s + j < m THEN (r * m) + (s + j) ELSE -1
        <3> DEFINE u == (Ty(t) * Tile) + j
        <3>1. u \in Threads /\ Tx(u) = j /\ Ty(u) = Ty(t)  BY <1>1, <1>2, TileShape
        <3>2. arrays.x[u] = TileX(u, s)
            <4> HIDE DEF u, s
            <4> QED BY <1>4, <3>1 DEF HoldsTile
        <3>3. BatchRow(u) = r
            <4> HIDE DEF u
            <4> QED BY <3>1 DEF BatchRow
        <3>4. TileX(u, s) = IF s + j < m THEN (r * m) + (s + j) ELSE -1
            <4> HIDE DEF u, s, r
            <4> QED BY <1>2, <3>1, <3>3 DEF TileX
        <3> QED BY <3>2, <3>4
    <2>2. weight(j) = IF s + j < m THEN (i * m) + (s + j) ELSE -1
        <3> DEFINE u == (Tx(t) * Tile) + j
        <3>1. u \in Threads /\ Tx(u) = j /\ Ty(u) = Tx(t)  BY <1>1, <1>2, TileShape
        <3>2. arrays.weight[(j * Tile) + Tx(t)] = TileWeight(u, s)
            <4> HIDE DEF u, s
            <4> QED BY <1>4, <3>1 DEF HoldsTile
        <3>3. (block[1] * Tile) + Ty(u) = i
            <4> HIDE DEF u
            <4> QED BY <3>1 DEF Output
        <3>4. TileWeight(u, s) = IF s + j < m THEN (i * m) + (s + j) ELSE -1
            <4> HIDE DEF u, s, i
            <4> QED BY <1>2, <3>1, <3>3 DEF TileWeight
        <3> QED BY <3>2, <3>4
    <2> QED BY <2>1, <2>2
<1>6. sum' = [sum EXCEPT ![t] = @ (+) BagOf(f)]  BY DEF AddedTile
<1>7. sum[t] = SetToBag(Terms(r, i, Before(s)))  BY <1>1 DEF TiledSums
<1>8. Terms(r, i, Before(s)) \cap Terms(r, i, C) = {} /\ Terms(r, i, Before(s)) \cup Terms(r, i, C)
        = Terms(r, i, Before(s + Tile))
    <2> HIDE DEF r, i
    <2>1. Before(s) \cup C = Before(s + Tile)
        <3> HIDE DEF s
        <3> QED BY <1>2 DEF Before, UpTo
    <2>2. ASSUME NEW a \in Before(s), NEW c \in C,
                 <<(r * m) + a, (i * m) + a>> = <<(r * m) + c, (i * m) + c>>
          PROVE  FALSE
        <3> DEFINE p == r * m
        <3>1. p \in Int /\ a \in Nat /\ c \in Nat /\ a < c
            <4> HIDE DEF s
            <4> QED BY <1>2 DEF Before, UpTo
        <3>2. p + a = p + c  BY <2>2
        <3> HIDE DEF p
        <3> QED BY <3>1, <3>2
    <2> HIDE DEF C, s
    <2> QED BY <2>1, <2>2 DEF Terms
<1>9. BagOf(f) = SetToBag(Terms(r, i, C))
    <2>1. nonzero = {j \in UpTo(Tile) : s + j < m}
        <3> DEFINE p == r * m  q == i * m
        <3>1. p \in Nat /\ q \in Nat  BY <1>2
        <3>2. \A j \in UpTo(Tile) : j \in Nat  BY <1>2 DEF UpTo
        <3> HIDE DEF x, weight, s, r, i, m
        <3>3. \A j \in UpTo(Tile) : x(j) = IF s + j < m THEN p + (s + j) ELSE -1
            BY <1>5
        <3>4. \A j \in UpTo(Tile) : weight(j) = IF s + j < m THEN q + (s + j) ELSE -1
            BY <1>5
        <3> HIDE DEF p, q
        <3>5. \A j \in UpTo(Tile) : x(j) # -1 /\ weight(j) # -1 <=> s + j < m
            BY <1>2, <3>1, <3>2, <3>3, <3>4
        <3> QED BY <3>5
    <2>2. ASSUME NEW a \in DOMAIN f, NEW c \in DOMAIN f, f[a] = f[c] PROVE a = c
        <3> DEFINE p == r * m
        <3> HIDE DEF x, weight, s, r, i, m
        <3>1. p \in Nat /\ a \in Nat /\ c \in Nat  BY <1>2, <2>1 DEF UpTo
        <3>2. p + (s + a) = p + (s + c)
            <4>1. x(a) = x(c)  BY <2>2
            <4> QED BY <1>5, <2>1, <4>1
        <3> HIDE DEF p
        <3> QED BY <1>2, <3>1, <3>2
    <2>3. {f[j] : j \in DOMAIN f} = Terms(r, i, C)
        <3>1. {f[j] : j \in DOMAIN f} = {<<x(j), weight(j)>> : j \in nonzero}  OBVIOUS
        <3> HIDE DEF f, x, weight, s, r, i, m, nonzero
        <3>2. ASSUME NEW j \in nonzero PROVE s + j \in C /\ <<x(j), weight(j)>>
                = <<(r * m) + (s + j), (i * m) + (s + j)>>
            BY <1>2, <1>5, <2>1 DEF UpTo
        <3>3. ASSUME NEW column \in C PROVE column - s \in nonzero /\ column = s + (column - s)
            BY <1>2, <2>1 DEF UpTo
        <3> HIDE DEF C
        <3>4. ASSUME NEW column \in C
              PROVE  \E j \in nonzero : <<x(j), weight(j)>> = <<(r * m) + column, (i * m) + column>>
            <4>1. PICK j \in nonzero : column = s + j  BY <3>3
            <4> QED BY <3>2, <4>1
        <3>5. ASSUME NEW j \in nonzero PROVE <<x(j), weight(j)>> \in Terms(r, i, C)
            <4> DEFINE c == s + j
            <4>1. c \in C /\ <<x(j), weight(j)>> = <<(r * m) + c, (i * m) + c>>  BY <3>2
            <4> HIDE DEF c
            <4>2. <<(r * m) + c, (i * m) + c>> \in Terms(r, i, C)  BY <4>1, Zenon DEF Terms, m
            <4> QED BY <4>1, <4>2
        <3>6. ASSUME NEW e \in Terms(r, i, C) PROVE \E j \in nonzero : e = <<x(j), weight(j)>>
            <4>1. PICK column \in C : e = <<(r * m) + column, (i * m) + column>>
                BY Zenon DEF Terms, m
            <4>2. PICK j \in nonzero : <<x(j), weight(j)>> = <<(r * m) + column, (i * m) + column>>
                BY <3>4
            <4> QED BY <4>1, <4>2, Zenon
        <3>7. {<<x(j), weight(j)>> : j \in nonzero} = Terms(r, i, C)  BY <3>5, <3>6, Zenon
        <3> QED BY <3>1, <3>7, Zenon
    <2> HIDE DEF f
    <2>4. BagOf(f) = SetToBag({f[j] : j \in DOMAIN f})  BY <2>2, OnceEach
    <2> QED BY <2>3, <2>4
<1> HIDE DEF f, C, r, i, s
<1>10. sum[t] (+) BagOf(f) = SetToBag(Terms(r, i, Before(s + Tile)))
    BY <1>7, <1>8, <1>9, BagsApart
<1> QED BY <1>6, <1>10 DEF r, i, s

(* Adding a tile. *)
LEMMA AddKeeps ==
    ASSUME TiledInv, launch.kernel = "tiled", NEW t \in Threads, AddTile(t)
    PROVE  TiledInv'
<1>1. /\ pc[t] = "addTile" /\ Open(t) /\ AddedTile(t)
      /\ stride' = [stride EXCEPT ![t] = stride[t] + Tile]
      /\ pc' = [pc EXCEPT ![t] = "tiled"] /\ Arrive(t)
      /\ UNCHANGED <<launch, todo, block, arrays, memory>>
    BY Zenon DEF AddTile, Meet, Go
<1>2. KernelControl /\ ProductStores /\ TiledSums  BY DEF TiledInv
<1>3. Running /\ Tile \in Nat \ {0}
    <2>1. Running  BY <1>1 DEF Running
    <2> QED BY <1>2, <2>1, TileShape
<1>4. IsProduct  BY DEF IsProduct
<1>5. /\ \A u \in Threads : pc'[u] = IF u = t THEN "tiled" ELSE pc[u]
      /\ arrived \in [Threads -> Nat] /\ stride \in [Threads -> Nat] /\ DOMAIN sum = Threads
    BY <1>1, <1>2 DEF KernelControl
<1>6. /\ arrived' \in [Threads -> Nat]
      /\ \A u \in Threads : arrived'[u] = IF u = t THEN arrived[t] + 1 ELSE arrived[u]
    BY <1>1, <1>5, Arrives
<1>7. /\ stride' \in [Threads -> Nat]
      /\ \A u \in Threads : stride'[u] = IF u = t THEN stride[t] + Tile ELSE stride[u]
    BY <1>1, <1>3, <1>5
<1>8. DOMAIN sum' = Threads /\ \A u \in Threads : u # t => sum'[u] = sum[u]
    BY <1>1, <1>5 DEF AddedTile
<1>9. KernelControl'
    <2>1. "tiled" \in Steps(launch.kernel) \cup {"done"}  BY DEF Steps
    <2>2. pc[t] # "done" /\ UNCHANGED <<launch, todo, block>> /\ UNCHANGED arrays  BY <1>1
    <2> QED BY <1>1, <1>2, <1>6, <1>7, <1>8, <2>1, <2>2, ControlGoes
<1>10. ProductStores'
    <2>1. UNCHANGED <<launch, todo, block>> /\ pc[t] # "done" /\ "tiled" # "done"  BY <1>1
    <2>2. SameOver  BY <1>1, <1>2, <2>1, OverAfterGoing
    <2>3. UNCHANGED <<launch, memory>>  BY <1>1
    <2> QED BY <1>2, <1>4, <2>2, <2>3, StoresKept
<1>11. ASSUME NEW u \in Threads, NEW s, HoldsTile(u, s) PROVE HoldsTile(u, s)'
    BY <1>1, <1>11 DEF HoldsTile, TileX, TileWeight, BatchRow
<1>12. ASSUME NEW u \in Threads PROVE TilePlace(u)'
    <2>1. TilePlace(u)  BY <1>2, <1>3 DEF TiledSums
    <2>2. PICK k \in Nat :
            /\ stride[u] = k * Tile
            /\ arrived[u] = IF pc[u] = "addTile" THEN (2 * k) + 1 ELSE 2 * k
            /\ pc[u] = "addTile" => HoldsTile(u, stride[u])
            /\ pc[u] # "addTile" /\ k > 0 => HoldsTile(u, stride[u] - Tile)
        BY <2>1 DEF TilePlace
    <2>3. CASE u = t
        <3>1. arrived'[u] = 2 * (k + 1) /\ k + 1 \in Nat  BY <1>1, <1>6, <2>2, <2>3
        <3>2. stride'[u] = (k + 1) * Tile /\ stride'[u] - Tile = stride[t]
            <4>1. stride'[u] = (k * Tile) + Tile /\ stride[t] = k * Tile  BY <1>7, <2>2, <2>3
            <4>2. (k + 1) * Tile = (k * Tile) + Tile /\ k * Tile \in Int  BY <1>3
            <4> QED BY <1>3, <4>1, <4>2
        <3>3. HoldsTile(u, stride[u] - Tile)'
            <4>1. PICK s : s = stride[t]  OBVIOUS
            <4>2. HoldsTile(t, s)  BY <1>1, <2>2, <2>3, <4>1
            <4>3. HoldsTile(t, s)'  BY <1>11, <4>2
            <4>4. s = stride'[u] - Tile  BY <3>2, <4>1
            <4> QED BY <2>3, <4>3, <4>4
        <3>4. pc'[u] # "addTile"  BY <1>5, <2>3
        <3> QED BY <3>1, <3>2, <3>3, <3>4 DEF TilePlace
    <2>4. CASE u # t
        <3>1. arrived'[u] = arrived[u] /\ pc'[u] = pc[u] /\ stride'[u] = stride[u]
            BY <1>5, <1>6, <1>7, <2>4
        <3>3. HoldsTile(u, stride[u]) => HoldsTile(u, stride[u])'
            <4>1. PICK s : s = stride[u]  OBVIOUS
            <4>2. s = stride'[u]  BY <3>1, <4>1
            <4> QED BY <1>11, <4>1, <4>2
        <3>4. HoldsTile(u, stride[u] - Tile) => HoldsTile(u, stride[u] - Tile)'
            <4>1. PICK s : s = stride[u] - Tile  OBVIOUS
            <4>2. s = stride'[u] - Tile  BY <3>1, <4>1
            <4> QED BY <1>11, <4>1, <4>2
        <3> QED BY <2>2, <3>1, <3>3, <3>4 DEF TilePlace
    <2> QED BY <2>3, <2>4
<1>13. ASSUME NEW u \in Threads, InRange(u)'
      PROVE  (sum[u] = SetToBag(Terms(BatchRow(u), Output(u), Before(stride[u]))))'
    <2>1. InRange(u)  BY <1>1, <1>13 DEF InRange, BatchRow, Output
    <2>2. /\ BatchRow(u)' = BatchRow(u) /\ Output(u)' = Output(u)
          /\ \A r, i, s : Terms(r, i, Before(s))' = Terms(r, i, Before(s))
        BY <1>1 DEF BatchRow, Output, Terms, Before
    <2>3. CASE u = t
        <3>1. sum'[t] = SetToBag(Terms(BatchRow(t), Output(t), Before(stride[t] + Tile)))
            BY <1>1, <1>5, <2>1, <2>3, TileSum
        <3>2. stride'[t] = stride[t] + Tile  BY <1>7
        <3>3. \E r, i, s : /\ r = BatchRow(t) /\ i = Output(t) /\ s = stride[t] + Tile
                           /\ sum'[t] = SetToBag(Terms(r, i, Before(s)))
            BY <3>1
        <3> QED BY <2>2, <2>3, <3>2, <3>3
    <2>4. CASE u # t
        <3>1. sum[u] = SetToBag(Terms(BatchRow(u), Output(u), Before(stride[u])))
            BY <1>2, <1>3, <2>1 DEF TiledSums
        <3>2. stride'[u] = stride[u] /\ sum'[u] = sum[u]  BY <1>7, <1>8, <2>4
        <3>3. \E r, i, s : /\ r = BatchRow(u) /\ i = Output(u) /\ s = stride[u]
                           /\ sum'[u] = SetToBag(Terms(r, i, Before(s)))
            BY <3>1, <3>2
        <3> QED BY <2>2, <3>2, <3>3
    <2> QED BY <2>3, <2>4
<1>14. \A u, v \in Threads : arrived'[u] <= arrived'[v] + 1
    <2>1. \A u, v \in Threads : arrived[u] <= arrived[v] + 1  BY <1>2, <1>3 DEF TiledSums
    <2> QED BY <1>1, <1>5, <2>1, BarrierKeeps
<1>15. TiledSums'  BY <1>12, <1>13, <1>14 DEF TiledSums
<1> QED BY <1>9, <1>10, <1>15 DEF TiledInv

(* Storing the sum. *)
LEMMA OutputKeeps ==
    ASSUME TiledInv, launch.kernel = "tiled", NEW t \in Threads, StoreOutput(t)
    PROVE  TiledInv'
<1> DEFINE r == BatchRow(t)
           i == Output(t)
           k == (r * launch.n) + i
<1>1. /\ pc[t] = "tiled" /\ stride[t] >= launch.m
      /\ memory' = IF r < launch.batch /\ i < launch.n
                     THEN [memory EXCEPT !.out[k] = sum[t]] ELSE memory
      /\ pc' = [pc EXCEPT ![t] = "done"]
      /\ UNCHANGED <<launch, todo, block, stride, sum, arrived, arrays>>
    BY Zenon DEF StoreOutput, Go
<1>2. KernelControl /\ ProductStores /\ TiledSums  BY DEF TiledInv
<1>3. Running  BY <1>1 DEF Running
<1>4. IsProduct  BY DEF IsProduct
<1>5. /\ launch.n \in Nat \ {0} /\ launch.m \in Nat \ {0} /\ launch.batch \in Nat \ {0}
      /\ r \in Nat /\ i \in Nat
    BY <1>2, <1>3, TileShape
<1>6. KernelControl'
    <2>1. pc[t] # "done" /\ UNCHANGED <<launch, todo, block>> /\ UNCHANGED arrays  BY <1>1
    <2>2. stride' \in [Threads -> Nat] /\ arrived' \in [Threads -> Nat] /\ DOMAIN sum' = Threads
        BY <1>1, <1>2 DEF KernelControl
    <2> QED BY <1>1, <1>2, <2>1, <2>2, ControlGoes
<1>7. ASSUME NEW o \in Outputs, OutBlock(o) = block, OutThread(o) = t
      PROVE  o = k /\ r < launch.batch /\ i < launch.n
    <2>1. /\ o \div launch.n \in UpTo(launch.batch) /\ o % launch.n \in UpTo(launch.n)
          /\ o = ((o \div launch.n) * launch.n) + (o % launch.n)
          /\ o \div launch.n = (OutBlock(o)[2] * Tile) + (OutThread(o) \div Tile)
          /\ o % launch.n = (OutBlock(o)[1] * Tile) + (OutThread(o) % Tile)
        BY <1>2, <1>4, OutPlaces
    <2>2. o \div launch.n = r /\ o % launch.n = i
        BY <1>7, <2>1 DEF BatchRow, Output, Tx, Ty
    <2> HIDE DEF r, i
    <2> QED BY <1>5, <2>1, <2>2 DEF UpTo
<1>8. ASSUME r < launch.batch, i < launch.n
      PROVE  memory' = [memory EXCEPT !.out[k] = Summing(k)]
    <2>1. k \div launch.n = r /\ k % launch.n = i
        <3>1. launch.n \in Positive /\ i \in 0 .. launch.n - 1  BY <1>5, <1>8 DEF Positive
        <3> HIDE DEF r, i
        <3> QED BY <1>5, <3>1, CellsOf DEF Cells
    <2>2. sum[t] = SetToBag(Terms(r, i, Before(stride[t])))
        BY <1>2, <1>3, <1>8 DEF TiledSums, InRange
    <2>3. Before(stride[t]) = UpTo(launch.m)
        <3>1. stride[t] \in Nat  BY <1>2 DEF KernelControl
        <3> QED BY <1>1, <1>5, <3>1 DEF Before, UpTo
    <2>4. sum[t] = Summing(k)  BY <2>1, <2>2, <2>3 DEF Summing
    <2> QED BY <1>1, <1>8, <2>4
<1>9. ProductStores'
    <2>1. \/ memory' = memory /\ ~(k \in Outputs /\ OutBlock(k) = block /\ OutThread(k) = t)
          \/ memory' = [memory EXCEPT !.out[k] = Summing(k)]
        BY <1>1, <1>7, <1>8
    <2>2. UNCHANGED <<launch, todo, block>> /\ pc[t] # "done"  BY <1>1
    <2>3. \A o \in Outputs : OutBlock(o) = block /\ OutThread(o) = t => o = k  BY <1>7
    <2>4. \E p : /\ p = k
                 /\ \/ memory' = memory /\ ~(p \in Outputs /\ OutBlock(p) = block /\ OutThread(p) = t)
                    \/ memory' = [memory EXCEPT !.out[p] = Summing(p)]
                 /\ \A o \in Outputs : OutBlock(o) = block /\ OutThread(o) = t => o = p
        BY <2>1, <2>3, Zenon
    <2> HIDE DEF k
    <2>5. PICK p : /\ \A o \in Outputs : OutBlock(o) = block /\ OutThread(o) = t => o = p
                   /\ \/ memory' = memory /\ ~(p \in Outputs /\ OutBlock(p) = block /\ OutThread(p) = t)
                      \/ memory' = [memory EXCEPT !.out[p] = Summing(p)]
        BY <2>4, Zenon
    <2> QED BY <1>1, <1>2, <1>4, <2>2, <2>5, StoreKeeps, Zenon
<1>10. ASSUME NEW u \in Threads PROVE TilePlace(u)'
    <2>1. TilePlace(u)  BY <1>2, <1>3 DEF TiledSums
    <2>2. pc'[u] = "addTile" <=> pc[u] = "addTile"  BY <1>1, <1>2 DEF KernelControl
    <2>3. ASSUME NEW s PROVE HoldsTile(u, s)' = HoldsTile(u, s)
        BY <1>1 DEF HoldsTile, TileX, TileWeight, BatchRow
    <2>4. /\ HoldsTile(u, stride[u])' <=> HoldsTile(u, stride[u])
          /\ HoldsTile(u, stride[u] - Tile)' <=> HoldsTile(u, stride[u] - Tile)
        BY <1>1 DEF HoldsTile, TileX, TileWeight, BatchRow
    <2> QED BY <1>1, <2>1, <2>2, <2>4 DEF TilePlace
<1>11. TiledSums'
    <2>1. \A u, v \in Threads : arrived'[u] <= arrived'[v] + 1  BY <1>1, <1>2, <1>3 DEF TiledSums
    <2>2. ASSUME NEW u \in Threads, InRange(u)'
          PROVE  (sum[u] = SetToBag(Terms(BatchRow(u), Output(u), Before(stride[u]))))'
        <3>1. InRange(u)  BY <1>1, <2>2 DEF InRange, BatchRow, Output
        <3>2. sum[u] = SetToBag(Terms(BatchRow(u), Output(u), Before(stride[u])))
            BY <1>2, <1>3, <3>1 DEF TiledSums
        <3> QED BY <1>1, <3>2 DEF BatchRow, Output, Terms, Before
    <2> QED BY <1>10, <2>1, <2>2 DEF TiledSums
<1> QED BY <1>6, <1>9, <1>11 DEF TiledInv

(* The stores begin with nothing over. *)
LEMMA StoresBegin ==
    ASSUME KernelInit, IsProduct
    PROVE  ProductStores
<1>1. memory = [out |-> [o \in Outputs |-> EmptyBag]]
    <2>1. memory = Memory(launch)  BY DEF KernelInit
    <2>2. launch.kernel # "normRope" /\ launch.kernel # "sinks"  BY DEF IsProduct
    <2>3. Memory(launch) = [out |-> [o \in UpTo(launch.n * launch.batch) |-> EmptyBag]]
        BY <2>2 DEF Memory
    <2> QED BY <2>1, <2>3 DEF Outputs
<1>2. memory = [out |-> [o \in Outputs |-> memory.out[o]]]  BY <1>1
<1>3. \A b, t : ~Over(b, t)  BY DEF Over, KernelInit
<1> QED BY <1>2, <1>3 DEF ProductStores

(* The invariant of matmul_tiled before the first block. *)
LEMMA TiledBegins == KernelInit => TiledInv
<1> SUFFICES ASSUME KernelInit, launch.kernel = "tiled" PROVE KernelControl /\ ProductStores /\ TiledSums
    BY DEF TiledInv
<1>1. KernelControl  BY ControlBegins
<1>2. ProductStores  BY StoresBegin DEF IsProduct
<1>3. ~Running  BY DEF KernelInit, Running
<1> QED BY <1>1, <1>2, <1>3 DEF TiledSums

(* A block of matmul_tiled starts with nothing summed. *)
LEMMA TiledStarts ==
    ASSUME TiledInv, launch.kernel = "tiled", NEW b \in todo, StartBlock(b)
    PROVE  TiledInv'
<1>1. KernelControl /\ ProductStores /\ IsProduct  BY DEF TiledInv, IsProduct
<1>2. /\ launch' = launch /\ memory' = memory
      /\ pc' = [u \in Threads |-> launch.kernel] /\ stride' = [u \in Threads |-> 0]
      /\ sum' = [u \in Threads |-> EmptyBag] /\ arrived' = [u \in Threads |-> 0]
    BY DEF StartBlock
<1>3. KernelControl'  BY <1>1, ControlStarts
<1>4. ProductStores'
    <2>1. SameOver  BY <1>1, OverAfterStart
    <2> QED BY <1>1, <1>2, <2>1, StoresKept
<1>5. ASSUME NEW u \in Threads PROVE TilePlace(u)'
    <2>1. 0 * Tile = 0  BY TileAssumption DEF Positive
    <2>2. stride'[u] = 0 * Tile /\ arrived'[u] = 2 * 0 /\ pc'[u] # "addTile"  BY <1>2, <2>1
    <2>3. 0 \in Nat /\ ~(0 > 0)  OBVIOUS
    <2> QED BY <2>2, <2>3 DEF TilePlace
<1>6. ASSUME NEW u \in Threads
      PROVE  (sum[u] = SetToBag(Terms(BatchRow(u), Output(u), Before(stride[u]))))'
    <2>1. launch.m \in Nat  BY <1>1, Kernels DEF KernelControl, Positive
    <2>2. Before(0)' = {}  BY <1>2, <2>1 DEF Before, UpTo
    <2>3. \A r, i : Terms(r, i, {}) = {} /\ Terms(r, i, {})' = {}  BY DEF Terms
    <2>4. SetToBag({}) = EmptyBag  BY Zenon DEF SetToBag, EmptyBag
    <2> QED BY <1>2, <2>2, <2>3, <2>4 DEF Terms
<1>7. \A u, v \in Threads : arrived'[u] <= arrived'[v] + 1  BY <1>2
<1>8. TiledSums'  BY <1>5, <1>6, <1>7 DEF TiledSums
<1> QED BY <1>3, <1>4, <1>8 DEF TiledInv

(* A step that changes nothing keeps it. *)
LEMMA TiledStutters ==
    ASSUME TiledInv, UNCHANGED kernelVars
    PROVE  TiledInv'
<1>1. /\ launch' = launch /\ todo' = todo /\ block' = block /\ pc' = pc /\ stride' = stride
      /\ sum' = sum /\ arrived' = arrived /\ arrays' = arrays /\ memory' = memory
    BY DEF kernelVars
<1>2. KernelControl' <=> KernelControl  BY <1>1 DEF KernelControl, Running
<1>3. \A b, t : Over(b, t)' <=> Over(b, t)  BY <1>1 DEF Over
<1>4. ProductStores' <=> ProductStores
    <2>1. /\ Outputs' = Outputs
          /\ \A o : OutBlock(o)' = OutBlock(o) /\ OutThread(o)' = OutThread(o)
                    /\ Summing(o)' = Summing(o)
                    /\ (Over(OutBlock(o), OutThread(o))' <=> Over(OutBlock(o), OutThread(o)))
        BY <1>1 DEF Outputs, OutBlock, OutThread, Summing, Terms, WarpsPerBlock, Over
    <2> QED BY <1>1, <2>1 DEF ProductStores
<1>5. TiledSums' <=> TiledSums
    <2>1. Running' <=> Running  BY <1>1 DEF Running
    <2>2. \A t : TilePlace(t)' <=> TilePlace(t)
        BY <1>1 DEF TilePlace, HoldsTile, TileX, TileWeight, BatchRow
    <2>3. \A t : /\ InRange(t)' <=> InRange(t)
                 /\ Terms(BatchRow(t), Output(t), Before(stride[t]))'
                      = Terms(BatchRow(t), Output(t), Before(stride[t]))
        BY <1>1 DEF InRange, BatchRow, Output, Terms, Before
    <2> QED BY <1>1, <2>1, <2>2, <2>3 DEF TiledSums
<1> QED BY <1>1, <1>2, <1>4, <1>5 DEF TiledInv

(* Every step keeps it, whichever kernel was launched. *)
LEMMA TiledSteps == TiledInv /\ [KernelNext]_kernelVars => TiledInv'
<1> SUFFICES ASSUME TiledInv, [KernelNext]_kernelVars PROVE TiledInv'
    OBVIOUS
<1>1. CASE UNCHANGED kernelVars  BY <1>1, TiledStutters
<1>2. CASE KernelFinished  BY <1>2, TiledStutters DEF KernelFinished
<1>3. ASSUME NEW b \in todo, StartBlock(b) PROVE TiledInv'
    <2>1. launch' = launch  BY <1>3 DEF StartBlock
    <2>2. CASE launch.kernel = "tiled"  BY <1>3, <2>2, TiledStarts
    <2>3. CASE launch.kernel # "tiled"  BY <2>1, <2>3 DEF TiledInv
    <2> QED BY <2>2, <2>3
<1>4. ASSUME NEW t \in Threads, KernelThread(t) PROVE TiledInv'
    <2>1. CASE launch.kernel # "tiled"
        <3>1. launch' = launch
            BY <1>4 DEF KernelThread, LoadTile, AddTile, StoreOutput, Warp, LocalSquares,
                        ReduceSquares, TurnHead, TurnSink
        <3> QED BY <2>1, <3>1 DEF TiledInv
    <2>2. CASE launch.kernel = "tiled"
        <3>1. pc[t] \in {"tiled", "addTile", "done"}
            BY <2>2 DEF TiledInv, KernelControl, Steps
        <3>2. LoadTile(t) \/ AddTile(t) \/ StoreOutput(t)
            BY <1>4, <3>1 DEF KernelThread, Warp, LocalSquares, ReduceSquares, TurnHead, TurnSink
        <3> QED BY <2>2, <3>2, LoadKeeps, AddKeeps, OutputKeeps
    <2> QED BY <2>1, <2>2
<1> QED BY <1>1, <1>2, <1>3, <1>4 DEF KernelNext

(* What the CPU computes, once every thread has returned. *)
LEMMA AllOver ==
    ASSUME KernelControl, LaunchDone, NEW b \in Grid(launch), NEW t \in Threads
    PROVE  Over(b, t)
BY DEF LaunchDone, Done, Over

(* When every thread has returned, the buffer holds the product. *)
LEMMA StoresMatch ==
    ASSUME KernelControl, IsProduct, ProductStores, LaunchDone
    PROVE  memory.out = CpuProduct(launch)
<1>1. ASSUME NEW o \in Outputs PROVE memory.out[o] = Summing(o)
    <2>1. OutBlock(o) \in Grid(launch) /\ OutThread(o) \in Threads  BY OutPlaces
    <2>2. Over(OutBlock(o), OutThread(o))  BY <2>1, AllOver
    <2> QED BY <2>2 DEF ProductStores
<1>2. memory = [out |-> [o \in Outputs |-> memory.out[o]]]  BY DEF ProductStores
<1>3. memory.out = [o \in Outputs |-> memory.out[o]]  BY <1>2
<1>4. memory.out = [o \in Outputs |-> Summing(o)]
    <2>1. [o \in Outputs |-> memory.out[o]] = [o \in Outputs |-> Summing(o)]  BY <1>1, Zenon
    <2> QED BY <1>3, <2>1
<1> QED BY <1>4, CpuSums
-----------------------------------------------------------------------------
(***************************************************************************)
(* matvec_warp.                                                            *)
(***************************************************************************)

(* The recursion of WarpSum, from place k on. *)
Shuffles(f, lanes, size, k) ==
    /\ f = [w \in 1 .. size |-> f[w]]
    /\ \A w \in k .. size :
          f[w] = IF 2 * w > size THEN lanes ELSE ShuffleDown(f[2 * w], w)

(* It has a solution. *)
LEMMA ShufflesDefined ==
    ASSUME NEW lanes, NEW size \in Nat \ {0}
    PROVE  \E f : Shuffles(f, lanes, size, 1)
<1> DEFINE T == {n \in Nat : n < size => \E f : Shuffles(f, lanes, size, size - n)}
<1>1. 0 \in T
    <2> DEFINE f == [w \in 1 .. size |-> lanes]
    <2>1. f = [w \in 1 .. size |-> f[w]]  OBVIOUS
    <2>2. ASSUME NEW w \in (size - 0) .. size PROVE w \in 1 .. size /\ 2 * w > size  OBVIOUS
    <2>3. Shuffles(f, lanes, size, size - 0)  BY <2>1, <2>2, Zenon DEF Shuffles
    <2> HIDE DEF f
    <2> QED BY <2>3
<1>2. ASSUME NEW n \in Nat, n \in T PROVE n + 1 \in T
    <2> SUFFICES ASSUME n + 1 < size PROVE \E f : Shuffles(f, lanes, size, size - (n + 1))
        OBVIOUS
    <2>1. PICK f : Shuffles(f, lanes, size, size - n)  BY <1>2
    <2> DEFINE k == size - (n + 1)
               v == IF 2 * k > size THEN lanes ELSE ShuffleDown(f[2 * k], k)
               g == [w \in 1 .. size |-> IF w = k THEN v ELSE f[w]]
    <2>2. k \in 1 .. size /\ size - n = k + 1  OBVIOUS
    <2>3. g = [w \in 1 .. size |-> g[w]]  OBVIOUS
    <2> HIDE DEF k
    <2>4. ASSUME NEW w \in k .. size
          PROVE  g[w] = IF 2 * w > size THEN lanes ELSE ShuffleDown(g[2 * w], w)
        <3>1. w \in 1 .. size /\ 2 * w # k /\ (2 * w <= size => 2 * w \in 1 .. size)  BY <2>2
        <3>2. 2 * w <= size => g[2 * w] = f[2 * w]  BY <3>1
        <3>3. CASE w = k
            <4>1. g[w] = v  BY <3>1, <3>3
            <4>2. CASE 2 * k > size  BY <3>3, <4>1, <4>2
            <4>3. CASE ~(2 * k > size)
                <5>1. g[2 * k] = f[2 * k]  BY <2>2, <3>2, <3>3, <4>3
                <5>2. v = ShuffleDown(f[2 * k], k)  BY <4>3
                <5> HIDE DEF g, v
                <5> QED BY <3>3, <4>1, <4>3, <5>1, <5>2
            <4> QED BY <4>2, <4>3
        <3>4. CASE w # k
            <4>1. w \in k + 1 .. size  BY <2>2, <3>4
            <4>2. f[w] = IF 2 * w > size THEN lanes ELSE ShuffleDown(f[2 * w], w)
                BY <2>1, <2>2, <4>1 DEF Shuffles
            <4>3. g[w] = f[w]  BY <3>1, <3>4
            <4> HIDE DEF g
            <4>4. ~(2 * w > size) => 2 * w <= size  BY <3>1
            <4> QED BY <3>2, <4>2, <4>3, <4>4
        <3> QED BY <3>3, <3>4
    <2> HIDE DEF g
    <2>5. Shuffles(g, lanes, size, k)  BY <2>3, <2>4 DEF Shuffles
    <2> QED BY <2>5 DEF k
<1> HIDE DEF T
<1>3. size - 1 \in T  BY <1>1, <1>2, Induction
<1> QED BY <1>3 DEF T

(* What WarpSum chooses is the sum lane 0 holds in the end. *)
LEMMA WarpAfter ==
    ASSUME NEW lanes, NEW size \in Nat \ {0}, Cardinality(DOMAIN lanes) = size
    PROVE  \E f : Shuffles(f, lanes, size, 1) /\ WarpSum(lanes) = f[1][0]
<1> DEFINE S(f) == f = [w \in 1 .. size |-> IF 2 * w > size THEN lanes ELSE ShuffleDown(f[2 * w], w)]
<1>1. \E f : S(f)
    <2>1. PICK f : Shuffles(f, lanes, size, 1)  BY ShufflesDefined
    <2>2. /\ f = [w \in 1 .. size |-> f[w]]
          /\ \A w \in 1 .. size :
                f[w] = IF 2 * w > size THEN lanes ELSE ShuffleDown(f[2 * w], w)
        BY <2>1 DEF Shuffles
    <2>3. [w \in 1 .. size |-> f[w]]
            = [w \in 1 .. size |-> IF 2 * w > size THEN lanes ELSE ShuffleDown(f[2 * w], w)]
        BY <2>2, Zenon
    <2> QED BY <2>2, <2>3
<1> DEFINE after == CHOOSE f : S(f)
<1>2. WarpSum(lanes) = after[1][0]  BY Zenon DEF WarpSum
<1>3. S(after)  BY <1>1, Zenon
<1> HIDE DEF after
<1>4. Shuffles(after, lanes, size, 1)
    <2>1. \A w \in 1 .. size :
             after[w] = IF 2 * w > size THEN lanes ELSE ShuffleDown(after[2 * w], w)
        BY <1>3, Zenon
    <2>2. after = [w \in 1 .. size |-> after[w]]
        <3> DEFINE e(w) == IF 2 * w > size THEN lanes ELSE ShuffleDown(after[2 * w], w)
        <3>1. after = [w \in 1 .. size |-> e(w)] /\ \A w \in 1 .. size : after[w] = e(w)
            BY <1>3, <2>1, Zenon
        <3> HIDE DEF e
        <3> QED BY <3>1
    <2> QED BY <2>1, <2>2 DEF Shuffles
<1> QED BY <1>2, <1>4

(* The columns a lane stands for while w lanes are left. *)
Class(w, lane) == {column \in UpTo(launch.m) : column % w = lane}

(* A warp adds the columns of all its lanes. *)
LEMMA WarpAdds ==
    ASSUME NEW size, PowerOfTwo(size), launch.m \in Nat, NEW r \in Nat, NEW i \in Nat,
           NEW lanes, lanes = [lane \in UpTo(size) |-> SetToBag(Terms(r, i, Class(size, lane)))]
    PROVE  WarpSum(lanes) = SetToBag(Terms(r, i, UpTo(launch.m)))
<1>1. size \in Nat \ {0}  BY DEF PowerOfTwo
<1>2. Cardinality(DOMAIN lanes) = size
    <2>1. DOMAIN lanes = 0 .. size - 1  BY DEF UpTo
    <2>2. Cardinality(0 .. size - 1) = size  BY <1>1, FS_Interval
    <2> QED BY <2>1, <2>2
<1>3. PICK f : Shuffles(f, lanes, size, 1) /\ WarpSum(lanes) = f[1][0]
    BY <1>1, <1>2, WarpAfter
<1> DEFINE Left(s) ==
             /\ DOMAIN f[Width(s)] = UpTo(size)
             /\ \A lane \in UpTo(Width(s)) :
                   f[Width(s)][lane] = SetToBag(Terms(r, i, Class(Width(s), lane)))
           T == {s \in Nat : Halved(size, s) /\ Left(s)}
<1>4. \A w \in 1 .. size : f[w] = IF 2 * w > size THEN lanes ELSE ShuffleDown(f[2 * w], w)
    BY <1>3 DEF Shuffles
<1>5. size \div 2 \in T
    <2>1. Halved(size, size \div 2) /\ Width(size \div 2) = size  BY FirstStride
    <2>2. f[size] = lanes
        <3>1. size \in 1 .. size /\ 2 * size > size  BY <1>1
        <3> QED BY <1>4, <3>1
    <2>3. Left(size \div 2)  BY <2>1, <2>2
    <2>4. size \div 2 \in Nat  BY <2>1 DEF Halved
    <2> HIDE DEF Left
    <2> QED BY <2>1, <2>3, <2>4
<1>6. ASSUME NEW s \in T, s # 0 PROVE s \div 2 \in T /\ s \div 2 < s
    <2>1. s \in Nat \ {0} /\ Halved(size, s) /\ Left(s)
        <3> HIDE DEF Left
        <3> QED BY <1>6
    <2>2. Halved(size, s \div 2) /\ Width(s \div 2) = s /\ 2 * s <= size
        BY <2>1, NextStride
    <2>3. Width(s) = 2 * s  BY <2>1 DEF Width
    <2>4. f[s] = ShuffleDown(f[2 * s], s)
        <3>1. s \in 1 .. size /\ ~(2 * s > size)  BY <1>1, <2>1, <2>2
        <3> QED BY <1>4, <3>1
    <2>5. DOMAIN f[2 * s] = UpTo(size) /\ \A lane \in UpTo(2 * s) :
             f[2 * s][lane] = SetToBag(Terms(r, i, Class(2 * s, lane)))
        BY <2>1, <2>3
    <2>6. DOMAIN f[s] = UpTo(size)  BY <2>4, <2>5 DEF ShuffleDown
    <2>7. ASSUME NEW lane \in UpTo(s) PROVE f[s][lane] = SetToBag(Terms(r, i, Class(s, lane)))
        <3>1. /\ lane \in UpTo(size) /\ lane \in UpTo(2 * s)
              /\ lane + s \in UpTo(size) /\ lane + s \in UpTo(2 * s) /\ lane \in 0 .. s - 1
            BY <1>1, <2>1, <2>2 DEF UpTo
        <3>2. f[s][lane] = f[2 * s][lane] (+) f[2 * s][lane + s]
            BY <2>4, <2>5, <3>1 DEF ShuffleDown
        <3> DEFINE A == Terms(r, i, Class(2 * s, lane))  B == Terms(r, i, Class(2 * s, lane + s))
        <3>3. Class(s, lane) = Class(2 * s, lane) \cup Class(2 * s, lane + s)
            <4>1. ASSUME NEW c \in UpTo(launch.m)
                  PROVE  c % s = lane <=> c % (2 * s) = lane \/ c % (2 * s) = lane + s
                <5>1. c \in Nat  BY DEF UpTo
                <5> QED BY <2>1, <3>1, <5>1, ResidueSplit
            <4> QED BY <4>1 DEF Class
        <3>4. A \cup B = Terms(r, i, Class(s, lane))  BY <3>3, Zenon DEF Terms
        <3>5. A \cap B = {}
            <4> SUFFICES ASSUME NEW a \in Class(2 * s, lane), NEW b \in Class(2 * s, lane + s),
                                <<(r * launch.m) + a, (i * launch.m) + a>>
                                  = <<(r * launch.m) + b, (i * launch.m) + b>>
                         PROVE  FALSE
                BY Zenon DEF Terms
            <4> DEFINE p == r * launch.m
            <4>5. a \in UpTo(launch.m) /\ b \in UpTo(launch.m)  BY DEF Class
            <4>6. p \in Nat  OBVIOUS
            <4>1. p \in Nat /\ a \in Nat /\ b \in Nat  BY <4>5, <4>6 DEF UpTo
            <4>2. p + a = p + b  OBVIOUS
            <4> HIDE DEF p
            <4>3. a = b  BY <4>1, <4>2
            <4>4. a % (2 * s) = lane /\ b % (2 * s) = lane + s  BY DEF Class
            <4> QED BY <2>1, <3>1, <4>3, <4>4
        <3> HIDE DEF A, B
        <3>6. SetToBag(A) (+) SetToBag(B) = SetToBag(A \cup B)  BY <3>5, BagsApart
        <3>7. f[2 * s][lane] = SetToBag(A) /\ f[2 * s][lane + s] = SetToBag(B)
            BY <2>5, <3>1 DEF A, B
        <3> QED BY <3>2, <3>4, <3>6, <3>7
    <2>8. Left(s \div 2)  BY <2>2, <2>6, <2>7
    <2>9. s \div 2 \in Nat /\ s \div 2 < s  BY <2>1
    <2> HIDE DEF Left
    <2> QED BY <2>2, <2>8, <2>9
<1>7. 0 \in T
    <2> HIDE DEF T
    <2>1. T \in SUBSET Nat  BY DEF T
    <2>2. PICK s \in T : \A n \in T : s <= n  BY <1>5, <2>1, Least
    <2>3. s = 0
        <3> SUFFICES ASSUME s # 0 PROVE FALSE
            OBVIOUS
        <3>1. s \div 2 \in T /\ s \div 2 < s  BY <1>6
        <3>2. s <= s \div 2 /\ s \in Nat /\ s \div 2 \in Nat  BY <2>1, <2>2, <3>1
        <3> QED BY <3>1, <3>2
    <2> QED BY <2>2, <2>3
<1>8. f[1][0] = SetToBag(Terms(r, i, Class(1, 0)))
    <2>1. Width(0) = 1 /\ 0 \in UpTo(1)  BY DEF Width, UpTo
    <2>2. Left(0)  BY <1>7
    <2> QED BY <2>1, <2>2
<1>9. Class(1, 0) = UpTo(launch.m)
    <2>1. \A c \in UpTo(launch.m) : c % 1 = 0  BY DEF UpTo
    <2> QED BY <2>1 DEF Class
<1> QED BY <1>3, <1>8, <1>9

MatvecInv == launch.kernel = "matvec" => KernelControl /\ ProductStores

(* The lanes of a warp are a power of two. *)
LEMMA WarpSize ==
    ASSUME NEW w \in Positive, BlockDim % w = 0
    PROVE  PowerOfTwo(w)
<1>1. w \in Nat \ {0} /\ BlockDim \in Nat \ {0}  BY Blocks DEF Positive
<1>2. ASSUME NEW d \in 1 .. w, w % d = 0, d % 2 = 1 PROVE d = 1
    <2> DEFINE p == BlockDim \div w  q == w \div d
    <2>1. BlockDim = w * p /\ p \in Nat
        <3>1. BlockDim = (w * p) + (BlockDim % w) /\ p \in Nat
            BY <1>1, Division, QuotientBelow
        <3> HIDE DEF p
        <3> QED BY <1>1, <3>1
    <2>2. w = d * q /\ q \in Nat
        <3>1. d \in Nat \ {0} /\ w \in Nat  BY <1>1
        <3>2. w = (d * q) + (w % d) /\ q \in Nat  BY <3>1, Division, QuotientBelow
        <3> HIDE DEF q
        <3> QED BY <1>1, <1>2, <3>2
    <2> HIDE DEF p, q
    <2>3. d \in Nat \ {0} /\ d \in Int  BY <1>1
    <2>4. BlockDim = d * (q * p) /\ q * p \in Int
        <3>1. (d * q) * p = d * (q * p)  BY <2>1, <2>2, <2>3
        <3> QED BY <2>1, <2>2, <3>1
    <2>5. BlockDim % d = 0  BY <1>1, <2>3, <2>4, MultipleRemainder
    <2>6. w <= BlockDim
        <3>1. p # 0  BY <1>1, <2>1
        <3>2. w * p >= w  BY <1>1, <2>1, <3>1
        <3> QED BY <1>1, <2>1, <3>2
    <2>7. d \in 1 .. BlockDim  BY <1>1, <2>6
    <2> QED BY <1>2, <2>5, <2>7, BlockDimAssumption
<1> QED BY <1>1, <1>2 DEF PowerOfTwo

(* Lane 0 of a warp stores the product of its output. *)
LEMMA WarpKeeps ==
    ASSUME MatvecInv, launch.kernel = "matvec", NEW t \in Threads, Warp(t)
    PROVE  MatvecInv'
<1> DEFINE size == launch.warp
           k == (block * WarpsPerBlock) + (t \div size)
           term(column) == <<column, (k * launch.m) + column>>
           own(lane) == {column \in UpTo(launch.m) : column % size = lane}
           lanes == [lane \in UpTo(size) |-> BagOf([column \in own(lane) |-> term(column)])]
<1>1. /\ pc[t] = "matvec"
      /\ memory' = IF t % size = 0 /\ k < launch.n
                     THEN [memory EXCEPT !.out[k] = WarpSum(lanes)] ELSE memory
      /\ pc' = [pc EXCEPT ![t] = "done"]
      /\ UNCHANGED <<launch, todo, block, stride, sum, arrived, arrays>>
    BY Zenon DEF Warp, Go, WarpsPerBlock
<1>2. KernelControl /\ ProductStores /\ IsProduct  BY DEF MatvecInv, IsProduct
<1>3. /\ launch.n \in Nat \ {0} /\ launch.m \in Nat \ {0} /\ launch.batch = 1
      /\ size \in Positive /\ size \in Nat \ {0} /\ BlockDim % size = 0
    BY <1>2, Kernels DEF KernelControl, Positive
<1>4. KernelControl'
    <2>1. pc[t] # "done" /\ UNCHANGED <<launch, todo, block>> /\ UNCHANGED arrays  BY <1>1
    <2>2. stride' \in [Threads -> Nat] /\ arrived' \in [Threads -> Nat] /\ DOMAIN sum' = Threads
        BY <1>1, <1>2 DEF KernelControl
    <2> QED BY <1>1, <1>2, <2>1, <2>2, ControlGoes
<1>5. ASSUME NEW o \in Outputs, OutBlock(o) = block, OutThread(o) = t
      PROVE  o = k /\ t % size = 0 /\ k < launch.n
    BY <1>2, <1>5, OutPlaces
<1>6. k \in Nat
    <2>1. block \in UpTo(CeilDiv(launch.n, WarpsPerBlock))
        <3>1. Running  BY <1>1 DEF Running
        <3> QED BY <1>2, <3>1 DEF KernelControl, Grid, WarpsPerBlock
    <2>2. block \in Nat  BY <2>1 DEF UpTo
    <2>3. WarpsPerBlock \in Nat
        <3>1. BlockDim \in Nat  BY Blocks
        <3> QED BY <1>3, <3>1, QuotientBelow DEF WarpsPerBlock
    <2>4. t \div size \in Nat  BY <1>3, Blocks, QuotientBelow
    <2> HIDE DEF size
    <2> QED BY <2>2, <2>3, <2>4
<1>7. ASSUME k < launch.n PROVE WarpSum(lanes) = Summing(k)
    <2>1. k \div launch.n = 0 /\ k % launch.n = k
        <3>1. launch.n \in Positive /\ k \in 0 .. launch.n - 1 /\ 0 \in Nat
            <4> HIDE DEF k
            <4> QED BY <1>3, <1>6, <1>7 DEF Positive
        <3>2. ((0 * launch.n) + k) \div launch.n = 0 /\ ((0 * launch.n) + k) % launch.n = k
            <4> HIDE DEF k
            <4> QED BY <3>1, CellsOf DEF Cells
        <3>3. (0 * launch.n) + k = k
            <4> HIDE DEF k
            <4> QED BY <1>3, <1>6
        <3> HIDE DEF k
        <3> QED BY <3>2, <3>3
    <2>2. ASSUME NEW lane \in UpTo(size)
          PROVE  BagOf([column \in own(lane) |-> term(column)]) = SetToBag(Terms(0, k, Class(size, lane)))
        <3> HIDE DEF k
        <3>1. own(lane) \in SUBSET Nat /\ own(lane) = Class(size, lane)  BY <1>3 DEF UpTo, Class
        <3>2. \A column \in own(lane) : term(column) = <<(0 * launch.m) + column, (k * launch.m) + column>>
            <4>1. \A column \in Nat : (0 * launch.m) + column = column  BY <1>3
            <4> QED BY <3>1, <4>1
        <3>3. [column \in own(lane) |-> term(column)]
                = [column \in own(lane) |-> <<(0 * launch.m) + column, (k * launch.m) + column>>]
            BY <3>2, Zenon
        <3>4. BagOf([column \in own(lane) |-> <<(0 * launch.m) + column, (k * launch.m) + column>>])
                = SetToBag(Terms(0, k, own(lane)))
            <4> HIDE DEF own
            <4> QED BY <1>3, <1>6, <3>1, TermsOnce
        <3> QED BY <3>1, <3>3, <3>4
    <2>3. lanes = [lane \in UpTo(size) |-> SetToBag(Terms(0, k, Class(size, lane)))]
        BY <2>2, Zenon
    <2> HIDE DEF lanes, k
    <2>4. PowerOfTwo(size)  BY <1>3, WarpSize
    <2>5. WarpSum(lanes) = SetToBag(Terms(0, k, UpTo(launch.m)))
        BY <1>3, <1>6, <2>3, <2>4, WarpAdds
    <2> QED BY <2>1, <2>5 DEF Summing
<1>8. ProductStores'
    <2> HIDE DEF lanes
    <2>1. \/ memory' = memory /\ ~(k \in Outputs /\ OutBlock(k) = block /\ OutThread(k) = t)
          \/ memory' = [memory EXCEPT !.out[k] = Summing(k)]
        BY <1>1, <1>5, <1>7
    <2>2. UNCHANGED <<launch, todo, block>> /\ pc[t] # "done"  BY <1>1
    <2>3. \A o \in Outputs : OutBlock(o) = block /\ OutThread(o) = t => o = k  BY <1>5
    <2>4. \E p : /\ p = k
                 /\ \/ memory' = memory /\ ~(p \in Outputs /\ OutBlock(p) = block /\ OutThread(p) = t)
                    \/ memory' = [memory EXCEPT !.out[p] = Summing(p)]
                 /\ \A o \in Outputs : OutBlock(o) = block /\ OutThread(o) = t => o = p
        BY <2>1, <2>3, Zenon
    <2> HIDE DEF k
    <2>5. PICK p : /\ \A o \in Outputs : OutBlock(o) = block /\ OutThread(o) = t => o = p
                   /\ \/ memory' = memory /\ ~(p \in Outputs /\ OutBlock(p) = block /\ OutThread(p) = t)
                      \/ memory' = [memory EXCEPT !.out[p] = Summing(p)]
        BY <2>4, Zenon
    <2> QED BY <1>1, <1>2, <2>2, <2>5, StoreKeeps, Zenon
<1> QED BY <1>4, <1>8 DEF MatvecInv

(* The invariant of matvec_warp before the first block. *)
LEMMA MatvecBegins == KernelInit => MatvecInv
BY ControlBegins, StoresBegin DEF MatvecInv, IsProduct

(* A step that changes nothing leaves control and stores. *)
LEMMA NothingOver == UNCHANGED kernelVars => SameOver /\ (KernelControl => KernelControl')
<1> SUFFICES ASSUME UNCHANGED kernelVars PROVE SameOver /\ (KernelControl => KernelControl')
    OBVIOUS
<1>1. /\ launch' = launch /\ todo' = todo /\ block' = block /\ pc' = pc /\ stride' = stride
      /\ sum' = sum /\ arrived' = arrived /\ arrays' = arrays
    BY DEF kernelVars
<1>2. SameOver  BY <1>1 DEF SameOver, Over
<1> QED BY <1>1, <1>2 DEF KernelControl, Running

(* Every step keeps it, whichever kernel was launched. *)
LEMMA MatvecSteps == MatvecInv /\ [KernelNext]_kernelVars => MatvecInv'
<1> SUFFICES ASSUME MatvecInv, [KernelNext]_kernelVars, launch'.kernel = "matvec"
             PROVE  MatvecInv'
    BY DEF MatvecInv
<1>1. launch' = launch
    BY DEF KernelNext, KernelThread, LoadTile, AddTile, StoreOutput, Warp, LocalSquares,
           ReduceSquares, TurnHead, TurnSink, StartBlock, KernelFinished, kernelVars
<1>2. launch.kernel = "matvec" /\ KernelControl /\ ProductStores /\ IsProduct
    BY <1>1 DEF MatvecInv, IsProduct
<1>3. CASE UNCHANGED kernelVars
    <2>1. SameOver /\ KernelControl'  BY <1>2, <1>3, NothingOver
    <2>2. UNCHANGED <<launch, memory>>  BY <1>3 DEF kernelVars
    <2>3. ProductStores'  BY <1>2, <2>1, <2>2, StoresKept
    <2> QED BY <2>1, <2>3 DEF MatvecInv
<1>4. CASE KernelFinished  BY <1>3, <1>4 DEF KernelFinished
<1>5. ASSUME NEW b \in todo, StartBlock(b) PROVE MatvecInv'
    <2>1. KernelControl'  BY <1>2, <1>5, ControlStarts
    <2>2. SameOver  BY <1>2, <1>5, OverAfterStart
    <2>3. UNCHANGED <<launch, memory>>  BY <1>5 DEF StartBlock
    <2>4. ProductStores'  BY <1>2, <2>2, <2>3, StoresKept
    <2> QED BY <2>1, <2>4 DEF MatvecInv
<1>6. ASSUME NEW t \in Threads, KernelThread(t) PROVE MatvecInv'
    <2>1. pc[t] \in {"matvec", "done"}  BY <1>2 DEF KernelControl, Steps
    <2>2. Warp(t)
        BY <1>6, <2>1 DEF KernelThread, LoadTile, AddTile, StoreOutput, LocalSquares,
                          ReduceSquares, TurnHead, TurnSink
    <2> QED BY <1>2, <2>2, WarpKeeps
<1> QED BY <1>3, <1>4, <1>5, <1>6 DEF KernelNext

(***************************************************************************)
(* However the threads of matmul_tiled and matvec_warp are interleaved, and*)
(* in whatever order their blocks run, each output is the sum matmul_cpu   *)
(* computes: every term of its row and column, once.                       *)
(***************************************************************************)
THEOREM KernelsProduce == KernelSpec => []ProductsMatchCpu
<1>1. KernelInit => TiledInv /\ MatvecInv  BY TiledBegins, MatvecBegins
<1>2. TiledInv /\ MatvecInv /\ [KernelNext]_kernelVars => TiledInv' /\ MatvecInv'
    BY TiledSteps, MatvecSteps
<1>3. TiledInv /\ MatvecInv => ProductsMatchCpu
    BY StoresMatch DEF TiledInv, MatvecInv, IsProduct, ProductsMatchCpu
<1> QED BY <1>1, <1>2, <1>3, PTL DEF KernelSpec
-----------------------------------------------------------------------------
(***************************************************************************)
(* qk_norm_rope_cache_kernel.  One block reduces one head of a query or of *)
(* a key, then every thread turns its pairs of elements with the whole sum.*)
(***************************************************************************)

(* The rounds of a reduction: the stride of a thread that has reached one     *)
(* barrier more than t, and where two threads stand, seen from t.             *)
NextRound(t, s) ==
    IF arrived[t] = 0
    THEN s = BlockDim \div 2
    ELSE stride[t] > 0 /\ s = stride[t] \div 2

LockStep(t, u) ==
    /\ arrived[u] <= arrived[t] + 1
    /\ arrived[u] = arrived[t] => stride[u] = stride[t]
    /\ arrived[u] = arrived[t] + 1 => NextRound(t, stride[u])

Counting == arrived \in [Threads -> Nat] /\ stride \in [Threads -> Nat]

Reducing ==
    /\ \A t \in Threads : Halved(BlockDim, stride[t])
    /\ \A t, u \in Threads : LockStep(t, u)

(***************************************************************************)
(* A thread moves on to the next round, on its own at the first barrier    *)
(* and with all others at or past its round at the later ones.             *)
(***************************************************************************)
LEMMA RoundAdvances ==
    ASSUME Counting, Counting', Reducing, NEW t \in Threads, Arrive(t),
           \A u \in Threads : u # t => stride'[u] = stride[u],
           Open(t), NextRound(t, stride'[t])
    PROVE  Reducing'
<1> DEFINE a == arrived[t]
<1>1. /\ a \in Nat /\ arrived'[t] = a + 1
      /\ \A u \in Threads : arrived[u] \in Nat /\ stride[u] \in Nat
      /\ \A u \in Threads : u # t => arrived'[u] = arrived[u]
    BY DEF Counting, Arrive
<1>2. Halved(BlockDim, stride'[t])
    <2>1. CASE a = 0
        BY <2>1, Blocks, FirstStride DEF NextRound
    <2>2. CASE a # 0
        <3>1. stride[t] \in Nat \ {0} /\ Halved(BlockDim, stride[t]) /\ stride'[t] = stride[t] \div 2
            BY <2>2, <1>1 DEF NextRound, Reducing
        <3> QED BY <3>1, Blocks, NextStride
    <2> QED BY <2>1, <2>2
<1>3. ASSUME NEW u \in Threads PROVE Halved(BlockDim, stride'[u])
    BY <1>1, <1>2 DEF Reducing
<1>4. ASSUME NEW u \in Threads, NEW v \in Threads PROVE LockStep(u, v)'
    <2>1. CASE u = t /\ v = t
        BY <2>1, <1>1 DEF LockStep
    <2>2. CASE u # t /\ v # t
        <3>1. LockStep(u, v)  BY DEF Reducing
        <3> QED BY <3>1, <2>2, <1>1 DEF LockStep, NextRound
    <2>3. CASE u = t /\ v # t
        <3>1. LockStep(t, v) /\ arrived[v] >= a  BY <2>3 DEF Reducing, Open
        <3>2. arrived[v] = a + 1 => stride[v] = stride'[t]
            BY <3>1 DEF LockStep, NextRound
        <3> QED BY <2>3, <1>1, <3>1, <3>2 DEF LockStep
    <2>4. CASE u # t /\ v = t
        <3>1. LockStep(t, u) /\ arrived[u] >= a  BY <2>4 DEF Reducing, Open
        <3>2. arrived[u] = a \/ arrived[u] = a + 1  BY <1>1, <3>1 DEF LockStep
        <3>3. CASE arrived[u] = a
            <4>1. stride[u] = stride[t]  BY <3>1, <3>3 DEF LockStep
            <4>2. NextRound(u, stride'[t])  BY <3>3, <4>1 DEF NextRound
            <4>3. NextRound(u, stride[t])'  BY <4>2, <2>4, <1>1 DEF NextRound
            <4> QED BY <2>4, <1>1, <3>3, <4>3 DEF LockStep
        <3>4. CASE arrived[u] = a + 1
            <4>1. stride[u] = stride'[t]  BY <3>1, <3>4 DEF LockStep, NextRound
            <4> QED BY <2>4, <1>1, <3>4, <4>1 DEF LockStep
        <3> QED BY <3>2, <3>3, <3>4
    <2> QED BY <2>1, <2>2, <2>3, <2>4
<1> QED BY <1>3, <1>4 DEF Reducing

(* The partner of t in the round it is in has as many slots active, or half. *)
LEMMA PartnerRound ==
    ASSUME Counting, Reducing, NEW t \in Threads, NEW s, s = stride[t], s > 0, arrived[t] # 0,
           Open(t), t < s
    PROVE  /\ t + s \in Threads /\ arrived[t + s] # 0 /\ s \in Nat
           /\ Width(stride[t + s]) = 2 * s \/ Width(stride[t + s]) = s
<1> DEFINE u == t + s
<1>1. t \in Nat /\ s \in Nat \ {0} /\ Halved(BlockDim, s)  BY Blocks DEF Counting, Reducing
<1>2. 2 * s <= BlockDim /\ Width(s \div 2) = s  BY <1>1, Blocks, NextStride
<1>3. u \in Threads  BY <1>1, <1>2, Blocks DEF Threads
<1>4. arrived[t] \in Nat /\ arrived[u] \in Nat  BY <1>3 DEF Counting
<1>5. LockStep(t, u) /\ arrived[u] >= arrived[t]  BY <1>3 DEF Reducing, Open
<1>6. arrived[u] = arrived[t] \/ arrived[u] = arrived[t] + 1  BY <1>4, <1>5 DEF LockStep
<1> HIDE DEF u
<1>7. arrived[u] # 0  BY <1>4, <1>6
<1>8. CASE arrived[u] = arrived[t]
    <2>1. stride[u] = s  BY <1>5, <1>8 DEF LockStep
    <2>2. Width(stride[u]) = 2 * s  BY <2>1, <1>1 DEF Width
    <2> QED BY <1>1, <1>3, <1>7, <2>2 DEF u
<1>9. CASE arrived[u] = arrived[t] + 1
    <2>1. stride[u] = s \div 2  BY <1>4, <1>5, <1>9 DEF LockStep, NextRound
    <2> QED BY <1>1, <1>2, <1>3, <1>7, <2>1 DEF u
<1> QED BY <1>6, <1>8, <1>9
-----------------------------------------------------------------------------
(* The elements of a head after the kernel; place is that of the head among   *)
(* those of its kind.                                                         *)
HeadClass(place, w, t) ==
    SetToBag({(place * launch.headDim) + i : i \in {j \in UpTo(launch.headDim) : j % w = t}})
HeadSquares(place) == SetToBag({(place * launch.headDim) + i : i \in UpTo(launch.headDim)})

NormOf(place, c) == Whole(Term((place * launch.headDim) + c, HeadSquares(place), c))
HeadElement(place, c, pos) ==
    LET first == c - (c % 2) IN
    IF c < 2 * (launch.headDim \div 2) /\ first < launch.rotaryDim
    THEN TurnPair(NormOf(place, first), NormOf(place, first + 1), first, pos)[PartOf(c)]
    ELSE NormOf(place, c)

(* The thread that stores element c of a head. *)
Owner(c) == IF c = 2 * (launch.headDim \div 2) THEN 0 ELSE (c \div 2) % BlockDim

QueryRows == UpTo(launch.batch * launch.heads)
KeyRows == UpTo(launch.batch * launch.kvHeads)
Columns == UpTo(launch.headDim)
KeyBlock(place) == (launch.batch * launch.heads) + place
CacheFirst == launch.kvPos * launch.kvHeads * launch.headDim

(* The buffers are what has been stored, and what was there before. *)
Buffers ==
    /\ memory = [q |-> [i \in UpTo(launch.batch * launch.heads * launch.headDim) |-> memory.q[i]],
                 k |-> [i \in UpTo(launch.batch * launch.kvHeads * launch.headDim) |-> memory.k[i]],
                 v |-> [i \in UpTo(launch.batch * launch.kvHeads * launch.headDim) |-> Raw(i)],
                 cacheK |-> [i \in UpTo((launch.kvPos + launch.batch) * launch.kvHeads * launch.headDim)
                               |-> memory.cacheK[i]],
                 cacheV |-> [i \in UpTo((launch.kvPos + launch.batch) * launch.kvHeads * launch.headDim)
                               |-> memory.cacheV[i]]]

QueryStored(place, c) ==
    LET i == (place * launch.headDim) + c IN
    memory.q[i] = IF Over(place, Owner(c))
                  THEN HeadElement(place, c, launch.pos + (place \div launch.heads)) ELSE Raw(i)

KeyStored(place, c) ==
    LET i == (place * launch.headDim) + c
        done == Over(KeyBlock(place), Owner(c))
        turned == HeadElement(place, c, launch.pos + (place \div launch.kvHeads))
    IN /\ memory.k[i] = IF done THEN turned ELSE Raw(i)
       /\ memory.cacheK[CacheFirst + i] = IF done THEN turned ELSE Unwritten
       /\ memory.cacheV[CacheFirst + i] = IF done THEN Raw(i) ELSE Unwritten

(* Every element is raw, or unwritten, until its thread has returned. *)
HeadsStored ==
    /\ Buffers
    /\ \A place \in QueryRows, c \in Columns : QueryStored(place, c)
    /\ \A place \in KeyRows, c \in Columns : KeyStored(place, c)
    /\ \A j \in UpTo(CacheFirst) : memory.cacheK[j] = Unwritten /\ memory.cacheV[j] = Unwritten

(* The barriers, and which threads are past the last. *)
HeadRounds ==
    /\ Reducing
    /\ \A t \in Threads :
          /\ pc[t] = "normRope" <=> arrived[t] = 0
          /\ pc[t] = "done" => stride[t] = 0 /\ Open(t)

(* The slot of t holds its class of the squares of the head. *)
HeadSlot(place, t) ==
    LET w == Width(stride[t]) IN
    /\ t < w => arrays.squares[t] = HeadClass(place, w, t)
    /\ w <= t /\ t < 2 * w => arrays.squares[t] = HeadClass(place, 2 * w, t)

HeadSlots == \A t \in Threads : pc[t] # "normRope" => HeadSlot(RowInType, t)

HeadsInv ==
    launch.kernel = "normRope" =>
        KernelControl /\ HeadsStored /\ (Running => HeadRounds /\ HeadSlots)

(* The head of the block that runs. *)
LEMMA HeadPlace ==
    ASSUME KernelControl, launch.kernel = "normRope", block \in Grid(launch)
    PROVE  /\ launch.headDim \in Nat \ {0} /\ launch.heads \in Nat \ {0} /\ launch.kvHeads \in Nat \ {0}
           /\ launch.batch \in Nat \ {0} /\ launch.rotaryDim \in Nat /\ launch.kvPos \in Nat
           /\ launch.pos \in Nat
           /\ RowInType \in Nat /\ Base = RowInType * launch.headDim /\ Base \in Nat
           /\ Token = RowInType \div HeadsOfType
           /\ IsQuery => RowInType \in QueryRows /\ block = RowInType /\ HeadsOfType = launch.heads
           /\ ~IsQuery => /\ RowInType \in KeyRows /\ block = KeyBlock(RowInType)
                          /\ HeadsOfType = launch.kvHeads
                          /\ CacheBase = CacheFirst + Base /\ CacheFirst \in Nat
<1> DEFINE D == launch.headDim  place == RowInType  h == HeadsOfType
           Q == launch.batch * launch.heads  K == launch.batch * launch.kvHeads
<1>1. /\ D \in Nat \ {0} /\ launch.heads \in Nat \ {0} /\ launch.kvHeads \in Nat \ {0}
      /\ launch.batch \in Nat \ {0} /\ launch.rotaryDim \in Nat /\ launch.kvPos \in Nat
      /\ launch.pos \in Nat
    BY Kernels DEF KernelControl, Positive
<1>2. block \in Nat /\ block < Q + K
    <2>1. block \in UpTo(launch.batch * (launch.heads + launch.kvHeads))  BY DEF Grid
    <2>2. launch.batch * (launch.heads + launch.kvHeads) = Q + K  BY <1>1
    <2>3. Q \in Nat /\ K \in Nat  BY <1>1
    <2> HIDE DEF Q, K
    <2> QED BY <2>1, <2>2, <2>3 DEF UpTo
<1>3. Q \in Nat /\ K \in Nat  BY <1>1
<1>4. IsQuery <=> block < Q  BY DEF IsQuery
<1>5. place = IF block < Q THEN block ELSE block - Q  BY <1>4 DEF RowInType
<1>6. h = IF block < Q THEN launch.heads ELSE launch.kvHeads  BY <1>4 DEF HeadsOfType
<1> HIDE DEF Q, K
<1>7. place \in Nat /\ h \in Nat \ {0}
    <2> HIDE DEF place, h
    <2> QED BY <1>1, <1>2, <1>3, <1>5, <1>6
<1>8. Base = place * D /\ Token \in Nat /\ HeadOf \in Nat /\ place = (Token * h) + HeadOf
      /\ Token = place \div h /\ place * D \in Nat
    <2> DEFINE q == place \div h  r == place % h
    <2>1. q \in Nat /\ r \in 0 .. h - 1 /\ place = (h * q) + r
        <3> HIDE DEF place, h
        <3> QED BY <1>7, Division, QuotientBelow
    <2>2. Token = q /\ HeadOf = r  BY DEF Token, HeadOf
    <2>3. Base = (q * h * D) + (r * D)  BY <2>2 DEF Base
    <2> HIDE DEF q, r, place, h
    <2>4. r \in Nat  BY <1>7, <2>1
    <2>5. place = (q * h) + r  BY <1>7, <2>1
    <2>6. place * D = (q * h * D) + (r * D)  BY <1>1, <1>7, <2>1, <2>4, <2>5
    <2>7. place * D \in Nat  BY <1>1, <1>7
    <2> QED BY <2>1, <2>2, <2>3, <2>4, <2>5, <2>6, <2>7 DEF q
<1>9. ASSUME ~IsQuery
      PROVE  CacheBase = CacheFirst + Base /\ CacheFirst \in Nat
    <2> DEFINE p == launch.kvPos  n == launch.kvHeads
    <2>1. h = n  BY <1>4, <1>6, <1>9
    <2>2. CacheBase = ((p + Token) * n * D) + (HeadOf * D)  BY DEF CacheBase
    <2>3. Base = (Token * n * D) + (HeadOf * D)  BY <2>1 DEF Base
    <2>4. CacheFirst = p * n * D  BY DEF CacheFirst
    <2>5. p \in Nat /\ n \in Nat /\ D \in Nat /\ Token \in Nat /\ HeadOf \in Nat
        BY <1>1, <1>8
    <2> HIDE DEF p, n, D
    <2>6. (p + Token) * n * D = (p * n * D) + (Token * n * D)  BY <2>5
    <2>7. p * n * D \in Nat /\ Token * n * D \in Nat /\ HeadOf * D \in Nat  BY <2>5
    <2> QED BY <2>2, <2>3, <2>4, <2>6, <2>7
<1>10. IsQuery => place \in QueryRows /\ block = place /\ h = launch.heads
    <2> HIDE DEF place, h
    <2> QED BY <1>2, <1>3, <1>4, <1>5, <1>6 DEF QueryRows, UpTo, Q
<1>11. ~IsQuery => place \in KeyRows /\ block = KeyBlock(place) /\ h = launch.kvHeads
    <2> HIDE DEF place, h
    <2> QED BY <1>2, <1>3, <1>4, <1>5, <1>6 DEF KeyRows, UpTo, Q, K, KeyBlock
<1> QED BY <1>1, <1>7, <1>8, <1>9, <1>10, <1>11

(* The elements of a thread are whole pairs, and the last of an odd head. *)
LEMMA OwnPairs ==
    ASSUME launch.headDim \in Nat \ {0}, NEW t \in Threads
    PROVE  /\ OwnElements(t) = {c \in Columns : Owner(c) = t}
           /\ \A c \in Columns : Owner(c) \in Threads /\ c \in Nat
           /\ \A c \in OwnElements(t) :
                c < 2 * (launch.headDim \div 2) =>
                    c - (c % 2) \in OwnElements(t) /\ (c - (c % 2)) + 1 \in OwnElements(t)
<1> DEFINE D == launch.headDim  E == 2 * (D \div 2)
<1>1. D \in Nat \ {0} /\ E \in Nat /\ E <= D /\ D <= E + 1 /\ D \div 2 \in Nat
    <2> DEFINE q == D \div 2
    <2>1. D \in Nat /\ 2 \in Nat \ {0}  OBVIOUS
    <2>2. q \in Nat /\ D % 2 \in 0 .. 1 /\ D = (2 * q) + (D % 2)
        <3> HIDE DEF D
        <3> QED BY <2>1, Division, QuotientBelow
    <2> HIDE DEF q
    <2> QED BY <2>1, <2>2 DEF q
<1>2. \A c \in Columns : c \in Nat /\ c < D  BY <1>1 DEF Columns, UpTo
<1>3. BlockDim \in Nat \ {0} /\ 0 \in Threads  BY Blocks DEF Threads
<1>4. ASSUME NEW c \in Columns PROVE Owner(c) \in Threads
    <2>1. c \div 2 \in Nat  BY <1>2, QuotientBelow
    <2>2. (c \div 2) % BlockDim \in 0 .. BlockDim - 1  BY <1>3, <2>1, Division
    <2> QED BY <1>3, <2>2 DEF Owner, Threads
<1>5. OwnElements(t) = {c \in Columns : Owner(c) = t}
    <2>1. ASSUME NEW c \in UpTo(D)
          PROVE  (IF c = E THEN t = 0 ELSE (c \div 2) % BlockDim = t) <=> Owner(c) = t
        BY DEF Owner
    <2> QED BY <2>1 DEF OwnElements, Columns
<1>6. ASSUME NEW c \in OwnElements(t), c < E
      PROVE  c - (c % 2) \in OwnElements(t) /\ (c - (c % 2)) + 1 \in OwnElements(t)
    <2> DEFINE q == c \div 2  a == 2 * q
    <2>1. c \in Columns /\ Owner(c) = t /\ c \in Nat  BY <1>2, <1>5
    <2>2. q \in Nat /\ c % 2 \in 0 .. 1 /\ c = (2 * q) + (c % 2)
        BY <2>1, Division, QuotientBelow
    <2>3. c - (c % 2) = a /\ a \in Nat /\ a < E /\ a + 1 < E
        <3> DEFINE r == c % 2
        <3> HIDE DEF q, r
        <3>1. r \in 0 .. 1 /\ c = (2 * q) + r /\ q \in Nat  BY <2>2 DEF r
        <3>2. 2 * q < 2 * (D \div 2)  BY <1>1, <1>6, <2>1, <3>1
        <3>3. q < D \div 2  BY <1>1, <3>1, <3>2
        <3>4. (2 * q) + 1 < 2 * (D \div 2)  BY <1>1, <3>1, <3>3
        <3> QED BY <2>1, <3>1, <3>2, <3>4 DEF r
    <2>4. a \div 2 = q /\ (a + 1) \div 2 = q
        <3> HIDE DEF q
        <3>1. 2 \in Positive /\ 0 \in 0 .. 2 - 1 /\ 1 \in 0 .. 2 - 1  BY DEF Positive
        <3>2. ((q * 2) + 0) \div 2 = q /\ ((q * 2) + 1) \div 2 = q  BY <2>2, <3>1, CellsOf DEF Cells
        <3>3. a = (q * 2) + 0 /\ a + 1 = (q * 2) + 1  BY <2>2
        <3> QED BY <3>2, <3>3
    <2> HIDE DEF a, E
    <2>5. q % BlockDim = t
        <3>1. c # E  BY <1>1, <1>6, <2>1
        <3> QED BY <2>1, <3>1 DEF Owner, E
    <2> HIDE DEF q
    <2>6. a \in Columns /\ a + 1 \in Columns  BY <1>1, <2>3 DEF Columns, UpTo
    <2>7. a # E /\ a + 1 # E  BY <1>1, <2>3
    <2>8. Owner(a) = t /\ Owner(a + 1) = t  BY <2>4, <2>5, <2>7 DEF Owner, E
    <2> QED BY <1>5, <2>3, <2>6, <2>8
<1> QED BY <1>2, <1>4, <1>5, <1>6

(* Two elements of heads are different places. *)
LEMMA ElementsApart ==
    ASSUME launch.headDim \in Nat \ {0}
    PROVE  /\ \A a \in Nat : \A place \in UpTo(a), c \in Columns :
                /\ (place * launch.headDim) + c \in UpTo(a * launch.headDim)
                /\ place \in Nat
           /\ \A place, p \in Nat : \A c, e \in Columns :
                (place * launch.headDim) + c = (p * launch.headDim) + e <=> place = p /\ c = e
<1> DEFINE D == launch.headDim
<1>1. D \in Nat \ {0} /\ Columns = 0 .. D - 1  BY DEF Columns, UpTo
<1> HIDE DEF D
<1>2. \A a \in Nat : \A place \in 0 .. a - 1, c \in 0 .. D - 1 : (place * D) + c \in 0 .. (a * D) - 1
    BY <1>1, Offsets
<1>3. \A a, b \in Nat : \A i, j \in 0 .. D - 1 : (a * D) + i = (b * D) + j => a = b /\ i = j
    BY <1>1, Offsets
<1>4. ASSUME NEW a \in Nat, NEW place \in UpTo(a), NEW c \in Columns
      PROVE  (place * D) + c \in UpTo(a * D) /\ place \in Nat
    <2>1. place \in 0 .. a - 1 /\ c \in 0 .. D - 1 /\ place \in Nat  BY <1>1 DEF UpTo
    <2>2. (place * D) + c \in 0 .. (a * D) - 1  BY <1>2, <2>1
    <2> QED BY <2>1, <2>2 DEF UpTo
<1>5. ASSUME NEW place \in Nat, NEW p \in Nat, NEW c \in Columns, NEW e \in Columns
      PROVE  (place * D) + c = (p * D) + e <=> place = p /\ c = e
    BY <1>1, <1>3
<1> QED BY <1>4, <1>5 DEF D

(* g is f with v stored over the elements of a head, in a buffer of n heads *)
(* that begins at first.                                                    *)
Rewritten(g, f, first, n, place, v) ==
    /\ g = [i \in DOMAIN f |-> g[i]]
    /\ \A p \in UpTo(n), c \in Columns :
          g[first + ((p * launch.headDim) + c)]
            = IF p = place /\ c \in DOMAIN v THEN v[c] ELSE f[first + ((p * launch.headDim) + c)]
    /\ \A j \in UpTo(first) : g[j] = f[j]

(* A thread stores its elements over those of the head in a buffer. *)
LEMMA StoredHead ==
    ASSUME launch.headDim \in Nat \ {0}, NEW n \in Nat, NEW first \in Nat, NEW place \in UpTo(n),
           NEW f, DOMAIN f = UpTo(first + (n * launch.headDim)),
           NEW v, DOMAIN v \in SUBSET Columns
    PROVE  Rewritten(Stored(f, first + (place * launch.headDim), v), f, first, n, place, v)
<1> DEFINE own == DOMAIN v
<1> DEFINE D == launch.headDim
           base == first + (place * D)
           g == Stored(f, base, v)
<1>1. D \in Nat \ {0} /\ place \in Nat  BY DEF UpTo
<1>2. ASSUME NEW p \in UpTo(n), NEW c \in Columns
      PROVE  /\ first + ((p * D) + c) \in DOMAIN f
             /\ p \in Nat /\ p * D \in Nat /\ c \in Nat /\ c < D
    <2>1. (p * D) + c \in UpTo(n * D) /\ p \in Nat  BY ElementsApart
    <2>2. p * D \in Nat /\ n * D \in Nat  BY <1>1, <2>1
    <2>3. c \in Nat /\ c < D  BY <1>1 DEF Columns, UpTo
    <2> HIDE DEF D
    <2>4. DOMAIN f = UpTo(first + (n * D))  BY DEF D
    <2> QED BY <2>1, <2>2, <2>3, <2>4, SMTT(40) DEF UpTo
<1>3. base \in Nat /\ place * D \in Nat  BY <1>1
<1>4. ASSUME NEW c \in own PROVE base + c \in DOMAIN f
    <2>1. c \in Columns  OBVIOUS
    <2>2. first + ((place * D) + c) \in DOMAIN f /\ c \in Nat  BY <1>2, <2>1
    <2> DEFINE r == place * D
    <2>3. r \in Nat  BY <1>3
    <2> HIDE DEF r
    <2>4. first + (r + c) = (first + r) + c  BY <2>2, <2>3
    <2> QED BY <2>2, <2>4 DEF r
<1>5. g = [i \in DOMAIN f |-> IF i - base \in own THEN v[i - base] ELSE f[i]]
    <2>1. DOMAIN f \cup {base + c : c \in own} = DOMAIN f  BY <1>4
    <2>2. g = [i \in DOMAIN f \cup {base + c : c \in DOMAIN v} |->
                  IF i - base \in DOMAIN v THEN v[i - base] ELSE f[i]]
        BY Zenon DEF Stored
    <2> HIDE DEF g, base
    <2> QED BY <2>1, <2>2
<1>6. g = [i \in DOMAIN f |-> g[i]]  BY <1>5
<1>7. ASSUME NEW p \in UpTo(n), NEW c \in Columns
      PROVE  LET i == first + ((p * D) + c) IN
             g[i] = IF p = place /\ c \in own THEN v[c] ELSE f[i]
    <2> DEFINE i == first + ((p * D) + c)  a == p * D  r == place * D
    <2>1. i \in DOMAIN f /\ p \in Nat /\ c \in Nat /\ a \in Nat /\ r \in Nat  BY <1>2, <1>3
    <2>2. ASSUME i - base \in own PROVE p = place /\ i - base = c
        <3> DEFINE e == i - base
        <3>1. e \in Columns /\ e \in Nat  BY <1>2, <2>2
        <3>2. (place * D) + e = (p * D) + c
            <4> HIDE DEF a, r
            <4>1. e = (first + (a + c)) - (first + r)  BY DEF a, r
            <4>2. r + e = a + c  BY <2>1, <4>1
            <4> QED BY <4>2 DEF a, r
        <3> HIDE DEF e
        <3>3. place = p /\ e = c  BY <1>1, <2>1, <3>1, <3>2, ElementsApart
        <3> QED BY <3>3 DEF e
    <2>3. ASSUME p = place PROVE i - base = c
        <3> HIDE DEF a, r
        <3>1. i - base = (first + (a + c)) - (first + r) /\ a = r  BY <2>3 DEF a, r
        <3> QED BY <2>1, <3>1
    <2>4. g[i] = IF i - base \in own THEN v[i - base] ELSE f[i]  BY <1>5, <2>1
    <2> HIDE DEF i, base, g
    <2>5. g[i] = IF p = place /\ c \in own THEN v[c] ELSE f[i]  BY <2>2, <2>3, <2>4
    <2> QED BY <2>5 DEF i
<1>8. ASSUME NEW j \in UpTo(first) PROVE g[j] = f[j]
    <2> DEFINE m == n * D
    <2>1. m \in Nat  BY <1>1
    <2>2. j \in Nat /\ j < first  BY DEF UpTo
    <2>3. DOMAIN f = UpTo(first + m)  OBVIOUS
    <2> HIDE DEF m
    <2>4. j \in DOMAIN f  BY <2>1, <2>2, <2>3 DEF UpTo
    <2>5. j - base \notin own
        <3>1. \A c \in own : c >= 0  BY <1>2
        <3>2. j - base < 0
            <4> DEFINE r == place * D
            <4>1. r \in Nat  BY <1>3
            <4> HIDE DEF r
            <4>2. j - (first + r) < 0  BY <2>2, <4>1
            <4> QED BY <4>2 DEF r
        <3> HIDE DEF base
        <3>3. base \in Nat  BY <1>3
        <3> QED BY <2>2, <3>1, <3>2, <3>3
    <2> HIDE DEF g, base
    <2> QED BY <1>5, <2>4, <2>5
<1> HIDE DEF g
<1> QED BY <1>6, <1>7, <1>8 DEF g, Rewritten

(* The place of a head among those of its kind, and what is derived from it, *)
(* stays the same while its block runs.                                      *)
LEMMA PlaceKept ==
    ASSUME UNCHANGED <<launch, block>>
    PROVE  /\ RowInType' = RowInType /\ Base' = Base
           /\ \A place, w, t : HeadClass(place, w, t)' = HeadClass(place, w, t)
BY DEF RowInType, IsQuery, Base, Token, HeadsOfType, HeadOf, HeadClass

(* Buffers that do not change, while nothing more is over. *)
LEMMA HeadsKept ==
    ASSUME KernelControl, launch.kernel = "normRope", HeadsStored,
           UNCHANGED <<launch, memory>>, SameOver
    PROVE  HeadsStored'
<1>1. launch' = launch /\ memory' = memory /\ launch.headDim \in Nat \ {0}
    BY Kernels DEF KernelControl, Positive
<1>2. /\ QueryRows' = QueryRows /\ KeyRows' = KeyRows /\ Columns' = Columns
      /\ CacheFirst' = CacheFirst /\ Buffers' = Buffers
    BY <1>1 DEF QueryRows, KeyRows, Columns, CacheFirst, Buffers
<1>3. \A place, c, pos : HeadElement(place, c, pos)' = HeadElement(place, c, pos)
    BY <1>1 DEF HeadElement, NormOf, HeadSquares
<1>4. ASSUME NEW place, NEW c \in Columns
      PROVE  /\ Over(place, Owner(c))' <=> Over(place, Owner(c))
             /\ Over(KeyBlock(place), Owner(c))' <=> Over(KeyBlock(place), Owner(c))
    <2>1. Owner(c) \in Threads
        <3>1. 0 \in Threads  BY Blocks DEF Threads
        <3> QED BY <1>1, <3>1, OwnPairs
    <2>2. \E u \in Threads : u = Owner(c) /\ Owner(c)' = u  BY <1>1, <2>1 DEF Owner
    <2>3. PICK u \in Threads : u = Owner(c) /\ Owner(c)' = u  BY <2>2
    <2>4. \E b : b = KeyBlock(place) /\ KeyBlock(place)' = b  BY <1>1 DEF KeyBlock
    <2>5. PICK b : b = KeyBlock(place) /\ KeyBlock(place)' = b  BY <2>4
    <2>6. (Over(place, u)' <=> Over(place, u)) /\ (Over(b, u)' <=> Over(b, u))  BY DEF SameOver
    <2>7. Over(place, Owner(c))' <=> Over(place, u)'  BY <2>3 DEF Over
    <2>8. Over(KeyBlock(place), Owner(c))' <=> Over(b, u)'  BY <2>3, <2>5 DEF Over
    <2> QED BY <2>3, <2>5, <2>6, <2>7, <2>8
<1>5. ASSUME NEW place \in QueryRows, NEW c \in Columns PROVE QueryStored(place, c)'
    <2>1. QueryStored(place, c)  BY DEF HeadsStored
    <2>2. \E p : p = launch.pos + (place \div launch.heads)
                 /\ (launch.pos + (place \div launch.heads))' = p  BY <1>1
    <2>3. HeadElement(place, c, launch.pos + (place \div launch.heads))'
            = HeadElement(place, c, launch.pos + (place \div launch.heads))
        BY <1>1 DEF HeadElement, NormOf, HeadSquares
    <2> QED BY <1>1, <1>4, <2>1, <2>3 DEF QueryStored
<1>6. ASSUME NEW place \in KeyRows, NEW c \in Columns PROVE KeyStored(place, c)'
    <2>1. KeyStored(place, c)  BY DEF HeadsStored
    <2>2. HeadElement(place, c, launch.pos + (place \div launch.kvHeads))'
            = HeadElement(place, c, launch.pos + (place \div launch.kvHeads))
        BY <1>1 DEF HeadElement, NormOf, HeadSquares
    <2> QED BY <1>1, <1>2, <1>4, <2>1, <2>2 DEF KeyStored
<1>7. \A j \in UpTo(CacheFirst) : memory'.cacheK[j] = Unwritten /\ memory'.cacheV[j] = Unwritten
    BY <1>1 DEF HeadsStored
<1> QED BY <1>1, <1>2, <1>5, <1>6, <1>7 DEF HeadsStored

(* What is not over in the head of the block is raw. *)
LEMMA RawElement ==
    ASSUME KernelControl, launch.kernel = "normRope", HeadsStored, Running,
           NEW c \in Columns, pc[Owner(c)] # "done"
    PROVE  memory[Values][Base + c] = Raw(Base + c)
<1>1. block \in Grid(launch)  BY DEF KernelControl
<1>2. ~Over(block, Owner(c))  BY DEF Over
<1>3. CASE IsQuery
    <2>1. RowInType \in QueryRows /\ block = RowInType /\ Base = RowInType * launch.headDim
        BY <1>1, <1>3, HeadPlace
    <2>2. QueryStored(RowInType, c)  BY <2>1 DEF HeadsStored
    <2> QED BY <1>2, <1>3, <2>1, <2>2 DEF QueryStored, Values
<1>4. CASE ~IsQuery
    <2>1. RowInType \in KeyRows /\ block = KeyBlock(RowInType) /\ Base = RowInType * launch.headDim
        BY <1>1, <1>4, HeadPlace
    <2>2. KeyStored(RowInType, c)  BY <2>1 DEF HeadsStored
    <2> QED BY <1>2, <1>4, <2>1, <2>2 DEF KeyStored, Values
<1> QED BY <1>3, <1>4

(* A raw element counts as itself. *)
LEMMA SquaredRaw == \A i : Squared(Raw(i)) = i
BY DEF Squared, Raw, Whole, Term

(* The squares of a part of the head. *)
LEMMA LocalSquaresOnce ==
    ASSUME KernelControl, launch.kernel = "normRope", HeadsStored, Running,
           NEW own \in SUBSET Columns, \A c \in own : pc[Owner(c)] # "done"
    PROVE  BagOf([i \in own |-> Squared(memory[Values][Base + i])])
             = SetToBag({(RowInType * launch.headDim) + i : i \in own})
<1> DEFINE f == [i \in own |-> Base + i]
<1>1. block \in Grid(launch)  BY DEF KernelControl
<1>2. Base = RowInType * launch.headDim /\ Base \in Nat /\ launch.headDim \in Nat
    BY <1>1, HeadPlace
<1>3. \A c \in own : Squared(memory[Values][Base + c]) = Base + c
    BY RawElement, SquaredRaw
<1>4. [i \in own |-> Squared(memory[Values][Base + i])] = f  BY <1>3, Zenon
<1>5. \A a, b \in DOMAIN f : f[a] = f[b] => a = b
    <2>1. \A a \in own : a \in Nat  BY <1>2 DEF Columns, UpTo
    <2> QED BY <1>2, <2>1
<1>6. {f[j] : j \in DOMAIN f} = {(RowInType * launch.headDim) + i : i \in own}
    BY <1>2
<1> HIDE DEF f
<1>7. BagOf(f) = SetToBag({f[j] : j \in DOMAIN f})  BY <1>5, OnceEach
<1> QED BY <1>4, <1>6, <1>7

(* A class splits in two. *)
LEMMA ClassSplits ==
    ASSUME launch.headDim \in Nat \ {0}, NEW place \in Nat, NEW s \in Nat \ {0}, NEW t \in 0 .. s - 1
    PROVE  HeadClass(place, 2 * s, t) (+) HeadClass(place, 2 * s, t + s) = HeadClass(place, s, t)
<1> DEFINE D == launch.headDim  base == place * D
           C(w, l) == {j \in UpTo(D) : j % w = l}
           S(w, l) == {base + i : i \in C(w, l)}
<1>1. base \in Nat /\ \A j \in UpTo(D) : j \in Nat  BY DEF UpTo
<1>2. \A w, l : HeadClass(place, w, l) = SetToBag(S(w, l))  BY Zenon DEF HeadClass
<1>3. C(s, t) = C(2 * s, t) \cup C(2 * s, t + s)
    <2>1. ASSUME NEW c \in UpTo(D)
          PROVE  c % s = t <=> c % (2 * s) = t \/ c % (2 * s) = t + s
        BY <1>1, ResidueSplit
    <2> QED BY <2>1
<1>4. C(2 * s, t) \cap C(2 * s, t + s) = {}
    <2>1. t # t + s  OBVIOUS
    <2> QED BY <2>1
<1>5. \A w, l : \A i \in C(w, l) : i \in Nat  BY <1>1
<1> HIDE DEF C, base
<1>6. S(2 * s, t) \cup S(2 * s, t + s) = S(s, t)  BY <1>3
<1>7. S(2 * s, t) \cap S(2 * s, t + s) = {}
    <2> SUFFICES ASSUME NEW a \in C(2 * s, t), NEW b \in C(2 * s, t + s), base + a = base + b
                 PROVE  FALSE
        OBVIOUS
    <2>1. a \in Nat /\ b \in Nat  BY <1>5
    <2>2. a = b  BY <1>1, <2>1
    <2> QED BY <1>4, <2>2
<1> HIDE DEF S
<1>8. SetToBag(S(2 * s, t)) (+) SetToBag(S(2 * s, t + s)) = SetToBag(S(s, t))
    BY <1>6, <1>7, BagsApart
<1> QED BY <1>2, <1>8

(* Threads before the barriers wait for all the others. *)
LEMMA LocalKeeps ==
    ASSUME HeadsInv, launch.kernel = "normRope", NEW t \in Threads, LocalSquares(t)
    PROVE  HeadsInv'
<1> DEFINE own == {i \in UpTo(launch.headDim) : i % BlockDim = t}
           squares == BagOf([i \in own |-> Squared(memory[Values][Base + i])])
<1>1. /\ pc[t] = "normRope"
      /\ arrays' = [arrays EXCEPT !.squares[t] = squares]
      /\ stride' = [stride EXCEPT ![t] = BlockDim \div 2]
      /\ pc' = [pc EXCEPT ![t] = "reduce"] /\ Arrive(t)
      /\ UNCHANGED <<launch, todo, block, sum, memory>>
    BY Zenon DEF LocalSquares, Meet, Go
<1>2. KernelControl /\ HeadsStored /\ HeadRounds /\ HeadSlots /\ Running
    <2>1. Running  BY <1>1 DEF Running
    <2> QED BY <2>1 DEF HeadsInv
<1>3. /\ pc \in [Threads -> {"normRope", "reduce", "done"}] /\ Counting
      /\ DOMAIN arrays = {"x", "weight", "squares"}
      /\ DOMAIN arrays.x = Threads /\ DOMAIN arrays.weight = Threads
      /\ DOMAIN arrays.squares = Threads /\ DOMAIN sum = Threads /\ block \in Grid(launch)
      /\ launch.headDim \in Nat \ {0}
    BY <1>2, Kernels DEF KernelControl, Steps, Counting, Positive
<1>4. arrived[t] = 0 /\ Open(t)  BY <1>1, <1>2, <1>3 DEF HeadRounds, Open, Counting
<1>5. PICK place \in Nat : place = RowInType
    BY <1>2, <1>3, HeadPlace
<1>6. squares = HeadClass(place, BlockDim, t)
    <2>1. \A c \in own : pc[Owner(c)] # "done"
        <3>1. ASSUME NEW u \in Threads PROVE pc[u] # "done"
            <4> SUFFICES ASSUME pc[u] = "done" PROVE FALSE
                OBVIOUS
            <4>1. arrived[u] # 0 /\ arrived[t] >= arrived[u]  BY <1>2 DEF HeadRounds, Open
            <4> QED BY <1>3, <1>4, <4>1 DEF Counting
        <3>2. \A c \in own : Owner(c) \in Threads  BY <1>3, OwnPairs DEF Columns
        <3> QED BY <3>1, <3>2
    <2>2. own \in SUBSET Columns  BY DEF Columns
    <2>3. squares = SetToBag({(RowInType * launch.headDim) + i : i \in own})
        <3> HIDE DEF own
        <3> QED BY <1>2, <2>1, <2>2, LocalSquaresOnce
    <2> QED BY <1>5, <2>3, Zenon DEF HeadClass
<1> HIDE DEF squares
<1>7. /\ \A u \in Threads : pc'[u] = IF u = t THEN "reduce" ELSE pc[u]
      /\ \A u \in Threads : stride'[u] = IF u = t THEN BlockDim \div 2 ELSE stride[u]
      /\ stride' \in [Threads -> Nat]
    BY <1>1, <1>3, Blocks DEF Counting
<1>8. /\ arrived' \in [Threads -> Nat]
      /\ \A u \in Threads : arrived'[u] = IF u = t THEN arrived[t] + 1 ELSE arrived[u]
    BY <1>1, <1>3, Arrives DEF Counting
<1>9. /\ DOMAIN arrays' = {"x", "weight", "squares"}
      /\ DOMAIN arrays'.x = Threads /\ DOMAIN arrays'.weight = Threads
      /\ DOMAIN arrays'.squares = Threads
      /\ \A u \in Threads : arrays'.squares[u] = IF u = t THEN squares ELSE arrays.squares[u]
    BY <1>1, <1>3
<1>10. KernelControl'
    <2>1. "reduce" \in Steps(launch.kernel) \cup {"done"}  BY DEF Steps
    <2>2. DOMAIN sum' = Threads /\ pc[t] # "done" /\ UNCHANGED <<launch, todo, block>>
        BY <1>1, <1>3
    <2> QED BY <1>1, <1>2, <1>7, <1>8, <1>9, <2>1, <2>2, ControlGoes
<1>11. HeadsStored'
    <2>1. UNCHANGED <<launch, todo, block>> /\ pc[t] # "done" /\ "reduce" # "done"  BY <1>1
    <2>2. SameOver  BY <1>1, <1>2, <2>1, OverAfterGoing
    <2>3. UNCHANGED <<launch, memory>>  BY <1>1
    <2> QED BY <1>2, <2>2, <2>3, HeadsKept
<1>12. HeadRounds'
    <2>1. Reducing'
        <3>1. NextRound(t, stride'[t])  BY <1>4, <1>7 DEF NextRound
        <3>2. Counting'  BY <1>7, <1>8 DEF Counting
        <3>3. \A u \in Threads : u # t => stride'[u] = stride[u]  BY <1>7
        <3>4. Reducing  BY <1>2 DEF HeadRounds
        <3> QED BY <1>1, <1>3, <1>4, <3>1, <3>2, <3>3, <3>4, RoundAdvances
    <2>2. ASSUME NEW u \in Threads PROVE pc'[u] = "normRope" <=> arrived'[u] = 0
        BY <1>2, <1>3, <1>4, <1>7, <1>8 DEF HeadRounds
    <2>3. ASSUME NEW u \in Threads, pc'[u] = "done" PROVE stride'[u] = 0 /\ Open(u)'
        <3>1. u # t /\ pc[u] = "done"  BY <1>7, <2>3
        <3>2. stride[u] = 0 /\ Open(u)  BY <1>2, <3>1 DEF HeadRounds
        <3>3. \A v \in Threads : arrived[v] \in Nat  BY <1>3 DEF Counting
        <3> QED BY <1>7, <1>8, <3>1, <3>2, <3>3 DEF Open
    <2> QED BY <2>1, <2>2, <2>3 DEF HeadRounds
<1>13. HeadSlots'
    <2>1. RowInType' = place /\ \A w, u : HeadClass(place, w, u)' = HeadClass(place, w, u)
        BY <1>1, <1>5, PlaceKept
    <2>2. ASSUME NEW u \in Threads, pc'[u] # "normRope" PROVE HeadSlot(place, u)'
        <3>1. CASE u = t
            <4>1. Width(stride'[t]) = BlockDim /\ t \in Nat /\ t < BlockDim
                BY <1>7, Blocks, FirstStride
            <4>2. ~(BlockDim <= t)  BY <4>1, Blocks
            <4>3. arrays'.squares[t] = HeadClass(place, BlockDim, t)  BY <1>6, <1>9
            <4>4. HeadClass(place, BlockDim, t)' = HeadClass(place, BlockDim, t)  BY <1>1 DEF HeadClass
            <4>5. PICK w : w = Width(stride'[t])  OBVIOUS
            <4>6. Width(stride[t])' = w  BY <4>5 DEF Width
            <4> QED BY <3>1, <4>1, <4>2, <4>3, <4>4, <4>5, <4>6 DEF HeadSlot
        <3>2. CASE u # t
            <4>1. HeadSlot(place, u)  BY <1>2, <1>5, <1>7, <2>2, <3>2 DEF HeadSlots
            <4>2. stride'[u] = stride[u] /\ arrays'.squares[u] = arrays.squares[u]
                BY <1>7, <1>9, <3>2
            <4> QED BY <1>1, <4>1, <4>2 DEF HeadSlot, HeadClass, Width
        <3> QED BY <3>1, <3>2
    <2> QED BY <2>1, <2>2 DEF HeadSlots
<1> QED BY <1>10, <1>11, <1>12, <1>13 DEF HeadsInv

(* A round of the reduction. *)
LEMMA RoundKeeps ==
    ASSUME HeadsInv, launch.kernel = "normRope", NEW t \in Threads, ReduceSquares(t)
    PROVE  HeadsInv'
<1>1. /\ pc[t] = "reduce" /\ Open(t) /\ stride[t] > 0
      /\ arrays' = IF t < stride[t]
                     THEN [arrays EXCEPT !.squares[t] = @ (+) arrays.squares[t + stride[t]]]
                     ELSE arrays
      /\ stride' = [stride EXCEPT ![t] = @ \div 2]
      /\ pc' = [pc EXCEPT ![t] = "reduce"] /\ Arrive(t)
      /\ UNCHANGED <<launch, todo, block, sum, memory>>
    BY Zenon DEF ReduceSquares, Meet, Go
<1>2. KernelControl /\ HeadsStored /\ HeadRounds /\ HeadSlots /\ Running
    <2>1. Running  BY <1>1 DEF Running
    <2> QED BY <2>1 DEF HeadsInv
<1>3. /\ pc \in [Threads -> {"normRope", "reduce", "done"}] /\ Counting
      /\ DOMAIN arrays = {"x", "weight", "squares"}
      /\ DOMAIN arrays.x = Threads /\ DOMAIN arrays.weight = Threads
      /\ DOMAIN arrays.squares = Threads /\ DOMAIN sum = Threads /\ block \in Grid(launch)
      /\ launch.headDim \in Nat \ {0}
    BY <1>2, Kernels DEF KernelControl, Steps, Counting, Positive
<1>4. PICK s : s = stride[t]  OBVIOUS
<1>5. /\ t \in Nat /\ s \in Nat \ {0} /\ Halved(BlockDim, s) /\ arrived[t] # 0 /\ Reducing
      /\ 2 * s <= BlockDim /\ Width(s \div 2) = s /\ s \div 2 \in Nat /\ Width(s) = 2 * s
    <2>1. t \in Nat /\ s \in Nat \ {0} /\ Halved(BlockDim, s) /\ arrived[t] # 0 /\ Reducing
        BY <1>1, <1>2, <1>3, <1>4, Blocks DEF HeadRounds, Reducing, Counting
    <2>2. 2 * s <= BlockDim /\ Width(s \div 2) = s /\ s \div 2 \in Nat
        BY <2>1, Blocks, NextStride DEF Halved
    <2> QED BY <2>1, <2>2 DEF Width
<1>6. PICK place \in Nat : place = RowInType
    BY <1>2, <1>3, HeadPlace
<1>7. /\ \A u \in Threads : pc'[u] = pc[u]
      /\ \A u \in Threads : stride'[u] = IF u = t THEN s \div 2 ELSE stride[u]
      /\ stride' \in [Threads -> Nat]
    BY <1>1, <1>3, <1>4, <1>5 DEF Counting
<1>8. /\ arrived' \in [Threads -> Nat]
      /\ \A u \in Threads : arrived'[u] = IF u = t THEN arrived[t] + 1 ELSE arrived[u]
    BY <1>1, <1>3, Arrives DEF Counting
<1>9. /\ DOMAIN arrays' = {"x", "weight", "squares"}
      /\ DOMAIN arrays'.x = Threads /\ DOMAIN arrays'.weight = Threads
      /\ DOMAIN arrays'.squares = Threads
      /\ \A u \in Threads : arrays'.squares[u] =
            IF u = t /\ t < s THEN arrays.squares[t] (+) arrays.squares[t + s] ELSE arrays.squares[u]
    BY <1>1, <1>3, <1>4
<1>10. KernelControl'
    <2>1. "reduce" \in Steps(launch.kernel) \cup {"done"}  BY DEF Steps
    <2>2. DOMAIN sum' = Threads /\ pc[t] # "done" /\ UNCHANGED <<launch, todo, block>>
        BY <1>1, <1>3
    <2> QED BY <1>1, <1>2, <1>7, <1>8, <1>9, <2>1, <2>2, ControlGoes
<1>11. HeadsStored'
    <2>1. UNCHANGED <<launch, todo, block>> /\ pc[t] # "done" /\ "reduce" # "done"  BY <1>1
    <2>2. SameOver  BY <1>1, <1>2, <2>1, OverAfterGoing
    <2>3. UNCHANGED <<launch, memory>>  BY <1>1
    <2> QED BY <1>2, <2>2, <2>3, HeadsKept
<1>12. HeadRounds'
    <2>1. Reducing'
        <3>1. NextRound(t, stride'[t])  BY <1>1, <1>4, <1>5, <1>7 DEF NextRound
        <3>2. Counting'  BY <1>7, <1>8 DEF Counting
        <3>3. \A u \in Threads : u # t => stride'[u] = stride[u]  BY <1>7
        <3> QED BY <1>1, <1>3, <1>5, <3>1, <3>2, <3>3, RoundAdvances
    <2>2. ASSUME NEW u \in Threads PROVE pc'[u] = "normRope" <=> arrived'[u] = 0
        <3>1. pc[u] = "normRope" <=> arrived[u] = 0  BY <1>2 DEF HeadRounds
        <3>2. arrived[t] \in Nat  BY <1>3 DEF Counting
        <3> QED BY <1>5, <1>7, <1>8, <3>1, <3>2
    <2>3. ASSUME NEW u \in Threads, pc'[u] = "done" PROVE stride'[u] = 0 /\ Open(u)'
        <3>1. u # t /\ pc[u] = "done"  BY <1>1, <1>7, <2>3
        <3>2. stride[u] = 0 /\ Open(u)  BY <1>2, <3>1 DEF HeadRounds
        <3>3. \A v \in Threads : arrived[v] \in Nat  BY <1>3 DEF Counting
        <3> QED BY <1>7, <1>8, <3>1, <3>2, <3>3 DEF Open
    <2> QED BY <2>1, <2>2, <2>3 DEF HeadRounds
<1>13. t < s => arrays'.squares[t] = HeadClass(place, s, t)
    <2> SUFFICES ASSUME t < s PROVE arrays'.squares[t] = HeadClass(place, s, t)
        OBVIOUS
    <2>1. /\ t + s \in Threads /\ arrived[t + s] # 0
          /\ Width(stride[t + s]) = 2 * s \/ Width(stride[t + s]) = s
        BY <1>1, <1>3, <1>4, <1>5, PartnerRound
    <2>2. arrays.squares[t + s] = HeadClass(place, 2 * s, t + s)
        <3>1. pc[t + s] # "normRope"  BY <1>2, <2>1 DEF HeadRounds
        <3>2. HeadSlot(place, t + s)  BY <1>2, <1>6, <2>1, <3>1 DEF HeadSlots
        <3>3. t + s < 2 * s /\ s <= t + s  BY <1>5
        <3> QED BY <2>1, <3>2, <3>3 DEF HeadSlot
    <2>3. arrays.squares[t] = HeadClass(place, 2 * s, t)
        <3>1. HeadSlot(place, t)  BY <1>1, <1>2, <1>6 DEF HeadSlots
        <3>2. t < 2 * s  BY <1>5
        <3> QED BY <1>4, <1>5, <3>1, <3>2 DEF HeadSlot
    <2>4. HeadClass(place, 2 * s, t) (+) HeadClass(place, 2 * s, t + s) = HeadClass(place, s, t)
        <3>1. t \in 0 .. s - 1  BY <1>5
        <3> QED BY <1>3, <1>5, <3>1, ClassSplits
    <2> QED BY <1>9, <2>2, <2>3, <2>4
<1>14. HeadSlots'
    <2>1. RowInType' = place /\ \A w, u : HeadClass(place, w, u)' = HeadClass(place, w, u)
        BY <1>1, <1>6, PlaceKept
    <2>2. ASSUME NEW u \in Threads, pc'[u] # "normRope" PROVE HeadSlot(place, u)'
        <3>1. CASE u = t
            <4>1. Width(stride'[t]) = s  BY <1>5, <1>7
            <4>2. s <= t /\ t < 2 * s => arrays'.squares[t] = HeadClass(place, 2 * s, t)
                <5>1. HeadSlot(place, t)  BY <1>1, <1>2, <1>6 DEF HeadSlots
                <5>2. t < 2 * s => arrays.squares[t] = HeadClass(place, 2 * s, t)
                    BY <1>4, <1>5, <5>1 DEF HeadSlot
                <5> QED BY <1>5, <1>9, <5>2
            <4>3. PICK z : z = stride'[t]  OBVIOUS
            <4>4. Width(z) = s  BY <4>1, <4>3
            <4> QED BY <1>1, <1>13, <3>1, <4>2, <4>3, <4>4 DEF HeadSlot, HeadClass, Width
        <3>2. CASE u # t
            <4>1. HeadSlot(place, u)  BY <1>2, <1>6, <1>7, <2>2, <3>2 DEF HeadSlots
            <4>2. stride'[u] = stride[u] /\ arrays'.squares[u] = arrays.squares[u]
                BY <1>7, <1>9, <3>2
            <4> QED BY <1>1, <4>1, <4>2 DEF HeadSlot, HeadClass, Width
        <3> QED BY <3>1, <3>2
    <2> QED BY <2>1, <2>2 DEF HeadSlots
<1> QED BY <1>10, <1>11, <1>12, <1>14 DEF HeadsInv

(* A thread past the last round finds the sum of the whole head. *)
LEMMA WholeSum ==
    ASSUME HeadsInv, launch.kernel = "normRope", NEW t \in Threads,
           pc[t] = "reduce", Open(t), stride[t] = 0
    PROVE  arrays.squares[0] = HeadSquares(RowInType)
<1>1. KernelControl /\ HeadRounds /\ HeadSlots
    <2>1. Running  BY DEF Running
    <2> QED BY <2>1 DEF HeadsInv
<1>2. 0 \in Threads  BY Blocks DEF Threads
<1>3. /\ \A u \in Threads : arrived[u] \in Nat /\ stride[u] \in Nat
      /\ launch.headDim \in Nat
    BY <1>1, Kernels DEF KernelControl, Positive
<1>4. LockStep(t, 0) /\ arrived[0] >= arrived[t] /\ arrived[t] # 0
    BY <1>1, <1>2 DEF HeadRounds, Reducing, Open
<1>5. stride[0] = 0 /\ pc[0] # "normRope"
    <2>1. arrived[0] = arrived[t] \/ arrived[0] = arrived[t] + 1  BY <1>2, <1>3, <1>4 DEF LockStep
    <2>2. arrived[0] # arrived[t] + 1  BY <1>4 DEF LockStep, NextRound
    <2>3. arrived[0] # 0  BY <1>3, <1>4, <2>1, <2>2
    <2> QED BY <1>1, <1>2, <1>4, <2>1, <2>2, <2>3 DEF LockStep, HeadRounds
<1>6. HeadSlot(RowInType, 0)  BY <1>1, <1>2, <1>5 DEF HeadSlots
<1>7. arrays.squares[0] = HeadClass(RowInType, 1, 0)  BY <1>5, <1>6 DEF HeadSlot, Width
<1>8. {j \in UpTo(launch.headDim) : j % 1 = 0} = UpTo(launch.headDim)
    <2>1. \A j \in UpTo(launch.headDim) : j % 1 = 0  BY <1>3 DEF UpTo
    <2> QED BY <2>1
<1> QED BY <1>7, <1>8, Zenon DEF HeadClass, HeadSquares

(* What it stores. *)
LEMMA TurnedElement ==
    ASSUME HeadsInv, launch.kernel = "normRope", NEW t \in Threads,
           pc[t] = "reduce", Open(t), stride[t] = 0, NEW c \in OwnElements(t)
    PROVE  Turned(c) = HeadElement(RowInType, c, launch.pos + (RowInType \div HeadsOfType))
<1>1. KernelControl /\ HeadsStored /\ Running
    <2>1. Running  BY DEF Running
    <2> QED BY <2>1 DEF HeadsInv
<1>2. block \in Grid(launch)  BY <1>1 DEF KernelControl
<1>3. /\ launch.headDim \in Nat \ {0} /\ Base = RowInType * launch.headDim
      /\ Token = RowInType \div HeadsOfType
    BY <1>1, <1>2, HeadPlace
<1>4. ASSUME NEW e \in OwnElements(t) PROVE Normalised(e) = NormOf(RowInType, e)
    <2>1. e \in Columns /\ Owner(e) = t  BY <1>3, OwnPairs
    <2>2. memory[Values][Base + e] = Raw(Base + e)  BY <1>1, <2>1, RawElement
    <2>3. Squared(memory[Values][Base + e]) = Base + e  BY <2>2, SquaredRaw
    <2>4. arrays.squares[0] = HeadSquares(RowInType)  BY WholeSum
    <2> QED BY <1>3, <2>3, <2>4 DEF Normalised, NormOf
<1> DEFINE first == c - (c % 2)
           even == 2 * (launch.headDim \div 2)
<1>5. c < even => first \in OwnElements(t) /\ first + 1 \in OwnElements(t)
    BY <1>3, OwnPairs
<1>6. Turned(c) = IF c < even /\ first < launch.rotaryDim
                  THEN TurnPair(Normalised(first), Normalised(first + 1), first,
                                launch.pos + Token)[PartOf(c)]
                  ELSE Normalised(c)
    BY Zenon DEF Turned
<1>7. HeadElement(RowInType, c, launch.pos + (RowInType \div HeadsOfType))
        = IF c < even /\ first < launch.rotaryDim
          THEN TurnPair(NormOf(RowInType, first), NormOf(RowInType, first + 1), first,
                        launch.pos + (RowInType \div HeadsOfType))[PartOf(c)]
          ELSE NormOf(RowInType, c)
    BY Zenon DEF HeadElement
<1>8. c < even => Normalised(first) = NormOf(RowInType, first)
                  /\ Normalised(first + 1) = NormOf(RowInType, first + 1)
    BY <1>4, <1>5
<1> HIDE DEF first, even
<1> QED BY <1>3, <1>4, <1>6, <1>7, <1>8

(* Which buffers they are. *)
LEMMA BufferShapes ==
    ASSUME KernelControl, launch.kernel = "normRope", Buffers
    PROVE  /\ DOMAIN memory = {"q", "k", "v", "cacheK", "cacheV"}
           /\ launch.headDim \in Nat \ {0}
           /\ launch.batch * launch.heads \in Nat /\ launch.batch * launch.kvHeads \in Nat
           /\ CacheFirst \in Nat
           /\ DOMAIN memory.q = UpTo(0 + ((launch.batch * launch.heads) * launch.headDim))
           /\ DOMAIN memory.k = UpTo(0 + ((launch.batch * launch.kvHeads) * launch.headDim))
           /\ DOMAIN memory.cacheK = UpTo(CacheFirst + ((launch.batch * launch.kvHeads) * launch.headDim))
           /\ DOMAIN memory.cacheV = UpTo(CacheFirst + ((launch.batch * launch.kvHeads) * launch.headDim))
           /\ \A i \in UpTo(launch.batch * launch.kvHeads * launch.headDim) : memory.v[i] = Raw(i)
<1> DEFINE D == launch.headDim  b == launch.batch  h == launch.heads  n == launch.kvHeads
           p == launch.kvPos
           Q == UpTo(b * h * D)  K == UpTo(b * n * D)  C == UpTo((p + b) * n * D)
<1>1. D \in Nat \ {0} /\ b \in Nat /\ h \in Nat /\ n \in Nat /\ p \in Nat
    BY Kernels DEF KernelControl, Positive
<1>2. memory = [q |-> [i \in Q |-> memory.q[i]], k |-> [i \in K |-> memory.k[i]],
                v |-> [i \in K |-> Raw(i)], cacheK |-> [i \in C |-> memory.cacheK[i]],
                cacheV |-> [i \in C |-> memory.cacheV[i]]]
    BY Zenon DEF Buffers
<1> HIDE DEF Q, K, C
<1>3. /\ DOMAIN memory = {"q", "k", "v", "cacheK", "cacheV"}
      /\ DOMAIN memory.q = Q /\ DOMAIN memory.k = K /\ DOMAIN memory.cacheK = C
      /\ DOMAIN memory.cacheV = C /\ \A i \in K : memory.v[i] = Raw(i)
    <2>1. memory.q = [i \in Q |-> memory.q[i]]  BY <1>2
    <2>2. memory.k = [i \in K |-> memory.k[i]]  BY <1>2
    <2>3. memory.v = [i \in K |-> Raw(i)]  BY <1>2
    <2>4. memory.cacheK = [i \in C |-> memory.cacheK[i]]  BY <1>2
    <2>5. memory.cacheV = [i \in C |-> memory.cacheV[i]]  BY <1>2
    <2>6. DOMAIN memory = {"q", "k", "v", "cacheK", "cacheV"}  BY <1>2
    <2> QED BY <2>1, <2>2, <2>3, <2>4, <2>5, <2>6
<1>4. (b * h) * D = 0 + ((b * h) * D) /\ b * h \in Nat  BY <1>1
<1>5. (b * n) * D = 0 + ((b * n) * D) /\ b * n \in Nat  BY <1>1
<1>6. (p + b) * n * D = (p * n * D) + ((b * n) * D) /\ p * n * D \in Nat
    <2> HIDE DEF p, b, n, D
    <2>1. (p + b) * n = (p * n) + (b * n)  BY <1>1
    <2>2. p * n \in Nat /\ b * n \in Nat  BY <1>1
    <2>3. ((p * n) + (b * n)) * D = ((p * n) * D) + ((b * n) * D)  BY <1>1, <2>2
    <2>4. (p * n) * D \in Nat  BY <1>1, <2>2
    <2> QED BY <2>1, <2>3, <2>4
<1>7. CacheFirst = p * n * D  BY DEF CacheFirst
<1> QED BY <1>1, <1>3, <1>4, <1>5, <1>6, <1>7 DEF Q, K, C

(* A thread stores its part of a head of a query, or of a key. *)
LEMMA TurnStores ==
    ASSUME HeadsInv, launch.kernel = "normRope", NEW t \in Threads, TurnHead(t)
    PROVE  HeadsStored'
<1> DEFINE D == launch.headDim
           own == OwnElements(t)
           turned == [c \in own |-> Turned(c)]
           copied == [c \in own |-> memory.v[Base + c]]
           Element(p, c, h) == HeadElement(p, c, launch.pos + (p \div h))
<1>1. /\ pc[t] = "reduce" /\ Open(t) /\ stride[t] = 0 /\ pc[t] # "done"
      /\ memory' = IF IsQuery THEN [memory EXCEPT !.q = Stored(memory.q, Base, turned)]
                   ELSE [memory EXCEPT !.k = Stored(memory.k, Base, turned),
                                       !.cacheK = Stored(memory.cacheK, CacheBase, turned),
                                       !.cacheV = Stored(memory.cacheV, CacheBase, copied)]
      /\ pc' = [pc EXCEPT ![t] = "done"]
      /\ UNCHANGED <<launch, todo, block, stride, sum, arrived, arrays>>
    <2>1. pc[t] = "reduce" /\ Open(t) /\ stride[t] = 0 /\ StoreHead(t)
          /\ pc' = [pc EXCEPT ![t] = "done"]
          /\ UNCHANGED <<launch, todo, block, stride, sum, arrived, arrays>>
        BY Zenon DEF TurnHead, Go
    <2>2. memory' = IF IsQuery THEN [memory EXCEPT !.q = Stored(memory.q, Base, turned)]
                    ELSE [memory EXCEPT !.k = Stored(memory.k, Base, turned),
                                        !.cacheK = Stored(memory.cacheK, CacheBase, turned),
                                        !.cacheV = Stored(memory.cacheV, CacheBase, copied)]
        BY <2>1, Zenon DEF StoreHead
    <2> QED BY <2>1, <2>2
<1>2. KernelControl /\ HeadsStored /\ Buffers /\ Running
    <2>1. Running  BY <1>1 DEF Running
    <2> QED BY <2>1 DEF HeadsInv, HeadsStored
<1>3. block \in Grid(launch)  BY <1>2 DEF KernelControl
<1>4. /\ D \in Nat \ {0} /\ own \in SUBSET Columns
      /\ own = {c \in Columns : Owner(c) = t}
      /\ \A c \in Columns : Owner(c) \in Threads
    <2>1. D \in Nat \ {0}  BY <1>2, <1>3, HeadPlace
    <2> QED BY <2>1, OwnPairs
<1>5. PICK place \in Nat : place = RowInType  BY <1>2, <1>3, HeadPlace
<1>6. /\ Base = place * D /\ Base \in Nat
      /\ IsQuery => place \in QueryRows /\ block = place /\ HeadsOfType = launch.heads
      /\ ~IsQuery => /\ place \in KeyRows /\ block = KeyBlock(place) /\ HeadsOfType = launch.kvHeads
                     /\ CacheBase = CacheFirst + Base
    BY <1>2, <1>3, <1>5, HeadPlace
<1>7. \A c \in own : Turned(c) = Element(place, c, HeadsOfType)
    BY <1>1, <1>5, TurnedElement
<1>8. /\ launch' = launch /\ QueryRows' = QueryRows /\ KeyRows' = KeyRows /\ Columns' = Columns
      /\ CacheFirst' = CacheFirst
      /\ \A p, c, h : Element(p, c, h)' = Element(p, c, h)
    BY <1>1 DEF QueryRows, KeyRows, Columns, CacheFirst, HeadElement, NormOf, HeadSquares
<1>9. ASSUME NEW p, NEW c \in Columns
      PROVE  /\ Over(p, Owner(c))' <=> Over(p, Owner(c)) \/ (p = block /\ c \in own)
             /\ Over(KeyBlock(p), Owner(c))'
                  <=> Over(KeyBlock(p), Owner(c)) \/ (KeyBlock(p) = block /\ c \in own)
    <2>1. \E u \in Threads : u = Owner(c) /\ Owner(c)' = u  BY <1>4, <1>8 DEF Owner
    <2>2. PICK u \in Threads : u = Owner(c) /\ Owner(c)' = u  BY <2>1
    <2>3. \E b : b = KeyBlock(p) /\ KeyBlock(p)' = b  BY <1>8 DEF KeyBlock
    <2>4. PICK b : b = KeyBlock(p) /\ KeyBlock(p)' = b  BY <2>3
    <2>5. UNCHANGED <<launch, todo, block>> /\ pc[t] # "done" /\ pc' = [pc EXCEPT ![t] = "done"]
        BY <1>1
    <2>6. Over(p, u)' <=> Over(p, u) \/ ("done" = "done" /\ p = block /\ u = t)
        BY <1>2, <2>5, OverAfterStep
    <2>7. Over(b, u)' <=> Over(b, u) \/ ("done" = "done" /\ b = block /\ u = t)
        BY <1>2, <2>5, OverAfterStep
    <2>8. Over(p, Owner(c))' <=> Over(p, u)'  BY <2>2 DEF Over
    <2>9. Over(KeyBlock(p), Owner(c))' <=> Over(b, u)'  BY <2>2, <2>4 DEF Over
    <2>10. c \in own <=> u = t  BY <1>4, <2>2
    <2> QED BY <2>2, <2>4, <2>6, <2>7, <2>8, <2>9, <2>10
<1> DEFINE nq == launch.batch * launch.heads  nk == launch.batch * launch.kvHeads
<1>10. /\ DOMAIN memory = {"q", "k", "v", "cacheK", "cacheV"}
       /\ nq \in Nat /\ nk \in Nat /\ CacheFirst \in Nat
       /\ DOMAIN memory.q = UpTo(0 + (nq * D)) /\ DOMAIN memory.k = UpTo(0 + (nk * D))
       /\ DOMAIN memory.cacheK = UpTo(CacheFirst + (nk * D))
       /\ DOMAIN memory.cacheV = UpTo(CacheFirst + (nk * D))
       /\ \A i \in UpTo(nk * D) : memory.v[i] = Raw(i)
    BY <1>2, BufferShapes
<1>11. QueryRows = UpTo(nq) /\ KeyRows = UpTo(nk)  BY DEF QueryRows, KeyRows
<1>12. ASSUME NEW n \in Nat, NEW p \in UpTo(n), NEW c \in Columns
       PROVE  /\ 0 + ((p * D) + c) = (p * D) + c /\ 0 + (p * D) = p * D /\ p \in Nat
              /\ (p * D) + c \in UpTo(n * D)
    <2>1. p \in Nat /\ c \in Nat /\ (p * D) + c \in UpTo(n * D)
        BY <1>4, ElementsApart DEF Columns, UpTo
    <2>2. p * D \in Nat  BY <1>4, <2>1
    <2> DEFINE r == p * D
    <2> HIDE DEF r
    <2>3. 0 + (r + c) = r + c /\ 0 + r = r  BY <2>1, <2>2 DEF r
    <2> QED BY <2>1, <2>3 DEF r
<1>13. \A p \in KeyRows : KeyBlock(p) = nq + p /\ p \in Nat  BY <1>10, <1>11 DEF KeyBlock, UpTo
<1>14. \A p \in QueryRows : p < nq /\ p \in Nat  BY <1>10, <1>11 DEF UpTo
<1>15. ASSUME NEW f, NEW first \in Nat, NEW n \in Nat, place \in UpTo(n),
              DOMAIN f = UpTo(first + (n * D)), NEW v, DOMAIN v = own
       PROVE  Rewritten(Stored(f, first + Base, v), f, first, n, place, v)
    <2>1. DOMAIN v \in SUBSET Columns  BY <1>4, <1>15
    <2>2. Rewritten(Stored(f, first + (place * launch.headDim), v), f, first, n, place, v)
        <3>1. launch.headDim \in Nat \ {0} /\ DOMAIN f = UpTo(first + (n * launch.headDim))
            BY <1>4, <1>15
        <3> HIDE DEF own
        <3> QED BY <1>15, <2>1, <3>1, StoredHead, Zenon
    <2> QED BY <1>6, <2>2, Zenon
<1>16. 0 + Base = Base  BY <1>6
<1>17. DOMAIN turned = own /\ DOMAIN copied = own  OBVIOUS
<1>18. /\ memory.k = [i \in UpTo(launch.batch * launch.kvHeads * D) |-> memory.k[i]]
       /\ memory.v = [i \in UpTo(launch.batch * launch.kvHeads * D) |-> Raw(i)]
       /\ memory.cacheK = [i \in UpTo((launch.kvPos + launch.batch) * launch.kvHeads * D)
                             |-> memory.cacheK[i]]
       /\ memory.cacheV = [i \in UpTo((launch.kvPos + launch.batch) * launch.kvHeads * D)
                             |-> memory.cacheV[i]]
       /\ memory.q = [i \in UpTo(launch.batch * launch.heads * D) |-> memory.q[i]]
       /\ memory = [q |-> memory.q, k |-> memory.k, v |-> memory.v,
                    cacheK |-> memory.cacheK, cacheV |-> memory.cacheV]
    <2>1. memory = [q |-> [i \in UpTo(launch.batch * launch.heads * D) |-> memory.q[i]],
             k |-> [i \in UpTo(launch.batch * launch.kvHeads * D) |-> memory.k[i]],
             v |-> [i \in UpTo(launch.batch * launch.kvHeads * D) |-> Raw(i)],
             cacheK |-> [i \in UpTo((launch.kvPos + launch.batch) * launch.kvHeads * D)
                           |-> memory.cacheK[i]],
             cacheV |-> [i \in UpTo((launch.kvPos + launch.batch) * launch.kvHeads * D)
                           |-> memory.cacheV[i]]]
        BY <1>2, Zenon DEF Buffers
    <2> QED BY <2>1
<1>19. ASSUME memory' = [q |-> memory'.q, k |-> memory'.k, v |-> memory.v,
                         cacheK |-> memory'.cacheK, cacheV |-> memory'.cacheV],
              memory'.q = [i \in DOMAIN memory.q |-> memory'.q[i]],
              memory'.k = [i \in DOMAIN memory.k |-> memory'.k[i]],
              memory'.cacheK = [i \in DOMAIN memory.cacheK |-> memory'.cacheK[i]],
              memory'.cacheV = [i \in DOMAIN memory.cacheV |-> memory'.cacheV[i]]
       PROVE  Buffers'
    <2>1. /\ memory'.k = [i \in UpTo(launch.batch * launch.kvHeads * D) |-> memory'.k[i]]
          /\ memory'.cacheK = [i \in UpTo((launch.kvPos + launch.batch) * launch.kvHeads * D)
                                |-> memory'.cacheK[i]]
          /\ memory'.cacheV = [i \in UpTo((launch.kvPos + launch.batch) * launch.kvHeads * D)
                                |-> memory'.cacheV[i]]
          /\ memory'.q = [i \in UpTo(launch.batch * launch.heads * D) |-> memory'.q[i]]
        <3>1. /\ DOMAIN memory.q = UpTo(launch.batch * launch.heads * D)
              /\ DOMAIN memory.k = UpTo(launch.batch * launch.kvHeads * D)
              /\ DOMAIN memory.cacheK = UpTo((launch.kvPos + launch.batch) * launch.kvHeads * D)
              /\ DOMAIN memory.cacheV = UpTo((launch.kvPos + launch.batch) * launch.kvHeads * D)
            BY <1>18
        <3> QED BY <1>19, <3>1, Zenon
    <2>2. memory' = [q |-> [i \in UpTo(launch.batch * launch.heads * D) |-> memory'.q[i]],
             k |-> [i \in UpTo(launch.batch * launch.kvHeads * D) |-> memory'.k[i]],
             v |-> [i \in UpTo(launch.batch * launch.kvHeads * D) |-> Raw(i)],
             cacheK |-> [i \in UpTo((launch.kvPos + launch.batch) * launch.kvHeads * D)
                           |-> memory'.cacheK[i]],
             cacheV |-> [i \in UpTo((launch.kvPos + launch.batch) * launch.kvHeads * D)
                           |-> memory'.cacheV[i]]]
        BY <1>18, <1>19, <2>1, Zenon
    <2> QED BY <1>8, <2>2 DEF Buffers
<1> HIDE DEF Element
<1>20. CASE IsQuery
    <2> DEFINE g == Stored(memory.q, Base, turned)
    <2>1. place \in UpTo(nq) /\ block = place /\ HeadsOfType = launch.heads  BY <1>6, <1>11, <1>20
    <2>2. memory' = [memory EXCEPT !.q = g]  BY <1>1, <1>20
    <2>3. Rewritten(g, memory.q, 0, nq, place, turned)
        <3>1. PICK f : f = memory.q  OBVIOUS
        <3>2. PICK v : v = turned  OBVIOUS
        <3>3. nq \in Nat /\ place \in UpTo(nq) /\ 0 \in Nat /\ DOMAIN f = UpTo(0 + (nq * D))
              /\ DOMAIN v = own
            BY <1>10, <1>17, <2>1, <3>1, <3>2
        <3> HIDE DEF nq, own, turned, D
        <3>4. Rewritten(Stored(f, 0 + Base, v), f, 0, nq, place, v)  BY <1>15, <3>3, Zenon
        <3> QED BY <1>16, <3>1, <3>2, <3>4, Zenon DEF g
    <2>4. \A c \in own : turned[c] = Element(place, c, launch.heads)
        BY <1>7, <2>1 DEF Element
    <2> HIDE DEF g, turned
    <2>5. /\ memory'.q = g /\ memory'.k = memory.k /\ memory'.v = memory.v
          /\ memory'.cacheK = memory.cacheK /\ memory'.cacheV = memory.cacheV
        BY <1>10, <2>2
    <2>6. Buffers'
        <3>1. memory' = [q |-> memory'.q, k |-> memory'.k, v |-> memory.v,
                         cacheK |-> memory'.cacheK, cacheV |-> memory'.cacheV]
            <4> DEFINE mq == memory.q  mk == memory.k  mv == memory.v
                       ck == memory.cacheK  cv == memory.cacheV
            <4>1. memory = [q |-> mq, k |-> mk, v |-> mv, cacheK |-> ck, cacheV |-> cv]
                BY <1>18
            <4> HIDE DEF mq, mk, mv, ck, cv
            <4>2. memory' = [q |-> g, k |-> mk, v |-> mv, cacheK |-> ck, cacheV |-> cv]
                BY <2>2, <4>1
            <4> QED BY <2>5, <4>2 DEF mk, mv, ck, cv
        <3>2. memory'.q = [i \in DOMAIN memory.q |-> memory'.q[i]]
            BY <2>3, <2>5 DEF Rewritten
        <3>3. /\ memory.k = [i \in DOMAIN memory.k |-> memory.k[i]]
              /\ memory.cacheK = [i \in DOMAIN memory.cacheK |-> memory.cacheK[i]]
              /\ memory.cacheV = [i \in DOMAIN memory.cacheV |-> memory.cacheV[i]]
            <4>1. memory.k = [i \in DOMAIN memory.k |-> memory.k[i]]  BY <1>18
            <4>2. memory.cacheK = [i \in DOMAIN memory.cacheK |-> memory.cacheK[i]]  BY <1>18
            <4>3. memory.cacheV = [i \in DOMAIN memory.cacheV |-> memory.cacheV[i]]  BY <1>18
            <4> QED BY <4>1, <4>2, <4>3
        <3>4. /\ memory'.k = [i \in DOMAIN memory.k |-> memory'.k[i]]
              /\ memory'.cacheK = [i \in DOMAIN memory.cacheK |-> memory'.cacheK[i]]
              /\ memory'.cacheV = [i \in DOMAIN memory.cacheV |-> memory'.cacheV[i]]
            BY <2>5, <3>3, Zenon
        <3> QED BY <1>19, <3>1, <3>2, <3>4
    <2>7. ASSUME NEW p \in QueryRows, NEW c \in Columns PROVE QueryStored(p, c)'
        <3>1. memory.q[(p * D) + c] = IF Over(p, Owner(c)) THEN Element(p, c, launch.heads)
                                      ELSE Raw((p * D) + c)
            BY <1>2 DEF HeadsStored, QueryStored, Element
        <3>2. memory'.q[(p * D) + c] = IF p = place /\ c \in own THEN Element(place, c, launch.heads)
                                       ELSE memory.q[(p * D) + c]
            <4>1. p \in UpTo(nq) /\ 0 + ((p * D) + c) = (p * D) + c  BY <1>10, <1>11, <1>12
            <4>2. g[0 + ((p * D) + c)]
                    = IF p = place /\ c \in own THEN turned[c] ELSE memory.q[0 + ((p * D) + c)]
                <5> HIDE DEF own, nq
                <5> QED BY <1>17, <2>3, <4>1 DEF Rewritten
            <4> QED BY <2>4, <2>5, <4>1, <4>2
        <3>3. Over(p, Owner(c))' <=> Over(p, Owner(c)) \/ (p = place /\ c \in own)
            BY <1>9, <2>1
        <3>4. memory'.q[(p * D) + c] = IF Over(p, Owner(c))' THEN Element(p, c, launch.heads)
                                       ELSE Raw((p * D) + c)
            BY <3>1, <3>2, <3>3
        <3>5. Element(p, c, launch.heads)' = Element(p, c, launch.heads)
            BY <1>8 DEF Element, HeadElement, NormOf, HeadSquares
        <3> QED BY <1>8, <3>4, <3>5 DEF QueryStored, Element
    <2>8. ASSUME NEW p \in KeyRows, NEW c \in Columns PROVE KeyStored(p, c)'
        <3>1. KeyStored(p, c)  BY <1>2 DEF HeadsStored
        <3>2. KeyBlock(p) # block
            <4>1. place < nq /\ KeyBlock(p) = nq + p /\ p \in Nat  BY <1>6, <1>13, <1>14, <1>20
            <4> HIDE DEF nq
            <4> QED BY <1>10, <2>1, <4>1
        <3>3. Over(KeyBlock(p), Owner(c))' <=> Over(KeyBlock(p), Owner(c))  BY <1>9, <3>2
        <3>4. Element(p, c, launch.kvHeads)' = Element(p, c, launch.kvHeads)
            BY <1>8 DEF Element, HeadElement, NormOf, HeadSquares
        <3> QED BY <1>8, <2>5, <3>1, <3>3, <3>4 DEF KeyStored, Element
    <2>9. \A j \in UpTo(CacheFirst) : memory'.cacheK[j] = Unwritten /\ memory'.cacheV[j] = Unwritten
        BY <1>2, <2>5 DEF HeadsStored
    <2> QED BY <1>8, <2>6, <2>7, <2>8, <2>9 DEF HeadsStored
<1>21. CASE ~IsQuery
    <2> DEFINE gk == Stored(memory.k, Base, turned)
               gc == Stored(memory.cacheK, CacheBase, turned)
               gv == Stored(memory.cacheV, CacheBase, copied)
    <2>1. place \in UpTo(nk) /\ block = nq + place /\ HeadsOfType = launch.kvHeads
          /\ CacheBase = CacheFirst + Base
        BY <1>6, <1>11, <1>13, <1>21
    <2>2. memory' = [memory EXCEPT !.k = gk, !.cacheK = gc, !.cacheV = gv]  BY <1>1, <1>21
    <2>3. Rewritten(gk, memory.k, 0, nk, place, turned)
        <3>1. PICK f : f = memory.k  OBVIOUS
        <3>2. PICK v : v = turned  OBVIOUS
        <3>3. nk \in Nat /\ place \in UpTo(nk) /\ 0 \in Nat /\ DOMAIN f = UpTo(0 + (nk * D))
              /\ DOMAIN v = own
            BY <1>10, <1>17, <2>1, <3>1, <3>2
        <3> HIDE DEF nk, own, turned, D
        <3>4. Rewritten(Stored(f, 0 + Base, v), f, 0, nk, place, v)  BY <1>15, <3>3, Zenon
        <3> QED BY <1>16, <3>1, <3>2, <3>4, Zenon DEF gk
    <2>4. Rewritten(gc, memory.cacheK, CacheFirst, nk, place, turned)
        <3>1. PICK f : f = memory.cacheK  OBVIOUS
        <3>2. PICK v : v = turned  OBVIOUS
        <3>3. PICK first : first = CacheFirst  OBVIOUS
        <3>4. nk \in Nat /\ place \in UpTo(nk) /\ first \in Nat /\ DOMAIN f = UpTo(first + (nk * D))
              /\ DOMAIN v = own
            BY <1>10, <1>17, <2>1, <3>1, <3>2, <3>3
        <3> HIDE DEF nk, own, turned, D
        <3>5. Rewritten(Stored(f, first + Base, v), f, first, nk, place, v)  BY <1>15, <3>4, Zenon
        <3> QED BY <2>1, <3>1, <3>2, <3>3, <3>5, Zenon DEF gc
    <2>5. Rewritten(gv, memory.cacheV, CacheFirst, nk, place, copied)
        <3>1. PICK f : f = memory.cacheV  OBVIOUS
        <3>2. PICK v : v = copied  OBVIOUS
        <3>3. PICK first : first = CacheFirst  OBVIOUS
        <3>4. nk \in Nat /\ place \in UpTo(nk) /\ first \in Nat /\ DOMAIN f = UpTo(first + (nk * D))
              /\ DOMAIN v = own
            BY <1>10, <1>17, <2>1, <3>1, <3>2, <3>3
        <3> HIDE DEF nk, own, copied, D
        <3>5. Rewritten(Stored(f, first + Base, v), f, first, nk, place, v)  BY <1>15, <3>4, Zenon
        <3> QED BY <2>1, <3>1, <3>2, <3>3, <3>5, Zenon DEF gv
    <2>6. \A c \in own : turned[c] = Element(place, c, launch.kvHeads)
        BY <1>7, <2>1 DEF Element
    <2>7. \A c \in own : copied[c] = Raw((place * D) + c)
        <3>1. ASSUME NEW c \in own PROVE memory.v[Base + c] = Raw((place * D) + c)
            <4>1. c \in Columns  BY <1>4
            <4>2. (place * D) + c \in UpTo(nk * D)  BY <1>10, <1>12, <2>1, <4>1
            <4> QED BY <1>6, <1>10, <4>2
        <3> QED BY <3>1
    <2> HIDE DEF gk, gc, gv, turned, copied
    <2>8. /\ memory'.q = memory.q /\ memory'.k = gk /\ memory'.v = memory.v
          /\ memory'.cacheK = gc /\ memory'.cacheV = gv
        BY <1>10, <2>2
    <2>9. Buffers'
        <3>1. memory' = [q |-> memory'.q, k |-> memory'.k, v |-> memory.v,
                         cacheK |-> memory'.cacheK, cacheV |-> memory'.cacheV]
            <4> DEFINE mq == memory.q  mk == memory.k  mv == memory.v
                       ck == memory.cacheK  cv == memory.cacheV
            <4>1. memory = [q |-> mq, k |-> mk, v |-> mv, cacheK |-> ck, cacheV |-> cv]
                BY <1>18
            <4> HIDE DEF mq, mk, mv, ck, cv
            <4>2. memory' = [q |-> mq, k |-> gk, v |-> mv, cacheK |-> gc, cacheV |-> gv]
                BY <2>2, <4>1
            <4> QED BY <2>8, <4>2 DEF mq, mv
        <3>2. /\ memory'.k = [i \in DOMAIN memory.k |-> memory'.k[i]]
              /\ memory'.cacheK = [i \in DOMAIN memory.cacheK |-> memory'.cacheK[i]]
              /\ memory'.cacheV = [i \in DOMAIN memory.cacheV |-> memory'.cacheV[i]]
            BY <2>3, <2>4, <2>5, <2>8, Zenon DEF Rewritten
        <3>3. memory.q = [i \in DOMAIN memory.q |-> memory.q[i]]  BY <1>18
        <3>4. memory'.q = [i \in DOMAIN memory.q |-> memory'.q[i]]  BY <2>8, <3>3, Zenon
        <3> QED BY <1>19, <3>1, <3>2, <3>4
    <2>10. ASSUME NEW p \in QueryRows, NEW c \in Columns PROVE QueryStored(p, c)'
        <3>1. memory.q[(p * D) + c] = IF Over(p, Owner(c)) THEN Element(p, c, launch.heads)
                                      ELSE Raw((p * D) + c)
            BY <1>2 DEF HeadsStored, QueryStored, Element
        <3>2. p # block
            <4>1. p < nq /\ p \in Nat /\ place \in Nat  BY <1>14
            <4> HIDE DEF nq
            <4> QED BY <1>10, <2>1, <4>1
        <3>3. Over(p, Owner(c))' <=> Over(p, Owner(c))  BY <1>9, <3>2
        <3>4. Element(p, c, launch.heads)' = Element(p, c, launch.heads)
            BY <1>8 DEF Element, HeadElement, NormOf, HeadSquares
        <3> QED BY <1>8, <2>8, <3>1, <3>3, <3>4 DEF QueryStored, Element
    <2>11. ASSUME NEW p \in KeyRows, NEW c \in Columns PROVE KeyStored(p, c)'
        <3> DEFINE i == (p * D) + c  over == Over(KeyBlock(p), Owner(c))
                   mine == p = place /\ c \in own
        <3>1. /\ memory.k[i] = IF over THEN Element(p, c, launch.kvHeads) ELSE Raw(i)
              /\ memory.cacheK[CacheFirst + i]
                   = IF over THEN Element(p, c, launch.kvHeads) ELSE Unwritten
              /\ memory.cacheV[CacheFirst + i] = IF over THEN Raw(i) ELSE Unwritten
            BY <1>2 DEF HeadsStored, KeyStored, Element
        <3>2. p \in UpTo(nk) /\ 0 + i = i  BY <1>10, <1>11, <1>12
        <3>3. memory'.k[i] = IF mine THEN Element(p, c, launch.kvHeads) ELSE memory.k[i]
            <4>1. gk[0 + ((p * D) + c)]
                    = IF p = place /\ c \in own THEN turned[c] ELSE memory.k[0 + ((p * D) + c)]
                <5> HIDE DEF own, nk, i
                <5> QED BY <1>17, <2>3, <3>2 DEF Rewritten
            <4> HIDE DEF own
            <4> QED BY <2>6, <2>8, <3>2, <4>1
        <3>4. memory'.cacheK[CacheFirst + i]
                = IF mine THEN Element(p, c, launch.kvHeads) ELSE memory.cacheK[CacheFirst + i]
            <4>1. gc[CacheFirst + ((p * D) + c)]
                    = IF p = place /\ c \in own THEN turned[c] ELSE memory.cacheK[CacheFirst + ((p * D) + c)]
                <5> HIDE DEF own, nk, i
                <5> QED BY <1>17, <2>4, <3>2 DEF Rewritten
            <4> HIDE DEF own
            <4> QED BY <2>6, <2>8, <4>1
        <3>5. memory'.cacheV[CacheFirst + i]
                = IF mine THEN Raw(i) ELSE memory.cacheV[CacheFirst + i]
            <4>1. gv[CacheFirst + ((p * D) + c)]
                    = IF p = place /\ c \in own THEN copied[c] ELSE memory.cacheV[CacheFirst + ((p * D) + c)]
                <5> HIDE DEF own, nk, i
                <5> QED BY <1>17, <2>5, <3>2 DEF Rewritten
            <4> HIDE DEF own
            <4> QED BY <2>7, <2>8, <4>1
        <3>6. over' <=> over \/ mine
            <4>1. KeyBlock(p) = block <=> p = place
                <5>1. KeyBlock(p) = nq + p /\ p \in Nat /\ place \in Nat  BY <1>13
                <5> HIDE DEF nq
                <5> QED BY <1>10, <2>1, <5>1
            <4> QED BY <1>9, <4>1
        <3>7. Element(p, c, launch.kvHeads)' = Element(p, c, launch.kvHeads)
            BY <1>8 DEF Element, HeadElement, NormOf, HeadSquares
        <3>8. /\ memory'.k[i] = IF over' THEN Element(p, c, launch.kvHeads) ELSE Raw(i)
              /\ memory'.cacheK[CacheFirst + i]
                   = IF over' THEN Element(p, c, launch.kvHeads) ELSE Unwritten
              /\ memory'.cacheV[CacheFirst + i] = IF over' THEN Raw(i) ELSE Unwritten
            <4> HIDE DEF mine, i
            <4> QED BY <3>1, <3>3, <3>4, <3>5, <3>6
        <3> QED BY <1>8, <3>7, <3>8 DEF KeyStored, Element
    <2>12. \A j \in UpTo(CacheFirst) : memory'.cacheK[j] = Unwritten /\ memory'.cacheV[j] = Unwritten
        BY <1>2, <2>4, <2>5, <2>8 DEF HeadsStored, Rewritten
    <2> QED BY <1>8, <2>9, <2>10, <2>11, <2>12 DEF HeadsStored
<1> QED BY <1>20, <1>21

(* A thread stores its part of a head and returns. *)
LEMMA TurnKeeps ==
    ASSUME HeadsInv, launch.kernel = "normRope", NEW t \in Threads, TurnHead(t)
    PROVE  HeadsInv'
<1>1. /\ pc[t] = "reduce" /\ Open(t) /\ stride[t] = 0 /\ pc[t] # "done"
      /\ pc' = [pc EXCEPT ![t] = "done"]
      /\ launch' = launch /\ todo' = todo /\ block' = block /\ stride' = stride /\ sum' = sum
      /\ arrived' = arrived /\ arrays' = arrays
    BY DEF TurnHead, Go
<1>2. KernelControl /\ HeadRounds /\ HeadSlots /\ Running
    <2>1. Running  BY <1>1 DEF Running
    <2> QED BY <2>1 DEF HeadsInv
<1>3. HeadsStored'  BY TurnStores
<1>4. KernelControl'
    <2>1. "done" \in Steps(launch.kernel) \cup {"done"}  OBVIOUS
    <2>2. /\ UNCHANGED arrays /\ UNCHANGED <<launch, todo, block>>
          /\ stride' \in [Threads -> Nat] /\ arrived' \in [Threads -> Nat] /\ DOMAIN sum' = Threads
        BY <1>1, <1>2 DEF KernelControl
    <2> QED BY <1>1, <1>2, <2>1, <2>2, ControlGoes
<1>5. \A u \in Threads : pc'[u] = IF u = t THEN "done" ELSE pc[u]
    BY <1>1, <1>2 DEF KernelControl
<1>6. HeadRounds'
    <2>1. Reducing' <=> Reducing  BY <1>1 DEF Reducing, LockStep, NextRound
    <2>2. \A u : Open(u)' <=> Open(u)  BY <1>1 DEF Open
    <2>3. ASSUME NEW u \in Threads
          PROVE  /\ pc'[u] = "normRope" <=> arrived'[u] = 0
                 /\ pc'[u] = "done" => stride'[u] = 0 /\ Open(u)'
        BY <1>1, <1>2, <1>5, <2>2 DEF HeadRounds
    <2> QED BY <1>2, <2>1, <2>3 DEF HeadRounds
<1>7. HeadSlots'
    <2>1. UNCHANGED <<launch, block>>  BY <1>1
    <2>2. PICK place : place = RowInType  OBVIOUS
    <2>3. RowInType' = place  BY <2>1, <2>2, PlaceKept
    <2>4. ASSUME NEW u \in Threads, pc'[u] # "normRope" PROVE HeadSlot(place, u)'
        <3>1. pc[u] # "normRope"  BY <1>1, <1>5, <2>4
        <3>2. HeadSlot(place, u)  BY <1>2, <2>2, <3>1 DEF HeadSlots
        <3> QED BY <1>1, <3>2 DEF HeadSlot, HeadClass, Width
    <2> QED BY <2>3, <2>4 DEF HeadSlots
<1> QED BY <1>3, <1>4, <1>6, <1>7 DEF HeadsInv

(* Before the first block. *)
LEMMA HeadsBegin == KernelInit => HeadsInv
<1> SUFFICES ASSUME KernelInit, launch.kernel = "normRope" PROVE HeadsInv
    BY DEF HeadsInv
<1>1. KernelControl /\ ~Running  BY ControlBegins DEF KernelInit, Running
<1>2. \A b, u : ~Over(b, u)  BY DEF KernelInit, Over
<1> DEFINE rows == (launch.kvPos + launch.batch) * launch.kvHeads * launch.headDim
           nq == launch.batch * launch.heads * launch.headDim
           nk == launch.batch * launch.kvHeads * launch.headDim
           q == [i \in UpTo(nq) |-> Raw(i)]
           k == [i \in UpTo(nk) |-> Raw(i)]
           cache == [i \in UpTo(rows) |-> Unwritten]
<1>3. memory = [q |-> q, k |-> k, v |-> k, cacheK |-> cache, cacheV |-> cache]
    BY DEF KernelInit, Memory
<1> HIDE DEF q, k, cache
<1>4. memory.q = q /\ memory.k = k /\ memory.v = k /\ memory.cacheK = cache /\ memory.cacheV = cache
    BY <1>3
<1>5. Buffers
    <2>1. /\ q = [i \in UpTo(nq) |-> memory.q[i]] /\ k = [i \in UpTo(nk) |-> memory.k[i]]
          /\ k = [i \in UpTo(nk) |-> Raw(i)]
          /\ cache = [i \in UpTo(rows) |-> memory.cacheK[i]]
          /\ cache = [i \in UpTo(rows) |-> memory.cacheV[i]]
        <3>1. q = [i \in UpTo(nq) |-> q[i]]  BY DEF q
        <3>2. k = [i \in UpTo(nk) |-> k[i]] /\ k = [i \in UpTo(nk) |-> Raw(i)]  BY DEF k
        <3>3. cache = [i \in UpTo(rows) |-> cache[i]]  BY DEF cache
        <3> QED BY <1>4, <3>1, <3>2, <3>3, Zenon
    <2>2. memory = [q |-> [i \in UpTo(nq) |-> memory.q[i]], k |-> [i \in UpTo(nk) |-> memory.k[i]],
                    v |-> [i \in UpTo(nk) |-> Raw(i)],
                    cacheK |-> [i \in UpTo(rows) |-> memory.cacheK[i]],
                    cacheV |-> [i \in UpTo(rows) |-> memory.cacheV[i]]]
        BY <1>3, <2>1, Zenon
    <2> QED BY <2>2, Zenon DEF Buffers
<1>6. /\ \A i \in UpTo(nq) : memory.q[i] = Raw(i)
      /\ \A i \in UpTo(nk) : memory.k[i] = Raw(i)
      /\ \A i \in UpTo(rows) : memory.cacheK[i] = Unwritten /\ memory.cacheV[i] = Unwritten
    BY <1>4 DEF q, k, cache
<1> DEFINE cells == (launch.batch * launch.kvHeads) * launch.headDim
<1>7. /\ launch.headDim \in Nat \ {0} /\ launch.batch * launch.heads \in Nat
      /\ launch.batch * launch.kvHeads \in Nat /\ CacheFirst \in Nat
      /\ UpTo(rows) = UpTo(CacheFirst + cells) /\ cells \in Nat
      /\ (launch.batch * launch.heads) * launch.headDim = nq /\ cells = nk
    <2>1. /\ launch.headDim \in Nat \ {0} /\ launch.batch * launch.heads \in Nat
          /\ launch.batch * launch.kvHeads \in Nat /\ CacheFirst \in Nat
          /\ DOMAIN memory.cacheK = UpTo(CacheFirst + cells)
        BY <1>1, <1>5, BufferShapes
    <2>2. DOMAIN memory.cacheK = UpTo(rows)  BY <1>4 DEF cache
    <2>3. cells \in Nat  BY <2>1
    <2> QED BY <2>1, <2>2, <2>3
<1>8. ASSUME NEW place \in QueryRows, NEW c \in Columns PROVE QueryStored(place, c)
    <2>1. (place * launch.headDim) + c \in UpTo(nq)  BY <1>7, ElementsApart DEF QueryRows
    <2> QED BY <1>2, <1>6, <2>1 DEF QueryStored
<1>9. ASSUME NEW place \in KeyRows, NEW c \in Columns PROVE KeyStored(place, c)
    <2> DEFINE i == (place * launch.headDim) + c
    <2>1. i \in UpTo(cells)  BY <1>7, ElementsApart DEF KeyRows
    <2>2. CacheFirst + i \in UpTo(CacheFirst + cells)
        <3> HIDE DEF i, cells
        <3> QED BY <1>7, <2>1 DEF UpTo
    <2>3. memory.k[i] = Raw(i)  BY <1>6, <1>7, <2>1
    <2>4. memory.cacheK[CacheFirst + i] = Unwritten /\ memory.cacheV[CacheFirst + i] = Unwritten
        BY <1>6, <1>7, <2>2
    <2>5. ~Over(KeyBlock(place), Owner(c))  BY <1>2
    <2> QED BY <2>3, <2>4, <2>5 DEF KeyStored
<1>10. ASSUME NEW j \in UpTo(CacheFirst)
       PROVE  memory.cacheK[j] = Unwritten /\ memory.cacheV[j] = Unwritten
    <2>1. j \in UpTo(CacheFirst + cells)
        <3> HIDE DEF cells
        <3> QED BY <1>7 DEF UpTo
    <2> QED BY <1>6, <1>7, <2>1
<1> QED BY <1>1, <1>5, <1>8, <1>9, <1>10 DEF HeadsInv, HeadsStored

(* A block starts. *)
LEMMA HeadsStart ==
    ASSUME HeadsInv, launch.kernel = "normRope", NEW b \in todo, StartBlock(b)
    PROVE  HeadsInv'
<1>1. KernelControl /\ HeadsStored  BY DEF HeadsInv
<1>2. KernelControl'  BY <1>1, ControlStarts
<1>3. HeadsStored'
    <2>1. SameOver  BY <1>1, OverAfterStart
    <2>2. UNCHANGED <<launch, memory>>  BY DEF StartBlock
    <2> QED BY <1>1, <2>1, <2>2, HeadsKept
<1>4. /\ pc' = [u \in Threads |-> "normRope"] /\ stride' = [u \in Threads |-> 0]
      /\ arrived' = [u \in Threads |-> 0]
    BY DEF StartBlock
<1>5. HeadRounds'
    <2>1. \A u \in Threads : pc'[u] = "normRope" /\ stride'[u] = 0 /\ arrived'[u] = 0
        BY <1>4
    <2>2. ASSUME NEW u \in Threads PROVE Halved(BlockDim, stride'[u])
        BY <2>1 DEF Halved
    <2>3. ASSUME NEW u \in Threads, NEW v \in Threads PROVE LockStep(u, v)'
        BY <2>1 DEF LockStep
    <2>4. Reducing'  BY <2>2, <2>3 DEF Reducing
    <2> QED BY <2>1, <2>4 DEF HeadRounds
<1>6. HeadSlots'  BY <1>4 DEF HeadSlots
<1> QED BY <1>2, <1>3, <1>5, <1>6 DEF HeadsInv

(* A step that changes nothing keeps the invariant of the heads. *)
LEMMA HeadsStutter ==
    ASSUME HeadsInv, launch.kernel = "normRope", UNCHANGED kernelVars
    PROVE  HeadsInv'
<1>1. KernelControl /\ HeadsStored  BY DEF HeadsInv
<1>2. /\ launch' = launch /\ todo' = todo /\ block' = block /\ pc' = pc /\ stride' = stride
      /\ sum' = sum /\ arrived' = arrived /\ arrays' = arrays /\ memory' = memory
    BY DEF kernelVars
<1>3. KernelControl' /\ SameOver  BY <1>1, NothingOver
<1>4. HeadsStored'
    <2>1. UNCHANGED <<launch, memory>>  BY <1>2
    <2> QED BY <1>1, <1>3, <2>1, HeadsKept
<1>5. Running' <=> Running  BY <1>2 DEF Running
<1>6. HeadRounds' <=> HeadRounds
    <2>1. Reducing' <=> Reducing  BY <1>2 DEF Reducing, LockStep, NextRound
    <2>2. \A u : Open(u)' <=> Open(u)  BY <1>2 DEF Open
    <2> QED BY <1>2, <2>1, <2>2 DEF HeadRounds
<1>7. HeadSlots' <=> HeadSlots
    <2>1. UNCHANGED <<launch, block>>  BY <1>2
    <2>2. PICK place : place = RowInType  OBVIOUS
    <2>3. RowInType' = place  BY <2>1, <2>2, PlaceKept
    <2>4. \A u \in Threads : HeadSlot(place, u)' <=> HeadSlot(place, u)
        BY <1>2 DEF HeadSlot, HeadClass, Width
    <2> QED BY <1>2, <2>2, <2>3, <2>4 DEF HeadSlots
<1> QED BY <1>3, <1>4, <1>5, <1>6, <1>7 DEF HeadsInv

(* Every step keeps it, whichever kernel was launched. *)
LEMMA HeadsSteps == HeadsInv /\ [KernelNext]_kernelVars => HeadsInv'
<1> SUFFICES ASSUME HeadsInv, [KernelNext]_kernelVars, launch'.kernel = "normRope"
             PROVE  HeadsInv'
    BY DEF HeadsInv
<1>1. launch' = launch
    BY DEF KernelNext, KernelThread, LoadTile, AddTile, StoreOutput, Warp, LocalSquares,
           ReduceSquares, TurnHead, TurnSink, StartBlock, KernelFinished, kernelVars
<1>2. launch.kernel = "normRope" /\ KernelControl  BY <1>1 DEF HeadsInv
<1>3. CASE UNCHANGED kernelVars  BY <1>2, <1>3, HeadsStutter
<1>4. CASE KernelFinished  BY <1>3, <1>4 DEF KernelFinished
<1>5. ASSUME NEW b \in todo, StartBlock(b) PROVE HeadsInv'
    BY <1>2, <1>5, HeadsStart
<1>6. ASSUME NEW t \in Threads, KernelThread(t) PROVE HeadsInv'
    <2>1. pc[t] \in {"normRope", "reduce", "done"}  BY <1>2 DEF KernelControl, Steps
    <2>2. LocalSquares(t) \/ ReduceSquares(t) \/ TurnHead(t)
        BY <1>6, <2>1 DEF KernelThread, LoadTile, AddTile, StoreOutput, Warp, TurnSink
    <2> QED BY <1>2, <2>2, LocalKeeps, RoundKeeps, TurnKeeps
<1> QED BY <1>3, <1>4, <1>5, <1>6 DEF KernelNext

(* Where element i of a buffer of rows of D is: column c of row p. *)
LEMMA ElementIn ==
    ASSUME NEW D \in Positive, NEW p \in Nat, NEW c \in UpTo(D), NEW i, i = (p * D) + c
    PROVE  /\ i \in Nat /\ c \in Nat /\ c < D /\ i % D = c /\ i \div D = p /\ i - (i % D) = p * D
           /\ c % 2 \in 0 .. 1 /\ c - (c % 2) \in Nat /\ c - (c % 2) = 2 * (c \div 2)
           /\ c \div 2 \in Nat /\ c = (2 * (c \div 2)) + (c % 2)
<1>1. c \in Nat /\ c < D /\ c \in 0 .. D - 1 /\ D \in Nat \ {0}  BY DEF UpTo, Positive
<1>2. i \in Nat /\ i \div D = p /\ i % D = c  BY <1>1, CellsOf DEF Cells
<1>3. p * D \in Nat  BY <1>1
<1>4. i - c = p * D
    <2> DEFINE a == p * D
    <2> HIDE DEF a
    <2>1. i = a + c /\ a \in Nat  BY <1>3 DEF a
    <2> QED BY <1>1, <2>1 DEF a
<1> DEFINE q == c \div 2  r == c % 2
<1>5. q \in Nat /\ r \in 0 .. 1 /\ c = (2 * q) + r
    <2>1. 2 \in Nat \ {0}  OBVIOUS
    <2> QED BY <1>1, <2>1, Division, QuotientBelow
<1> HIDE DEF q, r
<1>6. c - r = 2 * q /\ c - r \in Nat  BY <1>1, <1>5
<1> QED BY <1>1, <1>2, <1>4, <1>5, <1>6 DEF q, r

(* Where rope_cpu finds element i of the heads of a token, if they are even. *)
LEMMA RopePlace ==
    ASSUME NEW D \in Positive, D % 2 = 0, NEW heads \in Positive,
           NEW p \in Nat, NEW c \in UpTo(D), NEW i, i = (p * D) + c
    PROVE  /\ i \div (heads * D) = p \div heads
           /\ i - (i % 2) = (p * D) + (c - (c % 2)) /\ PartOf(i) = PartOf(c)
           /\ ((i - (i % 2)) % (heads * D)) % D = c - (c % 2)
           /\ (c - (c % 2)) + 1 \in UpTo(D) /\ c - (c % 2) \in UpTo(D)
           /\ (i - (i % 2)) + 1 = (p * D) + ((c - (c % 2)) + 1)
<1> DEFINE q == c \div 2  r == c % 2  first == c - r  k == D \div 2
           a == p * D
<1>1. /\ i \in Nat /\ c \in Nat /\ c < D /\ r \in 0 .. 1 /\ first = 2 * q /\ first \in Nat
      /\ q \in Nat /\ c = (2 * q) + r
    BY ElementIn
<1>2. D \in Nat \ {0} /\ heads \in Nat \ {0} /\ k \in Nat /\ D = 2 * k /\ a \in Nat
    <2>1. D \in Nat \ {0} /\ heads \in Nat \ {0} /\ 2 \in Nat \ {0}  BY DEF Positive
    <2>2. D = (2 * (D \div 2)) + (D % 2) /\ k \in Nat  BY <2>1, Division, QuotientBelow
    <2>3. D = 2 * k  BY <2>1, <2>2
    <2> QED BY <2>1, <2>2, <2>3
<1>3. i = (((p * k) + q) * 2) + r /\ (p * k) + q \in Nat /\ a = 2 * (p * k)
    <2> HIDE DEF q, r, k
    <2>1. a = 2 * (p * k) /\ p * k \in Nat  BY <1>2
    <2> DEFINE z == p * k
    <2> HIDE DEF z, a
    <2>2. i = a + c  BY DEF a
    <2>3. a = 2 * z /\ z \in Nat  BY <2>1 DEF z
    <2>4. i = ((z + q) * 2) + r /\ z + q \in Nat  BY <1>1, <2>2, <2>3
    <2> QED BY <2>1, <2>4 DEF z
<1>4. i % 2 = r
    <2> DEFINE z == (p * k) + q
    <2>1. z \in Nat /\ 2 \in Positive /\ r \in 0 .. 2 - 1  BY <1>1, <1>3 DEF Positive
    <2>2. i = (z * 2) + r  BY <1>3
    <2> HIDE DEF z, r
    <2>3. Cells(2)  BY <2>1, CellsOf
    <2>4. ((z * 2) + r) % 2 = r  BY <2>1, <2>3, Zenon DEF Cells
    <2>5. i % 2 = r  BY <2>2, <2>4, Zenon
    <2> QED BY <2>5
<1>5. i - r = a + first /\ (i - r) + 1 = a + (first + 1)
    <2> HIDE DEF r
    <2>1. i = a + c /\ a \in Nat /\ first = c - r  BY <1>2
    <2> HIDE DEF a, first
    <2> QED BY <1>1, <2>1
<1>6. first < D /\ first + 1 < D
    <2> HIDE DEF q, r, k, first
    <2>1. 2 * q < 2 * k  BY <1>1, <1>2
    <2>2. (2 * q) + 1 < 2 * k  BY <1>1, <1>2, <2>1
    <2> QED BY <1>1, <1>2, <2>2
<1> DEFINE s == p \div heads  h == p % heads
<1>7. s \in Nat /\ h \in 0 .. heads - 1 /\ p = (s * heads) + h
    BY <1>2, CellsOf DEF Cells
<1>8. heads * D \in Nat \ {0}
    <2> HIDE DEF k
    <2>1. heads * D >= 1 * D  BY <1>2
    <2> QED BY <1>2, <2>1
<1>9. ASSUME NEW e \in 0 .. D - 1
      PROVE  /\ (a + e) \div (heads * D) = s /\ (a + e) % (heads * D) = (h * D) + e
             /\ ((a + e) % (heads * D)) % D = e
    <2> DEFINE w == heads * D  j == (h * D) + e
    <2>1. j \in 0 .. (heads * D) - 1  BY <1>2, <1>7, Offsets
    <2>2. a + e = (s * w) + j
        <3> HIDE DEF s, h
        <3>1. p * D = (s * (heads * D)) + (h * D)  BY <1>2, <1>7
        <3>2. h * D \in Nat /\ s * (heads * D) \in Nat  BY <1>2, <1>7, <1>8
        <3> DEFINE x == h * D  y == s * (heads * D)
        <3> HIDE DEF x, y
        <3>3. (y + x) + e = y + (x + e)  BY <3>2 DEF x, y
        <3> QED BY <3>1, <3>3 DEF x, y
    <2>3. w \in Positive  BY <1>8 DEF Positive
    <2>4. (a + e) \div w = s /\ (a + e) % w = j
        <3> HIDE DEF j, s, a
        <3>1. j \in 0 .. w - 1  BY <2>1
        <3> HIDE DEF w
        <3> QED BY <1>7, <2>2, <2>3, <3>1, CellsOf DEF Cells
    <2>5. j % D = e
        <3>1. h \in Nat  BY <1>2, <1>7
        <3> HIDE DEF h
        <3> QED BY <3>1, CellsOf DEF Cells
    <2> QED BY <2>4, <2>5
<1>10. c \in 0 .. D - 1 /\ first \in 0 .. D - 1 /\ first + 1 \in 0 .. D - 1
    BY <1>1, <1>2, <1>6
<1>11. PartOf(i) = PartOf(c)  BY <1>4 DEF PartOf
<1>12. i \div (heads * D) = s  BY <1>9, <1>10
<1>13. ((i - r) % (heads * D)) % D = first  BY <1>5, <1>9, <1>10
<1> HIDE DEF first, s
<1>14. first \in UpTo(D) /\ first + 1 \in UpTo(D)  BY <1>10 DEF UpTo
<1> QED BY <1>4, <1>5, <1>11, <1>12, <1>13, <1>14 DEF first, s

(* What the CPU makes of a raw element of a head of an even size. *)
LEMMA CpuHead ==
    ASSUME KernelControl, launch.kernel = "normRope", launch.headDim % 2 = 0,
           NEW heads \in Positive, NEW f,
           f = [i \in UpTo(launch.batch * heads * launch.headDim) |-> Raw(i)]
    PROVE  /\ CpuHeads(launch, f, heads)
                = [i \in UpTo(launch.batch * heads * launch.headDim)
                     |-> CpuHeads(launch, f, heads)[i]]
           /\ \A p \in UpTo(launch.batch * heads), c \in Columns :
                CpuHeads(launch, f, heads)[(p * launch.headDim) + c]
                  = HeadElement(p, c, launch.pos + (p \div heads))
<1> DEFINE D == launch.headDim  n == launch.batch * heads
           S == UpTo(launch.batch * heads * D)
           norm == CpuNorm(f, D)
           positions == [token \in UpTo(launch.batch) |-> launch.pos + token]
           roped == CpuRope(norm, heads * D, D, positions, launch.rotaryDim)
<1>1. /\ D \in Positive /\ D \in Nat \ {0} /\ launch.batch \in Nat /\ n \in Nat /\ heads \in Nat \ {0}
      /\ launch.pos \in Nat /\ launch.rotaryDim \in Nat
    BY Kernels DEF KernelControl, Positive
<1>2. CpuHeads(launch, f, heads) = roped  BY Zenon DEF CpuHeads
<1>3. DOMAIN f = S /\ \A i \in S : f[i] = Raw(i)  OBVIOUS
<1>4. S = UpTo(n * D)
    <2>1. launch.batch * heads * D = n * D  BY <1>1
    <2> QED BY <2>1
<1>5. Columns = UpTo(D)  BY DEF Columns
<1>6. norm = [i \in S |->
                LET base == i - (i % D)
                IN Whole(Term(Squared(f[i]), BagOf([c \in UpTo(D) |-> Squared(f[base + c])]), i % D))]
    BY <1>3, Zenon DEF CpuNorm
<1>7. roped = [i \in S |->
                LET first == i - (i % 2)
                    headIndex == (first % (heads * D)) % D
                IN IF headIndex >= launch.rotaryDim THEN norm[i]
                   ELSE TurnPair(norm[first], norm[first + 1], headIndex,
                                 positions[i \div (heads * D)])[PartOf(i)]]
    <2>1. DOMAIN norm = S  BY <1>6
    <2> HIDE DEF norm, positions
    <2> QED BY <2>1, Zenon DEF CpuRope
<1> HIDE DEF S, D
<1>8. ASSUME NEW p \in UpTo(n), NEW c \in UpTo(D)
      PROVE  (p * D) + c \in S /\ norm[(p * D) + c] = NormOf(p, c) /\ p \in Nat
    <2> DEFINE i == (p * D) + c
    <2>1. i \in S /\ p \in Nat /\ \A e \in UpTo(D) : (p * D) + e \in S
        <3>1. launch.headDim \in Nat \ {0}  BY <1>1 DEF D
        <3>2. \A e \in Columns : (p * launch.headDim) + e \in UpTo(n * launch.headDim) /\ p \in Nat
            <4> HIDE DEF n
            <4> QED BY <1>1, <3>1, ElementsApart
        <3> QED BY <1>4, <1>5, <3>2 DEF D
    <2>2. i % D = c /\ i - (i % D) = p * D  
        <3>1. PICK d \in Positive : d = D  BY <1>1
        <3>2. PICK x : x = (p * d) + c  OBVIOUS
        <3>3. c \in UpTo(d) /\ p \in Nat  BY <2>1, <3>1
        <3>4. x % d = c /\ x - (x % d) = p * d  BY <3>2, <3>3, ElementIn
        <3> QED BY <3>1, <3>2, <3>4, Zenon
    <2>3. norm[i] = Whole(Term(Squared(f[i]),
                               BagOf([e \in UpTo(D) |-> Squared(f[(i - (i % D)) + e])]), i % D))
        <3> HIDE DEF norm, i
        <3> QED BY <1>6, <2>1
    <2>4. Squared(f[i]) = i  BY <1>3, <2>1, SquaredRaw
    <2> DEFINE g == [e \in UpTo(D) |-> (p * D) + e]
    <2>5. [e \in UpTo(D) |-> Squared(f[(i - (i % D)) + e])] = g
        <3>1. ASSUME NEW e \in UpTo(D) PROVE Squared(f[(i - (i % D)) + e]) = (p * D) + e
            <4>1. f[(p * D) + e] = Raw((p * D) + e)  BY <1>3, <2>1
            <4> HIDE DEF i
            <4> QED BY <2>2, <4>1, SquaredRaw
        <3> HIDE DEF i
        <3> QED BY <3>1, Zenon
    <2>6. BagOf(g) = HeadSquares(p)
        <3>1. \A a, b \in DOMAIN g : g[a] = g[b] => a = b
            <4>1. p * D \in Nat  BY <1>1, <2>1
            <4>2. \A a \in UpTo(D) : a \in Nat  BY <1>1 DEF UpTo
            <4> DEFINE x == p * D
            <4> HIDE DEF x
            <4>3. \A a, b \in UpTo(D) : x + a = x + b => a = b  BY <4>1, <4>2 DEF x
            <4> QED BY <4>3 DEF x
        <3>2. {g[j] : j \in DOMAIN g} = {(p * D) + e : e \in UpTo(D)}  OBVIOUS
        <3>3. HeadSquares(p) = SetToBag({(p * D) + e : e \in UpTo(D)})  BY DEF HeadSquares, D
        <3> HIDE DEF g
        <3> QED BY <3>1, <3>2, <3>3, OnceEach
    <2>7. NormOf(p, c) = Whole(Term(i, HeadSquares(p), c))  BY DEF NormOf, D
    <2> HIDE DEF g, i, norm
    <2>8. norm[i] = NormOf(p, c)  BY <2>2, <2>3, <2>4, <2>5, <2>6, <2>7
    <2> QED BY <2>1, <2>8 DEF i
<1>9. ASSUME NEW p \in UpTo(n), NEW c \in UpTo(D)
      PROVE  roped[(p * D) + c] = HeadElement(p, c, launch.pos + (p \div heads))
    <2> DEFINE i == (p * D) + c  first == c - (c % 2)
    <2>1. i \in S /\ norm[i] = NormOf(p, c) /\ p \in Nat  BY <1>8
    <2>2. /\ i \div (heads * D) = p \div heads
          /\ i - (i % 2) = (p * D) + first /\ PartOf(i) = PartOf(c)
          /\ ((i - (i % 2)) % (heads * D)) % D = first
          /\ first + 1 \in UpTo(D) /\ first \in UpTo(D)
          /\ (i - (i % 2)) + 1 = (p * D) + (first + 1)
        <3>1. PICK d \in Positive : d = D  BY <1>1
        <3>2. PICK x : x = (p * d) + c  OBVIOUS
        <3>3. d % 2 = 0 /\ c \in UpTo(d) /\ p \in Nat  BY <2>1, <3>1 DEF D
        <3>4. /\ x \div (heads * d) = p \div heads
              /\ x - (x % 2) = (p * d) + (c - (c % 2)) /\ PartOf(x) = PartOf(c)
              /\ ((x - (x % 2)) % (heads * d)) % d = c - (c % 2)
              /\ (c - (c % 2)) + 1 \in UpTo(d) /\ c - (c % 2) \in UpTo(d)
              /\ (x - (x % 2)) + 1 = (p * d) + ((c - (c % 2)) + 1)
            BY <3>2, <3>3, RopePlace
        <3> QED BY <3>1, <3>2, <3>4, Zenon
    <2>3. norm[(p * D) + first] = NormOf(p, first) /\ norm[(p * D) + (first + 1)] = NormOf(p, first + 1)
        <3> HIDE DEF first, norm
        <3> QED BY <1>8, <2>2
    <2>4. positions[p \div heads] = launch.pos + (p \div heads)
        <3>1. p \in Nat /\ p < launch.batch * heads  BY <1>1 DEF UpTo
        <3>2. p \div heads \in Nat /\ p \div heads < launch.batch  BY <1>1, <3>1, QuotientBelow
        <3>3. p \div heads \in UpTo(launch.batch)  BY <1>1, <3>2 DEF UpTo
        <3> QED BY <3>3
    <2> HIDE DEF norm, positions, roped
    <2>5. roped[i] = IF first >= launch.rotaryDim THEN norm[i]
                     ELSE TurnPair(norm[(p * D) + first], norm[(p * D) + (first + 1)], first,
                                   positions[p \div heads])[PartOf(c)]
        <3>1. roped[i] = LET a == i - (i % 2)
                             headIndex == (a % (heads * D)) % D
                         IN IF headIndex >= launch.rotaryDim THEN norm[i]
                            ELSE TurnPair(norm[a], norm[a + 1], headIndex,
                                          positions[i \div (heads * D)])[PartOf(i)]
            <4> HIDE DEF i
            <4> QED BY <1>7, <2>1, Zenon
        <3> HIDE DEF i, first
        <3> QED BY <2>2, <3>1
    <2>6. HeadElement(p, c, launch.pos + (p \div heads))
            = IF c < 2 * (D \div 2) /\ first < launch.rotaryDim
              THEN TurnPair(NormOf(p, first), NormOf(p, first + 1), first,
                            launch.pos + (p \div heads))[PartOf(c)]
              ELSE NormOf(p, c)
        BY Zenon DEF HeadElement, D
    <2>7. c < 2 * (D \div 2) /\ first \in Nat
        <3>1. c \in Nat /\ c < D /\ first \in Nat  BY <1>1, <2>1, ElementIn
        <3>2. D = (2 * (D \div 2)) + (D % 2)
            <4>1. 2 \in Nat \ {0}  OBVIOUS
            <4> QED BY <1>1, <4>1, Division
        <3>3. D % 2 = 0  BY DEF D
        <3>4. D \div 2 \in Nat  BY <1>1, QuotientBelow
        <3> DEFINE k == D \div 2
        <3> HIDE DEF first, k
        <3>5. D = 2 * k /\ k \in Nat  BY <3>2, <3>3, <3>4 DEF k
        <3> QED BY <3>1, <3>5 DEF k
    <2> HIDE DEF first, i
    <2>8. first >= launch.rotaryDim <=> ~(first < launch.rotaryDim)  BY <1>1, <2>7
    <2>9. roped[i] = HeadElement(p, c, launch.pos + (p \div heads))
        BY <2>1, <2>3, <2>4, <2>5, <2>6, <2>7, <2>8, Zenon
    <2> QED BY <2>9 DEF i
<1>10. roped = [i \in S |-> roped[i]]
    <2> HIDE DEF norm, positions
    <2> QED BY <1>7
<1> HIDE DEF roped
<1> QED BY <1>2, <1>5, <1>9, <1>10 DEF S, D

(* Every element of a buffer of heads is one of a head. *)
LEMMA ElementOf ==
    ASSUME launch.headDim \in Nat \ {0}, NEW n \in Nat, NEW i \in UpTo(n * launch.headDim)
    PROVE  \E p \in UpTo(n), c \in Columns : i = (p * launch.headDim) + c
<1> DEFINE p == i \div launch.headDim  c == i % launch.headDim
<1>1. PICK d \in Positive : d = launch.headDim  BY DEF Positive
<1>2. d \in Nat \ {0} /\ i \in Nat /\ i < n * d
    <2>1. d \in Nat \ {0} /\ i \in UpTo(n * d)  BY <1>1 DEF Positive
    <2>2. n * d \in Nat  BY <2>1
    <2> QED BY <2>1, <2>2 DEF UpTo
<1>3. i \div d \in Nat /\ i \div d < n /\ i % d \in 0 .. d - 1 /\ i = ((i \div d) * d) + (i % d)
    <2>1. i \div d \in Nat /\ i \div d < n  BY <1>2, QuotientBelow
    <2> QED BY <1>2, <2>1, CellsOf DEF Cells
<1>4. p \in UpTo(n) /\ c \in Columns /\ i = (p * launch.headDim) + c
    <2>1. i \div d \in UpTo(n)
        <3> DEFINE z == i \div d
        <3> HIDE DEF z
        <3>1. z \in Nat /\ z < n  BY <1>3 DEF z
        <3> QED BY <3>1 DEF UpTo, z
    <2>2. i % d \in UpTo(d)  BY <1>3 DEF UpTo
    <2> QED BY <1>1, <1>3, <2>1, <2>2 DEF Columns
<1> QED BY <1>4

(* What the kernel has stored when every thread has returned. *)
LEMMA HeadsClosed ==
    ASSUME KernelControl, launch.kernel = "normRope", HeadsStored, LaunchDone
    PROVE  /\ \A p \in QueryRows, c \in Columns :
                memory.q[(p * launch.headDim) + c]
                  = HeadElement(p, c, launch.pos + (p \div launch.heads))
           /\ \A p \in KeyRows, c \in Columns :
                LET i == (p * launch.headDim) + c
                    turned == HeadElement(p, c, launch.pos + (p \div launch.kvHeads))
                IN memory.k[i] = turned /\ memory.cacheK[CacheFirst + i] = turned
                   /\ memory.cacheV[CacheFirst + i] = Raw(i)
<1>1. /\ launch.headDim \in Nat \ {0} /\ launch.heads \in Nat /\ launch.kvHeads \in Nat
      /\ launch.batch \in Nat
    BY Kernels DEF KernelControl, Positive
<1>2. \A c \in Columns : Owner(c) \in Threads
    <2>1. 0 \in Threads  BY Blocks DEF Threads
    <2> QED BY <1>1, <2>1, OwnPairs
<1>3. (\A p \in QueryRows : p \in Grid(launch)) /\ (\A p \in KeyRows : KeyBlock(p) \in Grid(launch))
    <2> DEFINE a == launch.batch * launch.heads  b == launch.batch * launch.kvHeads
    <2>1. Grid(launch) = UpTo(a + b)
        <3>1. launch.batch * (launch.heads + launch.kvHeads) = a + b  BY <1>1
        <3>2. Grid(launch) = UpTo(launch.batch * (launch.heads + launch.kvHeads))  BY DEF Grid
        <3> QED BY <3>1, <3>2
    <2>2. QueryRows = UpTo(a) /\ KeyRows = UpTo(b) /\ \A p : KeyBlock(p) = a + p
        BY DEF QueryRows, KeyRows, KeyBlock
    <2>3. a \in Nat /\ b \in Nat  BY <1>1
    <2> HIDE DEF a, b
    <2> QED BY <2>1, <2>2, <2>3 DEF UpTo
<1>4. ASSUME NEW p \in QueryRows, NEW c \in Columns
      PROVE  memory.q[(p * launch.headDim) + c]
               = HeadElement(p, c, launch.pos + (p \div launch.heads))
    <2>1. \E u \in Threads : u = Owner(c)  BY <1>2
    <2>2. PICK u \in Threads : u = Owner(c)  BY <2>1
    <2>3. Over(p, u)  BY <1>3, AllOver
    <2> QED BY <2>2, <2>3 DEF HeadsStored, QueryStored
<1>5. ASSUME NEW p \in KeyRows, NEW c \in Columns
      PROVE  LET i == (p * launch.headDim) + c
                 turned == HeadElement(p, c, launch.pos + (p \div launch.kvHeads))
             IN memory.k[i] = turned /\ memory.cacheK[CacheFirst + i] = turned
                /\ memory.cacheV[CacheFirst + i] = Raw(i)
    <2>1. \E u \in Threads : u = Owner(c)  BY <1>2
    <2>2. PICK u \in Threads : u = Owner(c)  BY <2>1
    <2>3. PICK b : b = KeyBlock(p)  OBVIOUS
    <2>4. Over(b, u)
        <3>1. b \in Grid(launch)  BY <1>3, <2>3
        <3> QED BY <3>1, AllOver
    <2>5. KeyStored(p, c)  BY DEF HeadsStored
    <2> QED BY <2>2, <2>3, <2>4, <2>5 DEF KeyStored
<1> QED BY <1>4, <1>5

(* Two buffers of heads are the same if they have the same elements. *)
LEMMA SameHeads ==
    ASSUME launch.headDim \in Nat \ {0}, NEW n \in Nat, NEW S, S = UpTo(n * launch.headDim),
           NEW f, NEW g, f = [i \in S |-> f[i]], g = [i \in S |-> g[i]],
           \A p \in UpTo(n), c \in Columns :
               f[(p * launch.headDim) + c] = g[(p * launch.headDim) + c]
    PROVE  f = g
<1>1. ASSUME NEW i \in S PROVE f[i] = g[i]
    <2>1. PICK p \in UpTo(n), c \in Columns : i = (p * launch.headDim) + c  BY ElementOf
    <2> QED BY <2>1
<1> QED BY <1>1

(* The heads are those of the CPU. *)
LEMMA HeadsAgree ==
    ASSUME HeadsInv, LaunchDone, launch.kernel = "normRope", launch.headDim % 2 = 0
    PROVE  memory = CpuNormRope(launch)
<1> DEFINE D == launch.headDim
           nq == launch.batch * launch.heads  nk == launch.batch * launch.kvHeads
           Q == UpTo(launch.batch * launch.heads * D)
           K == UpTo(launch.batch * launch.kvHeads * D)
           C == UpTo((launch.kvPos + launch.batch) * launch.kvHeads * D)
           rawQ == [i \in Q |-> Raw(i)]
           rawK == [i \in K |-> Raw(i)]
           queries == CpuHeads(launch, rawQ, launch.heads)
           keys == CpuHeads(launch, rawK, launch.kvHeads)
           stored(f) == [i \in C |-> IF i < CacheFirst THEN Unwritten ELSE f[i - CacheFirst]]
<1>1. KernelControl /\ HeadsStored /\ Buffers  BY DEF HeadsInv, HeadsStored
<1>2. /\ D \in Nat \ {0} /\ launch.heads \in Positive /\ launch.kvHeads \in Positive
      /\ nq \in Nat /\ nk \in Nat /\ CacheFirst \in Nat
      /\ Q = UpTo(nq * D) /\ K = UpTo(nk * D) /\ C = UpTo(CacheFirst + (nk * D))
    <2>1. launch.heads \in Positive /\ launch.kvHeads \in Positive /\ launch.batch \in Nat
          /\ launch.heads \in Nat /\ launch.kvHeads \in Nat
        BY <1>1, Kernels DEF KernelControl, Positive
    <2>2. /\ D \in Nat \ {0} /\ nq \in Nat /\ nk \in Nat /\ CacheFirst \in Nat
          /\ DOMAIN memory.cacheK = UpTo(CacheFirst + (nk * D))
        BY <1>1, BufferShapes
    <2>3. launch.batch * launch.heads * D = nq * D /\ launch.batch * launch.kvHeads * D = nk * D
        BY <2>1, <2>2
    <2>4. DOMAIN memory.cacheK = C
        <3>1. memory = [q |-> [i \in Q |-> memory.q[i]], k |-> [i \in K |-> memory.k[i]],
                        v |-> rawK, cacheK |-> [i \in C |-> memory.cacheK[i]],
                        cacheV |-> [i \in C |-> memory.cacheV[i]]]
            BY <1>1, Zenon DEF Buffers
        <3> HIDE DEF Q, K, C, rawK
        <3>2. memory.cacheK = [i \in C |-> memory.cacheK[i]]  BY <3>1
        <3> QED BY <3>2
    <2> QED BY <2>1, <2>2, <2>3, <2>4
<1>3. CpuNormRope(launch) = [q |-> queries, k |-> keys, v |-> rawK, cacheK |-> stored(keys),
                             cacheV |-> stored(rawK)]
    <2> DEFINE rows == (launch.kvPos + launch.batch) * launch.kvHeads * launch.headDim
    <2>1. Memory(launch) = [q |-> rawQ, k |-> rawK, v |-> rawK,
                            cacheK |-> [i \in C |-> Unwritten], cacheV |-> [i \in C |-> Unwritten]]
        BY DEF Memory
    <2> HIDE DEF rawQ, rawK, C
    <2>2. /\ Memory(launch).q = rawQ /\ Memory(launch).k = rawK /\ Memory(launch).v = rawK
          /\ DOMAIN Memory(launch).cacheK = C
        BY <2>1
    <2>3. CpuNormRope(launch)
            = LET start == Memory(launch)
                  ks == CpuHeads(launch, start.k, launch.kvHeads)
                  st(f) == [i \in DOMAIN start.cacheK |->
                              IF i < CacheFirst THEN Unwritten ELSE f[i - CacheFirst]]
              IN [q |-> CpuHeads(launch, start.q, launch.heads), k |-> ks, v |-> start.v,
                  cacheK |-> st(ks), cacheV |-> st(start.v)]
        BY Zenon DEF CpuNormRope, CacheFirst
    <2> HIDE DEF queries, keys
    <2>4. queries = CpuHeads(launch, Memory(launch).q, launch.heads)
          /\ keys = CpuHeads(launch, Memory(launch).k, launch.kvHeads)
        BY <2>2 DEF queries, keys
    <2> QED BY <2>2, <2>3, <2>4, Zenon
<1>4. memory = [q |-> [i \in Q |-> memory.q[i]], k |-> [i \in K |-> memory.k[i]],
                v |-> rawK, cacheK |-> [i \in C |-> memory.cacheK[i]],
                cacheV |-> [i \in C |-> memory.cacheV[i]]]
    BY <1>1, Zenon DEF Buffers
<1>5. /\ queries = [i \in Q |-> queries[i]]
      /\ \A p \in UpTo(nq), c \in Columns :
           queries[(p * D) + c] = HeadElement(p, c, launch.pos + (p \div launch.heads))
    <2>1. PICK h \in Positive : h = launch.heads  BY <1>2
    <2>2. PICK f : f = rawQ  OBVIOUS
    <2>3. f = [i \in UpTo(launch.batch * h * launch.headDim) |-> Raw(i)]  BY <2>1, <2>2
    <2>4. /\ CpuHeads(launch, f, h)
                = [i \in UpTo(launch.batch * h * launch.headDim) |-> CpuHeads(launch, f, h)[i]]
          /\ \A p \in UpTo(launch.batch * h), c \in Columns :
                CpuHeads(launch, f, h)[(p * launch.headDim) + c]
                  = HeadElement(p, c, launch.pos + (p \div h))
        BY <1>1, <2>3, CpuHead
    <2> QED BY <2>1, <2>2, <2>4, Zenon
<1>6. /\ keys = [i \in K |-> keys[i]]
      /\ \A p \in UpTo(nk), c \in Columns :
           keys[(p * D) + c] = HeadElement(p, c, launch.pos + (p \div launch.kvHeads))
    <2>1. PICK h \in Positive : h = launch.kvHeads  BY <1>2
    <2>2. PICK f : f = rawK  OBVIOUS
    <2>3. f = [i \in UpTo(launch.batch * h * launch.headDim) |-> Raw(i)]  BY <2>1, <2>2
    <2>4. /\ CpuHeads(launch, f, h)
                = [i \in UpTo(launch.batch * h * launch.headDim) |-> CpuHeads(launch, f, h)[i]]
          /\ \A p \in UpTo(launch.batch * h), c \in Columns :
                CpuHeads(launch, f, h)[(p * launch.headDim) + c]
                  = HeadElement(p, c, launch.pos + (p \div h))
        BY <1>1, <2>3, CpuHead
    <2> QED BY <2>1, <2>2, <2>4, Zenon
<1>7. QueryRows = UpTo(nq) /\ KeyRows = UpTo(nk)  BY DEF QueryRows, KeyRows
<1>8. \A i \in K : rawK[i] = Raw(i)  OBVIOUS
<1> HIDE DEF nq, nk, Q, K, C, rawQ, rawK, queries, keys
<1>9. /\ memory.q = [i \in Q |-> memory.q[i]] /\ memory.k = [i \in K |-> memory.k[i]]
      /\ memory.v = rawK /\ memory.cacheK = [i \in C |-> memory.cacheK[i]]
      /\ memory.cacheV = [i \in C |-> memory.cacheV[i]]
      /\ memory = [q |-> memory.q, k |-> memory.k, v |-> memory.v,
                   cacheK |-> memory.cacheK, cacheV |-> memory.cacheV]
    <2>1. memory.q = [i \in Q |-> memory.q[i]]  BY <1>4
    <2>2. memory.k = [i \in K |-> memory.k[i]]  BY <1>4
    <2>3. memory.v = rawK  BY <1>4
    <2>4. memory.cacheK = [i \in C |-> memory.cacheK[i]]  BY <1>4
    <2>5. memory.cacheV = [i \in C |-> memory.cacheV[i]]  BY <1>4
    <2>6. memory = [q |-> memory.q, k |-> memory.k, v |-> memory.v,
                    cacheK |-> memory.cacheK, cacheV |-> memory.cacheV]
        BY <1>4, <2>1, <2>2, <2>3, <2>4, <2>5, Zenon
    <2> QED BY <2>1, <2>2, <2>3, <2>4, <2>5, <2>6
<1>10. /\ \A p \in UpTo(nq), c \in Columns : memory.q[(p * D) + c] = queries[(p * D) + c]
       /\ \A p \in UpTo(nk), c \in Columns : memory.k[(p * D) + c] = keys[(p * D) + c]
       /\ \A p \in UpTo(nk), c \in Columns :
            memory.cacheK[CacheFirst + ((p * D) + c)] = keys[(p * D) + c]
       /\ \A p \in UpTo(nk), c \in Columns :
            memory.cacheV[CacheFirst + ((p * D) + c)] = Raw((p * D) + c)
    BY <1>1, <1>5, <1>6, <1>7, HeadsClosed
<1>11. memory.q = queries
    <2>1. PICK f : f = memory.q  OBVIOUS
    <2>2. PICK g : g = queries  OBVIOUS
    <2>3. PICK n \in Nat : n = nq  BY <1>2
    <2>4. PICK S : S = Q  OBVIOUS
    <2>5. /\ S = UpTo(n * launch.headDim) /\ f = [i \in S |-> f[i]] /\ g = [i \in S |-> g[i]]
          /\ launch.headDim \in Nat \ {0}
          /\ \A p \in UpTo(n), c \in Columns :
               f[(p * launch.headDim) + c] = g[(p * launch.headDim) + c]
        BY <1>2, <1>5, <1>9, <1>10, <2>1, <2>2, <2>3, <2>4, Zenon
    <2>6. f = g  BY <2>5, SameHeads
    <2> QED BY <2>1, <2>2, <2>6
<1>12. memory.k = keys
    <2>1. PICK f : f = memory.k  OBVIOUS
    <2>2. PICK g : g = keys  OBVIOUS
    <2>3. PICK n \in Nat : n = nk  BY <1>2
    <2>4. PICK S : S = K  OBVIOUS
    <2>5. /\ S = UpTo(n * launch.headDim) /\ f = [i \in S |-> f[i]] /\ g = [i \in S |-> g[i]]
          /\ launch.headDim \in Nat \ {0}
          /\ \A p \in UpTo(n), c \in Columns :
               f[(p * launch.headDim) + c] = g[(p * launch.headDim) + c]
        BY <1>2, <1>6, <1>9, <1>10, <2>1, <2>2, <2>3, <2>4, Zenon
    <2>6. f = g  BY <2>5, SameHeads
    <2> QED BY <2>1, <2>2, <2>6
<1>13. ASSUME NEW i \in C, ~(i < CacheFirst)
       PROVE  /\ memory.cacheK[i] = keys[i - CacheFirst]
              /\ memory.cacheV[i] = rawK[i - CacheFirst]
    <2>1. PICK first \in Nat : first = CacheFirst  BY <1>2
    <2>2. PICK n \in Nat : n = nk  BY <1>2
    <2>3. n * D \in Nat  BY <1>2, <2>2
    <2>4. i \in UpTo(first + (n * D))  BY <1>2, <2>1, <2>2
    <2>5. PICK j : j = i - first  OBVIOUS
    <2>6. j \in UpTo(n * D) /\ first + j = i
        <3> DEFINE z == n * D
        <3> HIDE DEF z
        <3>1. z \in Nat /\ i \in UpTo(first + z) /\ ~(i < first)
            BY <1>13, <2>1, <2>3, <2>4 DEF z
        <3> QED BY <2>5, <3>1 DEF UpTo, z
    <2>7. PICK p \in UpTo(n), c \in Columns : j = (p * launch.headDim) + c
        <3>1. j \in UpTo(n * launch.headDim) /\ launch.headDim \in Nat \ {0}  BY <1>2, <2>6
        <3> QED BY <3>1, ElementOf
    <2>8. memory.cacheK[first + j] = keys[j] /\ memory.cacheV[first + j] = Raw(j)
        BY <1>10, <2>1, <2>2, <2>7, Zenon
    <2>9. rawK[j] = Raw(j)  BY <1>2, <1>8, <2>2, <2>6
    <2> QED BY <2>1, <2>5, <2>6, <2>8, <2>9
<1>14. ASSUME NEW i \in C, i < CacheFirst
       PROVE  memory.cacheK[i] = Unwritten /\ memory.cacheV[i] = Unwritten
    <2>1. i \in UpTo(CacheFirst)
        <3>1. i \in Nat  BY <1>2 DEF UpTo
        <3> QED BY <1>2, <1>14, <3>1 DEF UpTo
    <2> QED BY <1>1, <2>1 DEF HeadsStored
<1>15. memory.cacheK = stored(keys)
    <2>1. \A i \in C : memory.cacheK[i] = IF i < CacheFirst THEN Unwritten ELSE keys[i - CacheFirst]
        BY <1>13, <1>14
    <2> QED BY <1>9, <2>1, Zenon
<1>16. memory.cacheV = stored(rawK)
    <2>1. \A i \in C : memory.cacheV[i] = IF i < CacheFirst THEN Unwritten ELSE rawK[i - CacheFirst]
        BY <1>13, <1>14
    <2> QED BY <1>9, <2>1, Zenon
<1> HIDE DEF stored
<1> QED BY <1>3, <1>9, <1>11, <1>12, <1>15, <1>16, Zenon
-----------------------------------------------------------------------------
(***************************************************************************)
(* rotate_sink_tokens_kernel.                                              *)
(***************************************************************************)

(* The pairs of the sinks: where pair p is, and what becomes of it. *)
SinkPairs == UpTo(TotalPairs(launch))
SinkAt(p) ==
    LET half == launch.rotaryDim \div 2
    IN ((p \div half) * launch.headDim) + (2 * (p % half))
SinkTurned(p) ==
    TurnPair(Raw(SinkAt(p)), Raw(SinkAt(p) + 1), 2 * (p % (launch.rotaryDim \div 2)), 1)

(* A pair has been turned if its thread has returned, and nothing else has. *)
PairStored(p) ==
    LET over == Over(p \div BlockDim, p % BlockDim) IN
    /\ memory.cacheK[SinkAt(p)] = IF over THEN SinkTurned(p)["first"] ELSE Raw(SinkAt(p))
    /\ memory.cacheK[SinkAt(p) + 1] = IF over THEN SinkTurned(p)["second"] ELSE Raw(SinkAt(p) + 1)

InPair(i) == \E p \in SinkPairs : i = SinkAt(p) \/ i = SinkAt(p) + 1

SinkRows == UpTo((launch.sinks + 1) * launch.kvHeads * launch.headDim)

SinksStored ==
    /\ memory = [cacheK |-> [i \in SinkRows |-> memory.cacheK[i]]]
    /\ \A p \in SinkPairs : PairStored(p)
    /\ \A i \in SinkRows : ~InPair(i) => memory.cacheK[i] = Raw(i)

SinksInv == launch.kernel = "sinks" => KernelControl /\ SinksStored

(* The pairs are apart, and in the rows of the sinks. *)
LEMMA SinkPlaces ==
    ASSUME launch \in Launches, launch.kernel = "sinks"
    PROVE  /\ \A p \in SinkPairs :
                /\ p \in Nat /\ launch.rotaryDim \div 2 \in Positive
                /\ p \div (launch.rotaryDim \div 2) \in UpTo(launch.sinks * launch.kvHeads)
                /\ p % (launch.rotaryDim \div 2) \in Nat
                /\ 2 * (p % (launch.rotaryDim \div 2)) \in UpTo(launch.rotaryDim)
                /\ 2 * (p % (launch.rotaryDim \div 2)) \in UpTo(launch.headDim)
                /\ 2 * (p % (launch.rotaryDim \div 2)) + 1 \in UpTo(launch.headDim)
                /\ SinkAt(p) \in SinkRows /\ SinkAt(p) + 1 \in SinkRows
                /\ SinkAt(p) \in Nat
           /\ \A p, q \in SinkPairs :
                /\ SinkAt(p) = SinkAt(q) => p = q
                /\ SinkAt(p) # SinkAt(q) + 1
<1>1. PICK D \in Positive : D = launch.headDim  BY Kernels
<1>2. PICK half \in Nat : half = launch.rotaryDim \div 2 /\ launch.rotaryDim = 2 * half
    <2>1. launch.rotaryDim \in Nat /\ launch.rotaryDim % 2 = 0 /\ 2 \in Nat \ {0}  BY Kernels
    <2>2. launch.rotaryDim = (2 * (launch.rotaryDim \div 2)) + (launch.rotaryDim % 2)
          /\ launch.rotaryDim \div 2 \in Nat
        BY <2>1, Division, QuotientBelow
    <2>3. launch.rotaryDim = 2 * (launch.rotaryDim \div 2)
        <3> DEFINE h == launch.rotaryDim \div 2  R == launch.rotaryDim
        <3> HIDE DEF h, R
        <3>1. R = (2 * h) + 0 /\ h \in Nat  BY <2>1, <2>2 DEF h, R
        <3> QED BY <3>1 DEF h, R
    <2> QED BY <2>2, <2>3
<1>3. PICK rows \in Nat : rows = launch.sinks * launch.kvHeads  BY Kernels DEF Positive
<1>4. D \in Nat \ {0} /\ 2 * half <= D
    BY <1>1, <1>2, Kernels DEF Positive
<1>5. SinkPairs = UpTo(rows * half)
    <2>1. launch.sinks \in Nat /\ launch.kvHeads \in Nat  BY Kernels DEF Positive
    <2>2. TotalPairs(launch) = launch.sinks * launch.kvHeads * half  BY <1>2 DEF TotalPairs
    <2> QED BY <1>3, <2>1, <2>2 DEF SinkPairs
<1>6. ASSUME NEW i \in UpTo(rows * D) PROVE i \in SinkRows
    <2> DEFINE k == launch.kvHeads
    <2>1. launch.sinks \in Nat /\ k \in Nat  BY Kernels DEF Positive
    <2>2. (launch.sinks + 1) * k * launch.headDim = (rows * D) + (k * D)
        <3> DEFINE s == launch.sinks
        <3> HIDE DEF s, k
        <3>1. s \in Nat /\ k \in Nat /\ D \in Nat  BY <1>4, <2>1 DEF s
        <3>2. (s + 1) * k * D = ((s * k) * D) + (k * D)  BY <3>1
        <3>3. rows = s * k  BY <1>3 DEF s, k
        <3> QED BY <1>1, <3>2, <3>3 DEF s
    <2>3. rows * D \in Nat /\ k * D \in Nat  BY <1>4, <2>1
    <2> DEFINE a == rows * D  b == k * D
    <2>4. SinkRows = UpTo(a + b)  BY <2>2 DEF SinkRows
    <2> HIDE DEF a, b
    <2>5. i \in UpTo(a) /\ a \in Nat /\ b \in Nat  BY <2>3 DEF a, b
    <2> QED BY <2>4, <2>5 DEF UpTo
<1>7. ASSUME NEW p \in SinkPairs
      PROVE  /\ p \in Nat /\ half \in Positive /\ p \div half \in UpTo(rows) /\ p \div half \in Nat
             /\ p % half \in Nat /\ 2 * (p % half) \in UpTo(2 * half)
             /\ 2 * (p % half) \in 0 .. D - 1 /\ 2 * (p % half) + 1 \in 0 .. D - 1
             /\ SinkAt(p) = ((p \div half) * D) + (2 * (p % half))
             /\ p = ((p \div half) * half) + (p % half)
    <2>1. rows * half \in Nat /\ p \in Nat /\ p < rows * half
        <3>1. rows * half \in Nat  BY <1>2, <1>3
        <3> DEFINE z == rows * half
        <3> HIDE DEF z
        <3>2. p \in UpTo(z) /\ z \in Nat  BY <1>5, <3>1 DEF z
        <3>3. p \in Nat /\ p < z  BY <3>2 DEF UpTo
        <3> QED BY <3>1, <3>3 DEF z
    <2>2. half # 0  BY <2>1
    <2>3. half \in Nat \ {0} /\ half \in Positive  BY <2>2 DEF Positive
    <2> DEFINE q == p \div half  r == p % half
    <2>4. q \in Nat /\ q < rows  BY <2>1, <2>3, QuotientBelow
    <2>5. r \in 0 .. half - 1 /\ p = (half * q) + r  BY <2>1, <2>3, Division
    <2>6. SinkAt(p) = (q * D) + (2 * r)  BY <1>1, <1>2 DEF SinkAt
    <2> HIDE DEF q, r
    <2>7. p = (q * half) + r  BY <2>4, <2>5
    <2>8. 2 * r \in 0 .. D - 1 /\ 2 * r + 1 \in 0 .. D - 1 /\ 2 * r \in UpTo(2 * half) /\ r \in Nat
        BY <1>4, <2>3, <2>5 DEF UpTo
    <2>9. q \in UpTo(rows)  BY <2>4 DEF UpTo
    <2> QED BY <2>1, <2>3, <2>4, <2>6, <2>7, <2>8, <2>9 DEF q, r
<1>8. ASSUME NEW p \in SinkPairs
      PROVE  SinkAt(p) \in SinkRows /\ SinkAt(p) + 1 \in SinkRows /\ SinkAt(p) \in Nat
    <2> DEFINE q == p \div half  c == 2 * (p % half)
    <2>1. q \in 0 .. rows - 1 /\ c \in 0 .. D - 1 /\ c + 1 \in 0 .. D - 1 /\ q \in Nat
          /\ SinkAt(p) = (q * D) + c
        BY <1>7 DEF UpTo
    <2> HIDE DEF q, c
    <2>2. (q * D) + c \in 0 .. (rows * D) - 1 /\ (q * D) + (c + 1) \in 0 .. (rows * D) - 1
        BY <1>3, <1>4, <2>1, Offsets
    <2>3. q * D \in Nat  BY <1>4, <2>1
    <2>4. ((q * D) + c) + 1 = (q * D) + (c + 1) /\ (q * D) + c \in Nat
        <3> DEFINE x == q * D
        <3> HIDE DEF x
        <3>1. x \in Nat /\ c \in Nat  BY <2>1, <2>3 DEF x
        <3>2. (x + c) + 1 = x + (c + 1) /\ x + c \in Nat  BY <3>1
        <3> QED BY <3>2 DEF x
    <2> QED BY <1>6, <2>1, <2>2, <2>4 DEF UpTo
<1>9. ASSUME NEW p \in SinkPairs, NEW q \in SinkPairs
      PROVE  /\ SinkAt(p) = SinkAt(q) => p = q
             /\ SinkAt(p) # SinkAt(q) + 1
    <2> DEFINE a == p \div half  r == p % half  b == q \div half  s == q % half
    <2>1. /\ a \in Nat /\ r \in Nat /\ 2 * r \in 0 .. D - 1 /\ SinkAt(p) = (a * D) + (2 * r)
          /\ p = (a * half) + r
        BY <1>7
    <2>2. /\ b \in Nat /\ s \in Nat /\ 2 * s \in 0 .. D - 1 /\ 2 * s + 1 \in 0 .. D - 1
          /\ SinkAt(q) = (b * D) + (2 * s) /\ q = (b * half) + s
        BY <1>7
    <2> HIDE DEF a, r, b, s
    <2>3. \A x, y \in 0 .. D - 1 : (a * D) + x = (b * D) + y => a = b /\ x = y
        BY <1>4, <2>1, <2>2, Offsets
    <2>4. ASSUME SinkAt(p) = SinkAt(q) PROVE p = q
        <3>1. a = b /\ 2 * r = 2 * s  BY <2>1, <2>2, <2>3, <2>4
        <3>2. r = s  BY <2>1, <2>2, <3>1
        <3> QED BY <2>1, <2>2, <3>1, <3>2
    <2>5. ASSUME SinkAt(p) = SinkAt(q) + 1 PROVE FALSE
        <3>1. b * D \in Nat  BY <1>4, <2>2
        <3>2. ((b * D) + (2 * s)) + 1 = (b * D) + (2 * s + 1)
            <4> DEFINE x == b * D
            <4> HIDE DEF x
            <4>1. x \in Nat  BY <3>1 DEF x
            <4>2. (x + (2 * s)) + 1 = x + (2 * s + 1)  BY <2>2, <4>1
            <4> QED BY <4>2 DEF x
        <3>3. (a * D) + (2 * r) = (b * D) + (2 * s + 1)  BY <2>1, <2>2, <2>5, <3>2
        <3>4. 2 * r = 2 * s + 1  BY <2>1, <2>2, <2>3, <3>3
        <3> QED BY <2>1, <2>2, <3>4
    <2> QED BY <2>4, <2>5
<1>10. UpTo(2 * half) = UpTo(launch.rotaryDim)  BY <1>2
<1>11. \A p \in SinkPairs : 2 * (p % half) \in UpTo(D) /\ 2 * (p % half) + 1 \in UpTo(D)
    BY <1>7 DEF UpTo
<1> QED BY <1>1, <1>2, <1>3, <1>7, <1>8, <1>9, <1>10, <1>11

(* A thread turns its pair. *)
LEMMA SinkKeeps ==
    ASSUME SinksInv, launch.kernel = "sinks", NEW t \in Threads, TurnSink(t)
    PROVE  SinksInv'
<1> DEFINE half == launch.rotaryDim \div 2  perSink == launch.kvHeads * half
           pair == (block * BlockDim) + t
           element == ((pair \div perSink) * launch.kvHeads * launch.headDim)
                        + (((pair % perSink) \div half) * launch.headDim)
                        + (2 * ((pair % perSink) % half))
           exponent == 2 * ((pair % perSink) % half)
           turned == TurnPair(memory.cacheK[element], memory.cacheK[element + 1], exponent, 1)
<1>1. /\ pc[t] = "sinks"
      /\ memory' = IF pair < TotalPairs(launch)
                     THEN [memory EXCEPT !.cacheK[element] = turned["first"],
                                         !.cacheK[element + 1] = turned["second"]]
                     ELSE memory
      /\ pc' = [pc EXCEPT ![t] = "done"]
      /\ launch' = launch /\ todo' = todo /\ block' = block /\ stride' = stride /\ sum' = sum
      /\ arrived' = arrived /\ arrays' = arrays
    BY DEF TurnSink, Go
<1>2. KernelControl /\ SinksStored /\ launch \in Launches  BY DEF SinksInv, KernelControl
<1>3. KernelControl'
    <2>1. "done" \in Steps(launch.kernel) \cup {"done"} /\ pc[t] # "done"  BY <1>1
    <2>2. /\ UNCHANGED arrays /\ UNCHANGED <<launch, todo, block>>
          /\ stride' \in [Threads -> Nat] /\ arrived' \in [Threads -> Nat] /\ DOMAIN sum' = Threads
        BY <1>1, <1>2 DEF KernelControl
    <2> QED BY <1>1, <1>2, <2>1, <2>2, ControlGoes
<1>4. block \in Nat
    <2>1. Running  BY <1>1 DEF Running
    <2>2. block \in UpTo(CeilDiv(TotalPairs(launch), BlockDim))
        BY <1>2, <2>1 DEF KernelControl, Grid
    <2> QED BY <2>2 DEF UpTo
<1>5. BlockDim \in Positive /\ t \in 0 .. BlockDim - 1 /\ BlockDim \in Nat \ {0}
    BY Blocks DEF Positive, Threads
<1>6. pair \in Nat /\ pair \div BlockDim = block /\ pair % BlockDim = t
    BY <1>4, <1>5, CellsOf DEF Cells
<1>7. \A p \in Nat : p \div BlockDim = block /\ p % BlockDim = t => p = pair
    <2>1. \A p \in Nat : p = ((p \div BlockDim) * BlockDim) + (p % BlockDim)
        BY <1>5, CellsOf DEF Cells
    <2> QED BY <2>1
<1>8. \A p \in Nat : p \div BlockDim \in Nat /\ p % BlockDim \in Threads
    BY <1>5, CellsOf DEF Cells, Threads
<1>9. ASSUME NEW p \in Nat
      PROVE  Over(p \div BlockDim, p % BlockDim)' <=> Over(p \div BlockDim, p % BlockDim) \/ p = pair
    <2>1. PICK u \in Threads : u = p % BlockDim  BY <1>8
    <2>2. PICK b : b = p \div BlockDim  OBVIOUS
    <2>3. UNCHANGED <<launch, todo, block>> /\ pc[t] # "done" /\ pc' = [pc EXCEPT ![t] = "done"]
        BY <1>1
    <2>4. Over(b, u)' <=> Over(b, u) \/ ("done" = "done" /\ b = block /\ u = t)
        BY <1>2, <2>3, OverAfterStep
    <2>5. p = pair <=> b = block /\ u = t  BY <1>6, <1>7, <2>1, <2>2
    <2>6. Over(p \div BlockDim, p % BlockDim)' <=> Over(b, u)'  BY <2>1, <2>2 DEF Over
    <2> QED BY <2>1, <2>2, <2>4, <2>5, <2>6
<1>10. /\ SinkPairs' = SinkPairs /\ SinkRows' = SinkRows
       /\ \A p : SinkAt(p)' = SinkAt(p) /\ SinkTurned(p)' = SinkTurned(p)
       /\ \A i : InPair(i)' <=> InPair(i)
    BY <1>1 DEF SinkPairs, SinkRows, SinkAt, SinkTurned, InPair
<1>11. \A p \in SinkPairs : p \in Nat  BY <1>2, SinkPlaces
<1>12. TotalPairs(launch) \in Nat /\ (pair < TotalPairs(launch) <=> pair \in SinkPairs)
    <2>1. TotalPairs(launch) \in Nat
        <3>1. launch.rotaryDim \in Nat /\ launch.sinks \in Nat /\ launch.kvHeads \in Nat
            BY <1>2, Kernels DEF Positive
        <3>2. half \in Nat
            <4>1. 2 \in Nat \ {0}  OBVIOUS
            <4> QED BY <3>1, <4>1, QuotientBelow
        <3> HIDE DEF half
        <3>3. launch.sinks * launch.kvHeads * half \in Nat  BY <3>1, <3>2
        <3> QED BY <3>3 DEF TotalPairs, half
    <2> DEFINE n == TotalPairs(launch)
    <2> HIDE DEF n, pair
    <2>2. n \in Nat /\ pair \in Nat  BY <1>6, <2>1 DEF n
    <2>3. pair < n <=> pair \in UpTo(n)  BY <2>2 DEF UpTo
    <2> QED BY <2>2, <2>3 DEF SinkPairs, n
<1>13. memory = [cacheK |-> [i \in SinkRows |-> memory.cacheK[i]]]
    BY <1>2, Zenon DEF SinksStored
<1>14. memory.cacheK = [i \in SinkRows |-> memory.cacheK[i]] /\ DOMAIN memory.cacheK = SinkRows
       /\ DOMAIN memory = {"cacheK"}
    <2>1. memory.cacheK = [i \in SinkRows |-> memory.cacheK[i]]  BY <1>13
    <2> QED BY <1>13, <2>1
<1>15. CASE pair \notin SinkPairs
    <2>1. memory' = memory
        <3> HIDE DEF element, turned, pair
        <3> QED BY <1>1, <1>12, <1>15
    <2>2. ASSUME NEW p \in SinkPairs PROVE PairStored(p)'
        <3>1. PairStored(p)  BY <1>2 DEF SinksStored
        <3>2. p # pair /\ p \in Nat  BY <1>11, <1>15
        <3>3. Over(p \div BlockDim, p % BlockDim)' <=> Over(p \div BlockDim, p % BlockDim)
            <4> HIDE DEF pair
            <4> QED BY <1>9, <3>2
        <3> QED BY <1>10, <2>1, <3>1, <3>3 DEF PairStored
    <2>3. SinksStored'  BY <1>2, <1>10, <2>1, <2>2 DEF SinksStored
    <2> QED BY <1>3, <2>3 DEF SinksInv
<1>16. CASE pair \in SinkPairs
    <2>1. element = SinkAt(pair) /\ exponent = 2 * (pair % half)
        <3>1. PICK h \in Positive : h = half  BY <1>2, <1>16, SinkPlaces
        <3>2. PICK k \in Positive : k = launch.kvHeads  BY <1>2, Kernels
        <3>3. PICK D \in Positive : D = launch.headDim  BY <1>2, Kernels
        <3>4. PICK n \in Nat : n = pair  BY <1>6
        <3> DEFINE w == k * h  s == n \div w  m == n % w  a == m \div h  r == m % h
        <3>5. w \in Positive /\ k \in Nat \ {0} /\ h \in Nat \ {0} /\ D \in Nat \ {0}
            <4>1. k \in Nat /\ h \in Nat /\ k > 0 /\ h > 0  BY DEF Positive
            <4>2. k * h >= 1 * h  BY <4>1
            <4> QED BY <4>1, <4>2 DEF Positive
        <3>6. s \in Nat /\ m \in 0 .. w - 1 /\ n = (s * w) + m
            <4> HIDE DEF w
            <4> QED BY <3>5, CellsOf DEF Cells
        <3>7. m \in Nat  BY <3>5, <3>6
        <3>8. a \in Nat /\ r \in 0 .. h - 1 /\ m = (a * h) + r
            <4> HIDE DEF m
            <4> QED BY <3>7, CellsOf DEF Cells
        <3>9. element = (s * k * D) + (a * D) + (2 * r) /\ exponent = 2 * r
            <4>1. perSink = w  BY <3>1, <3>2
            <4> HIDE DEF w, half, perSink, pair
            <4> QED BY <3>1, <3>2, <3>3, <3>4, <4>1, Zenon
        <3> HIDE DEF s, m, a, r
        <3>10. n = (((s * k) + a) * h) + r /\ (s * k) + a \in Nat
            <4>1. n = (s * (k * h)) + ((a * h) + r)  BY <3>6, <3>8
            <4>2. s * (k * h) = (s * k) * h  BY <3>5, <3>6
            <4>3. ((s * k) + a) * h = ((s * k) * h) + (a * h)  BY <3>5, <3>6, <3>8
            <4>4. s * k \in Nat /\ (s * k) * h \in Nat /\ a * h \in Nat  BY <3>5, <3>6, <3>8
            <4> QED BY <3>8, <4>1, <4>2, <4>3, <4>4
        <3>11. n \div h = (s * k) + a /\ n % h = r
            <4> DEFINE z == (s * k) + a
            <4> HIDE DEF z
            <4>1. Cells(h) /\ z \in Nat /\ n = (z * h) + r  BY <3>10, CellsOf DEF z
            <4>2. ((z * h) + r) \div h = z /\ ((z * h) + r) % h = r  BY <3>8, <4>1, Zenon DEF Cells
            <4> QED BY <4>1, <4>2, Zenon DEF z
        <3>12. SinkAt(pair) = ((n \div h) * D) + (2 * (n % h))  BY <3>1, <3>3, <3>4, Zenon DEF SinkAt
        <3>13. ((s * k) + a) * D = (s * k * D) + (a * D)  BY <3>5, <3>6, <3>8
        <3>14. element = SinkAt(pair)
            <4> HIDE DEF element, pair
            <4> QED BY <3>9, <3>11, <3>12, <3>13
        <3>15. exponent = 2 * (pair % half)
            <4> HIDE DEF half, pair, exponent
            <4> QED BY <3>1, <3>4, <3>9, <3>11
        <3> QED BY <3>14, <3>15
    <2>2. pair < TotalPairs(launch)  BY <1>12, <1>16
    <2>3. PICK e : e = SinkAt(pair)  OBVIOUS
    <2>4. PICK p0 \in SinkPairs : p0 = pair  BY <1>16
    <2>5. /\ e \in SinkRows /\ e + 1 \in SinkRows /\ e \in Nat /\ e # e + 1
        BY <1>2, <2>3, <2>4, SinkPlaces
    <2>6. memory.cacheK[e] = Raw(e) /\ memory.cacheK[e + 1] = Raw(e + 1)
        <3>1. PairStored(p0)  BY <1>2 DEF SinksStored
        <3>2. ~Over(pair \div BlockDim, pair % BlockDim)
            <4>1. ~Over(block, t)  BY <1>1 DEF Over
            <4> HIDE DEF pair
            <4> QED BY <1>6, <4>1
        <3> HIDE DEF pair
        <3> QED BY <2>3, <2>4, <3>1, <3>2 DEF PairStored
    <2>7. turned = SinkTurned(p0)
        <3>1. turned = TurnPair(memory.cacheK[e], memory.cacheK[e + 1], 2 * (pair % half), 1)
            <4> HIDE DEF element, exponent, pair, half
            <4> QED BY <2>1, <2>3
        <3>2. SinkTurned(p0) = TurnPair(Raw(e), Raw(e + 1), 2 * (pair % half), 1)
            <4> HIDE DEF pair
            <4> QED BY <2>3, <2>4 DEF SinkTurned
        <3> QED BY <2>6, <3>1, <3>2, Zenon
    <2> DEFINE T == SinkTurned(p0)
    <2> HIDE DEF turned, T
    <2>8. memory' = [memory EXCEPT !.cacheK[e] = T["first"], !.cacheK[e + 1] = T["second"]]
        <3>1. memory' = [memory EXCEPT !.cacheK[element] = turned["first"],
                                       !.cacheK[element + 1] = turned["second"]]
            BY <1>1, <2>2
        <3> HIDE DEF element, pair
        <3> QED BY <2>1, <2>3, <2>7, <3>1 DEF T
    <2>9. /\ memory' = [cacheK |-> memory'.cacheK]
          /\ memory'.cacheK = [i \in SinkRows |-> memory'.cacheK[i]]
          /\ \A i \in SinkRows : memory'.cacheK[i] =
                IF i = e + 1 THEN T["second"] ELSE IF i = e THEN T["first"] ELSE memory.cacheK[i]
        <3> DEFINE f == memory.cacheK  g == [f EXCEPT ![e] = T["first"], ![e + 1] = T["second"]]
        <3>1. memory' = [cacheK |-> g]
            <4> HIDE DEF T
            <4>1. memory = [cacheK |-> f]  BY <1>13, <1>14
            <4> HIDE DEF f
            <4>2. memory' = [[cacheK |-> f] EXCEPT !.cacheK[e] = T["first"], !.cacheK[e + 1] = T["second"]]
                BY <2>8, <4>1
            <4> QED BY <4>2
        <3>2. f = [i \in SinkRows |-> f[i]]  BY <1>14
        <3> HIDE DEF f
        <3>3. /\ g = [i \in SinkRows |-> g[i]]
              /\ \A i \in SinkRows : g[i] =
                    IF i = e + 1 THEN T["second"] ELSE IF i = e THEN T["first"] ELSE f[i]
            <4>1. DOMAIN f = SinkRows  BY <3>2
            <4> QED BY <2>5, <3>2, <4>1
        <3> HIDE DEF g
        <3>4. memory'.cacheK = g  BY <3>1
        <3> QED BY <3>1, <3>3, <3>4 DEF f
    <2>10. ASSUME NEW p \in SinkPairs PROVE PairStored(p)'
        <3>1. PairStored(p) /\ p \in Nat  BY <1>2, <1>11 DEF SinksStored
        <3>2. SinkAt(p) \in SinkRows /\ SinkAt(p) + 1 \in SinkRows /\ SinkAt(p) \in Nat
            BY <1>2, SinkPlaces
        <3>3. /\ SinkAt(p) = e <=> p = p0
              /\ SinkAt(p) # e + 1 /\ SinkAt(p) + 1 # e
              /\ SinkAt(p) + 1 = e + 1 <=> p = p0
            <4>1. e = SinkAt(p0)  BY <2>3, <2>4
            <4>2. SinkAt(p) = SinkAt(p0) => p = p0  BY <1>2, SinkPlaces
            <4>3. SinkAt(p) # SinkAt(p0) + 1 /\ SinkAt(p0) # SinkAt(p) + 1  BY <1>2, SinkPlaces
            <4> QED BY <2>5, <3>2, <4>1, <4>2, <4>3
        <3>4. Over(p \div BlockDim, p % BlockDim)' <=> Over(p \div BlockDim, p % BlockDim) \/ p = p0
            <4> HIDE DEF pair
            <4> QED BY <1>9, <2>4, <3>1
        <3>5. p = p0 => SinkTurned(p) = T  BY DEF T
        <3>6. /\ memory'.cacheK[SinkAt(p)] = IF p = p0 THEN T["first"] ELSE memory.cacheK[SinkAt(p)]
              /\ memory'.cacheK[SinkAt(p) + 1]
                   = IF p = p0 THEN T["second"] ELSE memory.cacheK[SinkAt(p) + 1]
            BY <2>9, <3>2, <3>3
        <3>7. /\ memory'.cacheK[SinkAt(p)] = IF Over(p \div BlockDim, p % BlockDim)'
                                             THEN SinkTurned(p)["first"] ELSE Raw(SinkAt(p))
              /\ memory'.cacheK[SinkAt(p) + 1] = IF Over(p \div BlockDim, p % BlockDim)'
                                             THEN SinkTurned(p)["second"] ELSE Raw(SinkAt(p) + 1)
            <4>1. /\ memory.cacheK[SinkAt(p)] = IF Over(p \div BlockDim, p % BlockDim)
                                                THEN SinkTurned(p)["first"] ELSE Raw(SinkAt(p))
                  /\ memory.cacheK[SinkAt(p) + 1] = IF Over(p \div BlockDim, p % BlockDim)
                                                THEN SinkTurned(p)["second"] ELSE Raw(SinkAt(p) + 1)
                BY <3>1, Zenon DEF PairStored
            <4> QED BY <3>4, <3>5, <3>6, <4>1
        <3>8. SinkAt(p)' = SinkAt(p) /\ SinkTurned(p)' = SinkTurned(p)  BY <1>10
        <3> QED BY <3>7, <3>8 DEF PairStored
    <2>11. ASSUME NEW i \in SinkRows, ~InPair(i) PROVE memory'.cacheK[i] = Raw(i)
        <3>1. i # e /\ i # e + 1
            <4> HIDE DEF pair
            <4> QED BY <2>3, <2>4, <2>11 DEF InPair
        <3>2. memory.cacheK[i] = Raw(i)  BY <1>2, <2>11 DEF SinksStored
        <3> QED BY <2>9, <3>1, <3>2
    <2>12. memory' = [cacheK |-> [i \in SinkRows |-> memory'.cacheK[i]]]  BY <2>9, Zenon
    <2>13. SinksStored'  BY <1>10, <2>10, <2>11, <2>12 DEF SinksStored
    <2> QED BY <1>3, <2>13 DEF SinksInv
<1> QED BY <1>15, <1>16

(* Sinks that do not change, while nothing more is over. *)
LEMMA SinksKept ==
    ASSUME KernelControl, launch.kernel = "sinks", SinksStored, UNCHANGED <<launch, memory>>, SameOver
    PROVE  SinksStored'
<1>1. launch' = launch /\ memory' = memory /\ launch \in Launches  BY DEF KernelControl
<1>2. /\ SinkPairs' = SinkPairs /\ SinkRows' = SinkRows
      /\ \A p : SinkAt(p)' = SinkAt(p) /\ SinkTurned(p)' = SinkTurned(p)
      /\ \A i : InPair(i)' <=> InPair(i)
    BY <1>1 DEF SinkPairs, SinkRows, SinkAt, SinkTurned, InPair
<1>3. ASSUME NEW p \in SinkPairs PROVE PairStored(p)'
    <2>1. PairStored(p) /\ p \in Nat  BY <1>1, SinkPlaces DEF SinksStored
    <2>2. p % BlockDim \in Threads
        <3>1. BlockDim \in Positive  BY Blocks DEF Positive
        <3> QED BY <2>1, <3>1, CellsOf DEF Cells, Threads
    <2>3. PICK u \in Threads : u = p % BlockDim  BY <2>2
    <2>4. PICK b : b = p \div BlockDim  OBVIOUS
    <2>5. Over(b, u)' <=> Over(b, u)  BY DEF SameOver
    <2>6. Over(p \div BlockDim, p % BlockDim)' <=> Over(b, u)'  BY <2>3, <2>4 DEF Over
    <2>7. Over(p \div BlockDim, p % BlockDim)' <=> Over(p \div BlockDim, p % BlockDim)
        BY <2>3, <2>4, <2>5, <2>6
    <2> QED BY <1>1, <1>2, <2>1, <2>7 DEF PairStored
<1> QED BY <1>1, <1>2, <1>3 DEF SinksStored

(* The invariant of the sinks before the first block. *)
LEMMA SinksBegin == KernelInit => SinksInv
<1> SUFFICES ASSUME KernelInit, launch.kernel = "sinks" PROVE SinksInv
    BY DEF SinksInv
<1>1. KernelControl /\ launch \in Launches  BY ControlBegins DEF KernelInit
<1>2. \A b, u : ~Over(b, u)  BY DEF KernelInit, Over
<1> DEFINE raw == [i \in SinkRows |-> Raw(i)]
<1>3. memory = [cacheK |-> raw]  BY DEF KernelInit, Memory, SinkRows
<1>4. raw = [i \in SinkRows |-> raw[i]] /\ \A i \in SinkRows : raw[i] = Raw(i)  OBVIOUS
<1> HIDE DEF raw
<1>5. memory.cacheK = raw  BY <1>3
<1>6. memory = [cacheK |-> [i \in SinkRows |-> memory.cacheK[i]]]
    BY <1>3, <1>4, <1>5, Zenon
<1>7. ASSUME NEW p \in SinkPairs PROVE PairStored(p)
    <2>1. SinkAt(p) \in SinkRows /\ SinkAt(p) + 1 \in SinkRows  BY <1>1, SinkPlaces
    <2> QED BY <1>2, <1>4, <1>5, <2>1 DEF PairStored
<1>8. \A i \in SinkRows : memory.cacheK[i] = Raw(i)  BY <1>4, <1>5
<1> QED BY <1>1, <1>6, <1>7, <1>8 DEF SinksInv, SinksStored

(* Every step keeps it, whichever kernel was launched. *)
LEMMA SinksSteps == SinksInv /\ [KernelNext]_kernelVars => SinksInv'
<1> SUFFICES ASSUME SinksInv, [KernelNext]_kernelVars, launch'.kernel = "sinks"
             PROVE  SinksInv'
    BY DEF SinksInv
<1>1. launch' = launch
    BY DEF KernelNext, KernelThread, LoadTile, AddTile, StoreOutput, Warp, LocalSquares,
           ReduceSquares, TurnHead, TurnSink, StartBlock, KernelFinished, kernelVars
<1>2. launch.kernel = "sinks" /\ KernelControl /\ SinksStored  BY <1>1 DEF SinksInv
<1>3. CASE UNCHANGED kernelVars
    <2>1. SameOver /\ KernelControl'  BY <1>2, <1>3, NothingOver
    <2>2. UNCHANGED <<launch, memory>>  BY <1>3 DEF kernelVars
    <2>3. SinksStored'  BY <1>2, <2>1, <2>2, SinksKept
    <2> QED BY <2>1, <2>3 DEF SinksInv
<1>4. CASE KernelFinished  BY <1>3, <1>4 DEF KernelFinished
<1>5. ASSUME NEW b \in todo, StartBlock(b) PROVE SinksInv'
    <2>1. KernelControl'  BY <1>2, <1>5, ControlStarts
    <2>2. SameOver  BY <1>2, <1>5, OverAfterStart
    <2>3. UNCHANGED <<launch, memory>>  BY <1>5 DEF StartBlock
    <2>4. SinksStored'  BY <1>2, <2>2, <2>3, SinksKept
    <2> QED BY <2>1, <2>4 DEF SinksInv
<1>6. ASSUME NEW t \in Threads, KernelThread(t) PROVE SinksInv'
    <2>1. pc[t] \in {"sinks", "done"}  BY <1>2 DEF KernelControl, Steps
    <2>2. TurnSink(t)
        BY <1>6, <2>1 DEF KernelThread, LoadTile, AddTile, StoreOutput, LocalSquares,
                          ReduceSquares, TurnHead, Warp
    <2> QED BY <1>2, <2>2, SinkKeeps
<1> QED BY <1>3, <1>4, <1>5, <1>6 DEF KernelNext

(* Which elements of the sinks a pair holds. *)
LEMMA PairOf ==
    ASSUME launch \in Launches, launch.kernel = "sinks",
           NEW p \in UpTo(launch.sinks * launch.kvHeads), NEW c \in UpTo(launch.headDim),
           NEW i, i = (p * launch.headDim) + c
    PROVE  /\ c - (c % 2) < launch.rotaryDim =>
                \E pair \in SinkPairs :
                    /\ SinkAt(pair) = (p * launch.headDim) + (c - (c % 2))
                    /\ SinkTurned(pair) = TurnPair(Raw(SinkAt(pair)), Raw(SinkAt(pair) + 1),
                                                   c - (c % 2), 1)
                    /\ i = IF c % 2 = 0 THEN SinkAt(pair) ELSE SinkAt(pair) + 1
           /\ ~(c - (c % 2) < launch.rotaryDim) => ~InPair(i)
<1>1. PICK D \in Positive : D = launch.headDim  BY Kernels
<1>2. PICK half \in Nat : half = launch.rotaryDim \div 2 /\ launch.rotaryDim = 2 * half
    <2>1. launch.rotaryDim \in Nat /\ launch.rotaryDim % 2 = 0 /\ 2 \in Nat \ {0}  BY Kernels
    <2>2. launch.rotaryDim = (2 * (launch.rotaryDim \div 2)) + (launch.rotaryDim % 2)
          /\ launch.rotaryDim \div 2 \in Nat
        BY <2>1, Division, QuotientBelow
    <2>3. launch.rotaryDim = 2 * (launch.rotaryDim \div 2)
        <3> DEFINE h == launch.rotaryDim \div 2  R == launch.rotaryDim
        <3> HIDE DEF h, R
        <3>1. R = (2 * h) + 0 /\ h \in Nat  BY <2>1, <2>2 DEF h, R
        <3> QED BY <3>1 DEF h, R
    <2> QED BY <2>2, <2>3
<1>3. PICK rows \in Nat : rows = launch.sinks * launch.kvHeads  BY Kernels DEF Positive
<1>4. p \in Nat /\ p < rows /\ D \in Nat \ {0}  BY <1>1, <1>3 DEF UpTo, Positive
<1>5. /\ c \in Nat /\ c < D /\ c % 2 \in 0 .. 1 /\ c - (c % 2) \in Nat
      /\ c - (c % 2) = 2 * (c \div 2) /\ c \div 2 \in Nat /\ c = (2 * (c \div 2)) + (c % 2)
    <2>1. PICK x : x = (p * D) + c  OBVIOUS
    <2>2. c \in UpTo(D)  BY <1>1
    <2> QED BY <1>4, <2>1, <2>2, ElementIn
<1>6. p * D \in Nat  BY <1>4
<1>7. SinkPairs = UpTo(rows * half)
    <2>1. launch.sinks \in Nat /\ launch.kvHeads \in Nat  BY Kernels DEF Positive
    <2>2. TotalPairs(launch) = launch.sinks * launch.kvHeads * half  BY <1>2 DEF TotalPairs
    <2> QED BY <1>3, <2>1, <2>2 DEF SinkPairs
<1>8. ASSUME c - (c % 2) < launch.rotaryDim
      PROVE  \E pair \in SinkPairs :
                    /\ SinkAt(pair) = (p * launch.headDim) + (c - (c % 2))
                    /\ SinkTurned(pair) = TurnPair(Raw(SinkAt(pair)), Raw(SinkAt(pair) + 1),
                                                   c - (c % 2), 1)
                    /\ i = IF c % 2 = 0 THEN SinkAt(pair) ELSE SinkAt(pair) + 1
    <2> DEFINE j == c \div 2  r == c % 2  pair == (p * half) + j
    <2>1. j \in Nat /\ j < half
        <3> HIDE DEF j
        <3>1. 2 * j < 2 * half /\ j \in Nat  BY <1>2, <1>5, <1>8 DEF j
        <3> QED BY <1>2, <3>1
    <2> HIDE DEF j
    <2>2. half \in Nat \ {0} /\ j \in 0 .. half - 1 /\ half \in Positive /\ p \in 0 .. rows - 1
        BY <1>2, <1>3, <1>4, <2>1 DEF Positive
    <2>3. pair \in SinkPairs
        <3>1. pair \in 0 .. (rows * half) - 1  BY <1>3, <2>2, Offsets
        <3> QED BY <1>7, <3>1 DEF UpTo
    <2>4. pair \div half = p /\ pair % half = j
        <3>1. Cells(half)  BY <2>2, CellsOf
        <3> QED BY <1>4, <2>2, <3>1, Zenon DEF Cells
    <2> HIDE DEF pair
    <2>5. SinkAt(pair) = (p * D) + (2 * j)  BY <1>1, <1>2, <2>4, Zenon DEF SinkAt
    <2>6. SinkTurned(pair) = TurnPair(Raw(SinkAt(pair)), Raw(SinkAt(pair) + 1), 2 * j, 1)
        BY <1>2, <2>4, Zenon DEF SinkTurned
    <2>7. c - r = 2 * j  BY <1>5 DEF j
    <2>8. i = IF r = 0 THEN SinkAt(pair) ELSE SinkAt(pair) + 1
        <3> DEFINE x == p * D
        <3> HIDE DEF x, r
        <3>1. i = x + c /\ SinkAt(pair) = x + (2 * j) /\ x \in Nat  BY <1>1, <1>6, <2>5 DEF x
        <3>2. r \in 0 .. 1 /\ c = (2 * j) + r  BY <1>5 DEF j, r
        <3> QED BY <2>1, <3>1, <3>2
    <2>9. SinkAt(pair) = (p * launch.headDim) + (c - (c % 2))  BY <1>1, <2>5, <2>7
    <2> QED BY <2>3, <2>6, <2>7, <2>8, <2>9
<1>9. ASSUME ~(c - (c % 2) < launch.rotaryDim) PROVE ~InPair(i)
    <2> SUFFICES ASSUME NEW pair \in SinkPairs, i = SinkAt(pair) \/ i = SinkAt(pair) + 1
                 PROVE  FALSE
        BY DEF InPair
    <2> DEFINE a == pair \div half  r == pair % half  first == c - (c % 2)
    <2>1. /\ a \in UpTo(rows) /\ r \in Nat /\ 2 * r \in UpTo(2 * half) /\ 2 * r \in UpTo(D)
          /\ 2 * r + 1 \in UpTo(D)
        BY <1>1, <1>2, <1>3, SinkPlaces
    <2>2. SinkAt(pair) = (a * D) + (2 * r)  BY <1>1, <1>2, Zenon DEF SinkAt
    <2>3. a \in Nat /\ 2 * r \in 0 .. D - 1 /\ 2 * r + 1 \in 0 .. D - 1 /\ 2 * r < 2 * half
        BY <2>1 DEF UpTo
    <2>4. first >= 2 * half /\ first <= c  BY <1>2, <1>5, <1>9
    <2> HIDE DEF a, r, first
    <2>5. \A x, y \in 0 .. D - 1 : (a * D) + x = (p * D) + y => a = p /\ x = y
        BY <1>4, <2>3, Offsets
    <2>6. c \in 0 .. D - 1  BY <1>4, <1>5
    <2>7. ((a * D) + (2 * r)) + 1 = (a * D) + (2 * r + 1)
        <3>1. a * D \in Nat  BY <1>4, <2>3
        <3> DEFINE x == a * D
        <3> HIDE DEF x
        <3>2. (x + (2 * r)) + 1 = x + (2 * r + 1)  BY <2>1, <3>1 DEF x
        <3> QED BY <3>2 DEF x
    <2>8. (a * D) + (2 * r) = (p * D) + c \/ (a * D) + (2 * r + 1) = (p * D) + c
        BY <1>1, <2>2, <2>7
    <2>9. c = 2 * r \/ c = 2 * r + 1  BY <2>3, <2>5, <2>6, <2>8
    <2>10. 2 * r + 1 < 2 * half  BY <1>2, <2>1, <2>3
    <2> QED BY <1>2, <1>5, <2>1, <2>4, <2>9, <2>10 DEF first
<1> QED BY <1>8, <1>9

(* The sinks are those of the CPU. *)
LEMMA SinksAgree ==
    ASSUME SinksInv, LaunchDone, launch.kernel = "sinks", launch.headDim % 2 = 0
    PROVE  memory = CpuSinks(launch)
<1> DEFINE d == launch.kvHeads * launch.headDim
           S == UpTo(launch.sinks * d)
           once == [sink \in UpTo(launch.sinks) |-> 1]
           raw == [i \in S |-> Raw(i)]
           sinks == CpuRope(raw, d, launch.headDim, once, launch.rotaryDim)
           start == [i \in SinkRows |-> Raw(i)]
<1>1. KernelControl /\ SinksStored /\ launch \in Launches  BY DEF SinksInv, KernelControl
<1>2. PICK D \in Positive : D = launch.headDim  BY <1>1, Kernels
<1>3. PICK k \in Positive : k = launch.kvHeads  BY <1>1, Kernels
<1>4. PICK n \in Nat : n = launch.sinks  BY <1>1, Kernels
<1>5. PICK rot \in Nat : rot = launch.rotaryDim  BY <1>1, Kernels
<1>6. /\ D \in Nat \ {0} /\ k \in Nat \ {0} /\ D % 2 = 0 /\ d = k * D /\ n * k \in Nat
      /\ S = UpTo((n * k) * D) /\ n * d = (n * k) * D /\ (n * k) * D \in Nat
    <2>1. D \in Nat \ {0} /\ k \in Nat \ {0} /\ D % 2 = 0 /\ d = k * D
        BY <1>2, <1>3 DEF Positive
    <2>2. n * (k * D) = (n * k) * D /\ n * k \in Nat /\ (n * k) * D \in Nat  BY <2>1
    <2>3. S = UpTo(n * (k * D))  BY <1>2, <1>3, <1>4
    <2> HIDE DEF S, d
    <2> QED BY <2>1, <2>2, <2>3
<1>7. ASSUME NEW i \in S PROVE i \in SinkRows
    <2> DEFINE a == (n * k) * D
    <2>1. (n + 1) * k * D = a + (k * D) /\ k * D \in Nat
        <3>1. (n + 1) * k * D = ((n * k) * D) + (k * D)  BY <1>6
        <3> QED BY <1>6, <3>1
    <2>2. SinkRows = UpTo(a + (k * D))  BY <1>2, <1>3, <1>4, <2>1 DEF SinkRows
    <2> DEFINE b == k * D
    <2> HIDE DEF a, b
    <2>3. i \in UpTo(a) /\ a \in Nat /\ b \in Nat /\ SinkRows = UpTo(a + b)
        BY <1>6, <2>1, <2>2 DEF a, b
    <2> QED BY <2>3 DEF UpTo
<1>8. sinks = [i \in S |->
                LET first == i - (i % 2)
                    headIndex == (first % (k * D)) % D
                IN IF headIndex >= rot THEN raw[i]
                   ELSE TurnPair(raw[first], raw[first + 1], headIndex, once[i \div (k * D)])[PartOf(i)]]
    <2>1. DOMAIN raw = S  OBVIOUS
    <2> HIDE DEF S, raw, once
    <2> QED BY <1>2, <1>3, <1>5, <2>1, Zenon DEF CpuRope
<1>9. CpuSinks(launch) = [cacheK |-> Stored(start, 0, sinks)]
    <2>1. Memory(launch) = [cacheK |-> start]  BY DEF Memory, SinkRows
    <2> HIDE DEF start
    <2>2. Memory(launch).cacheK = start  BY <2>1
    <2>3. CpuSinks(launch) = [cacheK |-> Stored(Memory(launch).cacheK, 0, sinks)]
        BY Zenon DEF CpuSinks
    <2> QED BY <2>2, <2>3, Zenon
<1> HIDE DEF S, sinks, start
<1>10. DOMAIN sinks = S /\ S \subseteq SinkRows  BY <1>7, <1>8
<1>11. Stored(start, 0, sinks) = [i \in SinkRows |-> IF i \in S THEN sinks[i] ELSE Raw(i)]
    <2>1. \A i \in SinkRows : i \in Int /\ i - 0 = i
        <3>1. \A i \in SinkRows : i \in Int  BY DEF SinkRows, UpTo
        <3> QED BY <3>1
    <2>2. \A c \in S : 0 + c = c  BY <1>10, <2>1
    <2>3. DOMAIN start = SinkRows /\ \A i \in SinkRows : start[i] = Raw(i)  BY DEF start
    <2>4. Stored(start, 0, sinks)
            = [i \in DOMAIN start \cup {0 + c : c \in DOMAIN sinks} |->
                 IF i - 0 \in DOMAIN sinks THEN sinks[i - 0] ELSE start[i]]
        BY Zenon DEF Stored
    <2>5. DOMAIN start \cup {0 + c : c \in DOMAIN sinks} = SinkRows
        BY <1>10, <2>2, <2>3
    <2>6. Stored(start, 0, sinks)
            = [i \in SinkRows |-> IF i - 0 \in S THEN sinks[i - 0] ELSE start[i]]
        BY <1>10, <2>4, <2>5, Zenon
    <2>7. \A i \in SinkRows : (IF i - 0 \in S THEN sinks[i - 0] ELSE start[i])
                                = IF i \in S THEN sinks[i] ELSE Raw(i)
        BY <2>1, <2>3
    <2> QED BY <2>6, <2>7, Zenon
<1>12. ASSUME NEW i \in SinkRows, i \in S PROVE memory.cacheK[i] = sinks[i]
    <2>1. i \in Nat /\ i < (n * k) * D
        <3> DEFINE a == (n * k) * D
        <3> HIDE DEF a
        <3>1. i \in UpTo(a) /\ a \in Nat  BY <1>6, <1>12 DEF a
        <3>2. i \in Nat /\ i < a  BY <3>1 DEF UpTo
        <3> QED BY <3>2 DEF a
    <2> DEFINE p == i \div D  c == i % D  first == c - (c % 2)
    <2>2. p \in Nat /\ p < n * k  BY <1>6, <2>1, QuotientBelow
    <2>3. c \in 0 .. D - 1 /\ i = (p * D) + c  BY <1>6, <2>1, CellsOf DEF Cells
    <2>4. c \in UpTo(D) /\ p \in UpTo(n * k)
        <3> HIDE DEF c, p
        <3>1. n * k \in Nat  BY <1>6
        <3> DEFINE m == n * k
        <3> HIDE DEF m
        <3>2. p \in UpTo(m)  BY <2>2, <3>1 DEF m, UpTo
        <3> QED BY <2>3, <3>2 DEF UpTo, m
    <2> HIDE DEF p, c
    <2>5. /\ i \div (k * D) = p \div k
          /\ i - (i % 2) = (p * D) + first /\ PartOf(i) = PartOf(c)
          /\ ((i - (i % 2)) % (k * D)) % D = first
          /\ first + 1 \in UpTo(D) /\ first \in UpTo(D)
          /\ (i - (i % 2)) + 1 = (p * D) + (first + 1)
        <3>1. D % 2 = 0 /\ p \in Nat /\ c \in UpTo(D) /\ i = (p * D) + c
            BY <1>6, <2>2, <2>3, <2>4
        <3>2. /\ i \div (k * D) = p \div k
              /\ i - (i % 2) = (p * D) + (c - (c % 2)) /\ PartOf(i) = PartOf(c)
              /\ ((i - (i % 2)) % (k * D)) % D = c - (c % 2)
              /\ (c - (c % 2)) + 1 \in UpTo(D) /\ c - (c % 2) \in UpTo(D)
              /\ (i - (i % 2)) + 1 = (p * D) + ((c - (c % 2)) + 1)
            BY <3>1, RopePlace
        <3> QED BY <3>2
    <2>6. c % 2 \in 0 .. 1 /\ c \in Nat  BY <2>2, <2>3, <2>4, ElementIn
    <2>7. ASSUME NEW e \in UpTo(D) PROVE (p * D) + e \in S
        <3>1. p \in 0 .. (n * k) - 1 /\ e \in 0 .. D - 1  BY <2>4 DEF UpTo
        <3>2. (p * D) + e \in 0 .. ((n * k) * D) - 1  BY <1>6, <3>1, Offsets
        <3> QED BY <1>6, <3>2 DEF UpTo
    <2>8. once[p \div k] = 1
        <3>1. p \div k \in Nat /\ p \div k < n  BY <1>6, <2>2, QuotientBelow
        <3>2. p \div k \in UpTo(launch.sinks)  BY <1>4, <3>1 DEF UpTo
        <3> QED BY <3>2
    <2>9. raw[i] = Raw(i) /\ raw[(p * D) + first] = Raw((p * D) + first)
          /\ raw[(p * D) + (first + 1)] = Raw((p * D) + (first + 1))
        <3>1. \A e \in S : raw[e] = Raw(e)  OBVIOUS
        <3> HIDE DEF first, raw
        <3> QED BY <1>12, <2>5, <2>7, <3>1
    <2> HIDE DEF raw, once
    <2>10. sinks[i] = IF first >= rot THEN Raw(i)
                      ELSE TurnPair(Raw((p * D) + first), Raw((p * D) + (first + 1)), first, 1)[PartOf(c)]
        <3>1. sinks[i] = LET a == i - (i % 2)
                             headIndex == (a % (k * D)) % D
                         IN IF headIndex >= rot THEN raw[i]
                            ELSE TurnPair(raw[a], raw[a + 1], headIndex, once[i \div (k * D)])[PartOf(i)]
            BY <1>8, <1>12, Zenon
        <3> HIDE DEF first
        <3> QED BY <2>5, <2>8, <2>9, <3>1
    <2>11. /\ first < rot =>
                \E pair \in SinkPairs :
                    /\ SinkAt(pair) = (p * D) + first
                    /\ SinkTurned(pair) = TurnPair(Raw(SinkAt(pair)), Raw(SinkAt(pair) + 1), first, 1)
                    /\ i = IF c % 2 = 0 THEN SinkAt(pair) ELSE SinkAt(pair) + 1
           /\ ~(first < rot) => ~InPair(i)
        <3>1. p \in UpTo(launch.sinks * launch.kvHeads) /\ c \in UpTo(launch.headDim)
              /\ i = (p * launch.headDim) + c
            BY <1>2, <1>3, <1>4, <2>3, <2>4
        <3>2. /\ c - (c % 2) < launch.rotaryDim =>
                \E pair \in SinkPairs :
                    /\ SinkAt(pair) = (p * launch.headDim) + (c - (c % 2))
                    /\ SinkTurned(pair) = TurnPair(Raw(SinkAt(pair)), Raw(SinkAt(pair) + 1),
                                                   c - (c % 2), 1)
                    /\ i = IF c % 2 = 0 THEN SinkAt(pair) ELSE SinkAt(pair) + 1
              /\ ~(c - (c % 2) < launch.rotaryDim) => ~InPair(i)
            BY <1>1, <3>1, PairOf
        <3> QED BY <1>2, <1>5, <3>2
    <2>12. first \in Nat  BY <2>5 DEF UpTo
    <2> HIDE DEF first
    <2>13. CASE first < rot
        <3>1. PICK pair \in SinkPairs :
                    /\ SinkAt(pair) = (p * D) + first
                    /\ SinkTurned(pair) = TurnPair(Raw(SinkAt(pair)), Raw(SinkAt(pair) + 1), first, 1)
                    /\ i = IF c % 2 = 0 THEN SinkAt(pair) ELSE SinkAt(pair) + 1
            BY <2>11, <2>13
        <3>2. Over(pair \div BlockDim, pair % BlockDim)
            <4>1. pair \in Nat  BY <1>1, SinkPlaces
            <4>2. BlockDim \in Positive /\ BlockDim \in Nat \ {0}  BY Blocks DEF Positive
            <4>3. pair % BlockDim \in Threads  BY <4>1, <4>2, CellsOf DEF Cells, Threads
            <4>4. pair \div BlockDim \in Grid(launch)
                <5>1. PICK total : total = TotalPairs(launch)  OBVIOUS
                <5>2. total \in Nat
                    <6>1. PICK half \in Nat : half = launch.rotaryDim \div 2
                        <7>1. launch.rotaryDim \in Nat /\ 2 \in Nat \ {0}  BY <1>5
                        <7> QED BY <7>1, QuotientBelow
                    <6>2. (n * k) * half \in Nat  BY <1>6, <6>1
                    <6>3. n * k * half = (n * k) * half  OBVIOUS
                    <6> QED BY <1>3, <1>4, <5>1, <6>1, <6>2, <6>3 DEF TotalPairs
                <5>3. pair \in UpTo(total)  BY <5>1 DEF SinkPairs
                <5>4. pair \div BlockDim \in UpTo(CeilDiv(total, BlockDim))
                    BY <4>2, <5>2, <5>3, InGrid
                <5> QED BY <5>1, <5>4 DEF Grid
            <4>5. PICK b : b = pair \div BlockDim  OBVIOUS
            <4>6. Over(b, pair % BlockDim)  BY <1>1, <4>3, <4>4, <4>5, AllOver
            <4> QED BY <4>5, <4>6
        <3>3. /\ memory.cacheK[SinkAt(pair)] = SinkTurned(pair)["first"]
              /\ memory.cacheK[SinkAt(pair) + 1] = SinkTurned(pair)["second"]
            BY <1>1, <3>2 DEF SinksStored, PairStored
        <3>4. memory.cacheK[i] = SinkTurned(pair)[PartOf(c)]
            BY <2>6, <3>1, <3>3 DEF PartOf
        <3>5. SinkAt(pair) + 1 = (p * D) + (first + 1)
            <4>1. p * D \in Nat  BY <1>6, <2>2
            <4> DEFINE x == p * D
            <4> HIDE DEF x
            <4>2. (x + first) + 1 = x + (first + 1)  BY <2>12, <4>1 DEF x
            <4> QED BY <3>1, <4>2 DEF x
        <3>6. sinks[i] = TurnPair(Raw((p * D) + first), Raw((p * D) + (first + 1)), first, 1)[PartOf(c)]
            BY <2>10, <2>12, <2>13
        <3> QED BY <3>1, <3>4, <3>5, <3>6, Zenon
    <2>14. CASE ~(first < rot)
        <3>1. sinks[i] = Raw(i)  BY <2>10, <2>12, <2>14
        <3>2. memory.cacheK[i] = Raw(i)  BY <1>1, <1>12, <2>11, <2>14 DEF SinksStored
        <3> QED BY <3>1, <3>2
    <2> QED BY <2>13, <2>14
<1>13. ASSUME NEW i \in SinkRows, i \notin S PROVE memory.cacheK[i] = Raw(i)
    <2>1. ~InPair(i)
        <3> SUFFICES ASSUME NEW pair \in SinkPairs, i = SinkAt(pair) \/ i = SinkAt(pair) + 1
                     PROVE  i \in S
            BY <1>13 DEF InPair
        <3>1. PICK half : half = launch.rotaryDim \div 2  OBVIOUS
        <3> DEFINE a == pair \div half  c == 2 * (pair % half)
        <3>2. a \in UpTo(launch.sinks * launch.kvHeads) /\ c \in UpTo(launch.headDim)
              /\ c + 1 \in UpTo(launch.headDim)
            BY <1>1, <3>1, SinkPlaces
        <3>3. SinkAt(pair) = (a * D) + c  BY <1>2, <3>1, Zenon DEF SinkAt
        <3> HIDE DEF a, c
        <3>4. a \in 0 .. (n * k) - 1 /\ c \in 0 .. D - 1 /\ c + 1 \in 0 .. D - 1 /\ a \in Nat
            BY <1>2, <1>3, <1>4, <3>2 DEF UpTo
        <3>5. (a * D) + c \in 0 .. ((n * k) * D) - 1 /\ (a * D) + (c + 1) \in 0 .. ((n * k) * D) - 1
            BY <1>6, <3>4, Offsets
        <3>6. ((a * D) + c) + 1 = (a * D) + (c + 1)
            <4>1. a * D \in Nat /\ c \in Nat  BY <1>6, <3>4
            <4> DEFINE x == a * D
            <4> HIDE DEF x
            <4>2. (x + c) + 1 = x + (c + 1)  BY <4>1 DEF x
            <4> QED BY <4>2 DEF x
        <3> QED BY <1>6, <3>3, <3>5, <3>6 DEF UpTo
    <2> QED BY <1>1, <2>1 DEF SinksStored
<1>14. memory = [cacheK |-> [i \in SinkRows |-> IF i \in S THEN sinks[i] ELSE Raw(i)]]
    <2>1. memory = [cacheK |-> [i \in SinkRows |-> memory.cacheK[i]]]
        BY <1>1, Zenon DEF SinksStored
    <2>2. \A i \in SinkRows : memory.cacheK[i] = IF i \in S THEN sinks[i] ELSE Raw(i)
        BY <1>12, <1>13
    <2>3. [i \in SinkRows |-> memory.cacheK[i]]
            = [i \in SinkRows |-> IF i \in S THEN sinks[i] ELSE Raw(i)]
        BY <2>2, Zenon
    <2> QED BY <2>1, <2>3
<1> QED BY <1>9, <1>11, <1>14, Zenon

(***************************************************************************)
(* However their threads are interleaved, qk_norm_rope_cache_kernel leaves *)
(* in q, k and the caches, and rotate_sink_tokens_kernel in the sinks, what*)
(* rmsnorm_cpu, rope_cpu and the copies of the CPU leave there, for heads  *)
(* of an even size.                                                        *)
(***************************************************************************)
THEOREM HeadsAreCpus == KernelSpec => []HeadsMatchCpu
<1>1. KernelInit => HeadsInv /\ SinksInv  BY HeadsBegin, SinksBegin
<1>2. HeadsInv /\ SinksInv /\ [KernelNext]_kernelVars => HeadsInv' /\ SinksInv'
    BY HeadsSteps, SinksSteps
<1>3. HeadsInv /\ SinksInv => HeadsMatchCpu
    <2> SUFFICES ASSUME HeadsInv, SinksInv, LaunchDone, launch.kernel \in {"normRope", "sinks"},
                        launch.headDim % 2 = 0
                 PROVE  memory = IF launch.kernel = "sinks" THEN CpuSinks(launch)
                                 ELSE CpuNormRope(launch)
        BY DEF HeadsMatchCpu
    <2>1. CASE launch.kernel = "sinks"  BY <2>1, SinksAgree
    <2>2. CASE launch.kernel = "normRope"  BY <2>2, HeadsAgree
    <2> QED BY <2>1, <2>2
<1> QED BY <1>1, <1>2, <1>3, PTL DEF KernelSpec
-----------------------------------------------------------------------------
(***************************************************************************)
(* The pairs that are turned are those of the checkpoint.                  *)
(***************************************************************************)

(* What TurnsSplitHalves says of an element of a head. *)
MovedRow(tensor, c) == CheckpointRow(tensor, c, launch.rotaryDim)
ComesFrom(term, wx, norm, r) ==
    /\ MovedRow(wx, term.of % launch.headDim) = r
    /\ MovedRow(norm, term.weight) = r
TurnsRight(v, r, wx, norm) ==
    LET half == launch.rotaryDim \div 2 IN
    IF r >= launch.rotaryDim THEN v.part = "whole" /\ ComesFrom(v.a, wx, norm, r)
    ELSE LET j == r % half IN
         /\ v.part = IF r < half THEN "first" ELSE "second"
         /\ v.exponent = 2 * j
         /\ ComesFrom(v.a, wx, norm, j) /\ ComesFrom(v.b, wx, norm, j + half)

(* What the kernel makes of an element is what TurnsSplitHalves asks for. *)
LEMMA ElementTurnsRight ==
    ASSUME launch \in Launches, launch.kernel = "normRope", NEW p \in Nat, NEW c \in Columns, NEW pos,
           NEW wx \in {"wq", "wk"}, NEW norm \in {"q_norm", "k_norm"}
    PROVE  TurnsRight(HeadElement(p, c, pos), MovedRow(wx, c), wx, norm)
<1>1. PICK D \in Positive : D = launch.headDim  BY Kernels
<1>2. PICK half \in Nat : half = launch.rotaryDim \div 2 /\ launch.rotaryDim = 2 * half
    <2>1. launch.rotaryDim \in Nat /\ launch.rotaryDim % 2 = 0 /\ 2 \in Nat \ {0}  BY Kernels
    <2>2. launch.rotaryDim = (2 * (launch.rotaryDim \div 2)) + (launch.rotaryDim % 2)
          /\ launch.rotaryDim \div 2 \in Nat
        BY <2>1, Division, QuotientBelow
    <2>3. launch.rotaryDim = 2 * (launch.rotaryDim \div 2)
        <3> DEFINE h == launch.rotaryDim \div 2  R == launch.rotaryDim
        <3> HIDE DEF h, R
        <3>1. R = (2 * h) + 0 /\ h \in Nat  BY <2>1, <2>2 DEF h, R
        <3> QED BY <3>1 DEF h, R
    <2> QED BY <2>2, <2>3
<1>3. PICK rot \in Nat : rot = launch.rotaryDim /\ rot = 2 * half  BY <1>2
<1>4. D \in Nat \ {0} /\ rot <= D /\ Columns = UpTo(D)
    BY <1>1, <1>3, Kernels DEF Positive, Columns
<1> DEFINE first == c - (c % 2)  k == c \div 2  r == c % 2
<1>5. c \in Nat /\ c < D /\ r \in 0 .. 1 /\ first = 2 * k /\ k \in Nat /\ c = (2 * k) + r
    <2>1. PICK x : x = (p * D) + c  OBVIOUS
    <2>2. c \in UpTo(D)  BY <1>4
    <2> QED BY <2>1, <2>2, ElementIn
<1>6. ASSUME NEW e \in UpTo(D) PROVE ((p * launch.headDim) + e) % launch.headDim = e
    <2>1. PICK x : x = (p * D) + e  OBVIOUS
    <2>2. x % D = e  BY <2>1, ElementIn
    <2> QED BY <1>1, <2>1, <2>2
<1>7. \A x : /\ MovedRow(wx, x) = Interleaved(x, rot)
             /\ MovedRow(norm, x) = Interleaved(x, rot)
    BY <1>3 DEF MovedRow, CheckpointRow
<1>8. \A e : /\ NormOf(p, e).part = "whole"
             /\ NormOf(p, e).a = Term((p * launch.headDim) + e, HeadSquares(p), e)
    BY DEF NormOf, Whole
<1>9. \A n, s, w : Term(n, s, w).of = n /\ Term(n, s, w).weight = w  BY DEF Term
<1>10. ASSUME NEW e \in UpTo(D), NEW z, z = Interleaved(e, rot)
       PROVE  ComesFrom(NormOf(p, e).a, wx, norm, z)
    BY <1>6, <1>7, <1>8, <1>9, <1>10 DEF ComesFrom
<1> DEFINE even == 2 * (launch.headDim \div 2)
<1>11. HeadElement(p, c, pos)
         = IF c < even /\ first < rot
           THEN TurnPair(NormOf(p, first), NormOf(p, first + 1), first, pos)[PartOf(c)]
           ELSE NormOf(p, c)
    BY <1>3, Zenon DEF HeadElement
<1>12. even \in Nat /\ (rot <= even)
    <2> DEFINE q == D \div 2  m == D % 2
    <2>1. D = (2 * q) + m /\ q \in Nat /\ m \in 0 .. 1
        <3>1. 2 \in Nat \ {0}  OBVIOUS
        <3> QED BY <1>4, <3>1, Division, QuotientBelow
    <2>2. even = 2 * q  BY <1>1
    <2> HIDE DEF q, m, even
    <2> QED BY <1>3, <1>4, <2>1, <2>2
<1> HIDE DEF first, k, r, even
<1>13. CASE c >= rot
    <2>1. Interleaved(c, rot) = c  BY <1>13 DEF Interleaved
    <2>2. ~(first < rot)  BY <1>3, <1>5, <1>13
    <2>3. HeadElement(p, c, pos) = NormOf(p, c)  BY <1>11, <2>2
    <2>4. ComesFrom(NormOf(p, c).a, wx, norm, c)  BY <1>4, <1>10, <2>1
    <2>5. MovedRow(wx, c) = c  BY <1>7, <2>1
    <2> QED BY <1>3, <1>8, <1>13, <2>3, <2>4, <2>5 DEF TurnsRight
<1>14. CASE ~(c >= rot)
    <2> DEFINE v == HeadElement(p, c, pos)  z == Interleaved(c, rot)
    <2>1. c < even /\ first < rot /\ k < half /\ half \in Nat \ {0}
          /\ first \in UpTo(D) /\ first + 1 \in UpTo(D) /\ first + 1 < rot
        BY <1>3, <1>4, <1>5, <1>12, <1>14 DEF UpTo
    <2>2. v = TurnPair(NormOf(p, first), NormOf(p, first + 1), first, pos)[PartOf(c)]
        BY <1>11, <2>1
    <2>3. /\ v.part = PartOf(c) /\ v.a = NormOf(p, first).a /\ v.b = NormOf(p, first + 1).a
          /\ v.exponent = first
        <3>1. PartOf(c) \in {"first", "second"}  BY DEF PartOf
        <3>2. TurnPair(NormOf(p, first), NormOf(p, first + 1), first, pos)[PartOf(c)]
                = [part |-> PartOf(c), a |-> NormOf(p, first).a, b |-> NormOf(p, first + 1).a,
                   exponent |-> first, pos |-> pos]
            BY <1>8, <3>1 DEF TurnPair
        <3> QED BY <2>2, <3>2
    <2>4. z = IF r = 0 THEN k ELSE half + k
        <3>1. rot \div 2 = half
            <4>1. half = launch.rotaryDim \div 2  BY <1>2
            <4> QED BY <1>3, <4>1
        <3> QED BY <1>14, <3>1 DEF Interleaved, r, k
    <2> HIDE DEF v, z
    <2>5. /\ z \in Nat /\ ~(z >= rot) /\ z % half = k
          /\ (IF z < half THEN "first" ELSE "second") = PartOf(c)
        <3>1. Cells(half) /\ k \in 0 .. half - 1 /\ 0 \in Nat /\ 1 \in Nat
            BY <1>5, <2>1, CellsOf DEF Positive
        <3>2. ((0 * half) + k) % half = k /\ ((1 * half) + k) % half = k
            BY <3>1, Zenon DEF Cells
        <3>3. (0 * half) + k = k /\ (1 * half) + k = half + k  BY <1>5, <2>1
        <3>4. z % half = k  BY <2>4, <3>2, <3>3
        <3>5. z \in Nat /\ ~(z >= rot)  BY <1>3, <1>5, <2>1, <2>4
        <3>6. PartOf(c) = IF r = 0 THEN "first" ELSE "second"  BY DEF PartOf, r
        <3> QED BY <1>5, <2>1, <2>4, <3>4, <3>5, <3>6
    <2>6. Interleaved(first, rot) = k /\ Interleaved(first + 1, rot) = k + half
        <3>1. Cells(2) /\ 0 \in 0 .. 2 - 1 /\ 1 \in 0 .. 2 - 1  BY CellsOf DEF Positive
        <3>2. /\ ((k * 2) + 0) \div 2 = k /\ ((k * 2) + 0) % 2 = 0
              /\ ((k * 2) + 1) \div 2 = k /\ ((k * 2) + 1) % 2 = 1
            BY <1>5, <3>1, Zenon DEF Cells
        <3>3. first = (k * 2) + 0 /\ first + 1 = (k * 2) + 1  BY <1>5
        <3>4. first \div 2 = k /\ first % 2 = 0 /\ (first + 1) \div 2 = k /\ (first + 1) % 2 = 1
            BY <3>2, <3>3
        <3>5. rot \div 2 = half
            <4>1. half = launch.rotaryDim \div 2  BY <1>2
            <4> QED BY <1>3, <4>1
        <3>6. ~(first >= rot) /\ ~(first + 1 >= rot) /\ half + k = k + half
            BY <1>3, <1>5, <2>1
        <3> QED BY <3>4, <3>5, <3>6 DEF Interleaved
    <2>7. ComesFrom(v.a, wx, norm, k) /\ ComesFrom(v.b, wx, norm, k + half)
        BY <1>10, <2>1, <2>3, <2>6
    <2>8. MovedRow(wx, c) = z  BY <1>7 DEF z
    <2>9. /\ ~(z >= launch.rotaryDim) /\ half = launch.rotaryDim \div 2
          /\ v.exponent = 2 * (z % half)
        BY <1>2, <1>3, <1>5, <2>3, <2>5
    <2>10. TurnsRight(v, z, wx, norm)  BY <2>3, <2>5, <2>7, <2>9, Zenon DEF TurnsRight
    <2> QED BY <2>8, <2>10 DEF v
<1> QED BY <1>13, <1>14

(***************************************************************************)
(* qk_norm_rope_cache_kernel turns together the elements which come,       *)
(* through the order convert.py gives the rows of wq, wk and the norms,    *)
(* from the two halves of the rotary part of a head of the checkpoint,     *)
(* with the exponent that belongs to them.                                 *)
(***************************************************************************)
THEOREM KernelsSplitHalves == KernelSpec => []TurnsSplitHalves
<1>1. HeadsInv => TurnsSplitHalves
    <2> SUFFICES ASSUME HeadsInv, LaunchDone, launch.kernel = "normRope"
                 PROVE  /\ \A i \in DOMAIN memory.q :
                             TurnsRight(memory.q[i], MovedRow("wq", i % launch.headDim), "wq", "q_norm")
                        /\ \A i \in DOMAIN memory.k :
                             TurnsRight(memory.k[i], MovedRow("wk", i % launch.headDim), "wk", "k_norm")
        BY Zenon DEF TurnsSplitHalves, TurnsRight, ComesFrom, MovedRow
    <2>1. KernelControl /\ HeadsStored /\ Buffers /\ launch \in Launches
        BY DEF HeadsInv, HeadsStored, KernelControl
    <2>2. PICK D \in Positive : D = launch.headDim  BY <2>1, Kernels
    <2> DEFINE nq == launch.batch * launch.heads  nk == launch.batch * launch.kvHeads
    <2>3. /\ nq \in Nat /\ nk \in Nat /\ D \in Nat \ {0}
          /\ DOMAIN memory.q = UpTo(nq * D) /\ DOMAIN memory.k = UpTo(nk * D)
        <3>1. /\ nq \in Nat /\ nk \in Nat /\ D \in Nat \ {0}
              /\ DOMAIN memory.q = UpTo(0 + (nq * D)) /\ DOMAIN memory.k = UpTo(0 + (nk * D))
            BY <2>1, <2>2, BufferShapes DEF Positive
        <3>2. nq * D \in Nat /\ nk * D \in Nat  BY <3>1
        <3>3. 0 + (nq * D) = nq * D /\ 0 + (nk * D) = nk * D
            <4> DEFINE a == nq * D  b == nk * D
            <4> HIDE DEF a, b
            <4>1. a \in Nat /\ b \in Nat  BY <3>2 DEF a, b
            <4>2. 0 + a = a /\ 0 + b = b  BY <4>1
            <4> QED BY <4>2 DEF a, b
        <3> QED BY <3>1, <3>3
    <2>4. ASSUME NEW n \in Nat, NEW i \in UpTo(n * D)
          PROVE  \E p \in UpTo(n), c \in Columns :
                    i = (p * launch.headDim) + c /\ i % launch.headDim = c /\ p \in Nat
        <3>1. launch.headDim \in Nat \ {0} /\ i \in UpTo(n * launch.headDim)  BY <2>2, <2>3
        <3>2. PICK p \in UpTo(n), c \in Columns : i = (p * launch.headDim) + c
            BY <3>1, ElementOf
        <3>3. p \in Nat  BY DEF UpTo
        <3>4. c \in UpTo(D) /\ i = (p * D) + c  BY <2>2, <3>2 DEF Columns
        <3>5. i % D = c  BY <3>3, <3>4, ElementIn
        <3> QED BY <2>2, <3>2, <3>3, <3>5
    <2>5. QueryRows = UpTo(nq) /\ KeyRows = UpTo(nk)  BY DEF QueryRows, KeyRows
    <2>6. ASSUME NEW i \in DOMAIN memory.q
          PROVE  TurnsRight(memory.q[i], MovedRow("wq", i % launch.headDim), "wq", "q_norm")
        <3>1. PICK p \in QueryRows, c \in Columns :
                i = (p * launch.headDim) + c /\ i % launch.headDim = c /\ p \in Nat
            BY <2>3, <2>4, <2>5
        <3>2. PICK pos : pos = launch.pos + (p \div launch.heads)  OBVIOUS
        <3>3. memory.q[i] = HeadElement(p, c, pos)  BY <2>1, <3>1, <3>2, HeadsClosed
        <3>4. TurnsRight(HeadElement(p, c, pos), MovedRow("wq", c), "wq", "q_norm")
            BY <2>1, <3>1, ElementTurnsRight
        <3> QED BY <3>1, <3>3, <3>4
    <2>7. ASSUME NEW i \in DOMAIN memory.k
          PROVE  TurnsRight(memory.k[i], MovedRow("wk", i % launch.headDim), "wk", "k_norm")
        <3>1. PICK p \in KeyRows, c \in Columns :
                i = (p * launch.headDim) + c /\ i % launch.headDim = c /\ p \in Nat
            BY <2>3, <2>4, <2>5
        <3>2. PICK pos : pos = launch.pos + (p \div launch.kvHeads)  OBVIOUS
        <3>3. memory.k[i] = HeadElement(p, c, pos)  BY <2>1, <3>1, <3>2, HeadsClosed
        <3>4. TurnsRight(HeadElement(p, c, pos), MovedRow("wk", c), "wk", "k_norm")
            BY <2>1, <3>1, ElementTurnsRight
        <3> QED BY <3>1, <3>3, <3>4
    <2> QED BY <2>6, <2>7
<1> QED BY <1>1, HeadsBegin, HeadsSteps, PTL DEF KernelSpec

=============================================================================
