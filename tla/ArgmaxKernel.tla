---------------------------- MODULE ArgmaxKernel ----------------------------
(***************************************************************************)
(* argmax_kernel, with which Generate picks the next token on the GPU at   *)
(* temperature 0: one block of threads reduces the logits to the index of  *)
(* a largest one.  The CPU picks the first of the largest                  *)
(* (Sampler::Greedy, std::max_element), so the index must not depend on    *)
(* how the threads are interleaved nor on which thread looked at what.     *)
(*                                                                         *)
(* Logits are finite floats; only their order matters, so they are small   *)
(* integers not below Lowest, which stands for -FLT_MAX.                   *)
(***************************************************************************)
EXTENDS ThreadBlock

CONSTANTS
    MaxCount,  \* bound: there are 1 .. MaxCount logits
    MaxLogit   \* bound: logits are 0 .. MaxLogit

ASSUME MaxCountAssumption == MaxCount \in Nat \ {0}
ASSUME MaxLogitAssumption == MaxLogit \in Nat

Lowest == 0

VARIABLES
    count,    \* number of logits, config.vocab_size
    values,   \* the logits
    next,     \* next[t]: the loop variable of t's scan
    best,     \* best[t]: local_max and local_index of t
    shared,   \* the shared arrays maxima and indices, slot by slot
    out       \* *out, -1 before it is written

argmaxVars == <<count, values, pc, next, best, stride, arrived, shared, out>>

Indices == 0 .. count - 1

Found(v, n) == [value |-> v, index |-> n]

(* a replaces b: larger, or equal at a smaller index. *)
Better(a, b) == a.value > b.value \/ (a.value = b.value /\ a.index < b.index)

ArgmaxInit ==
    /\ count \in 1 .. MaxCount
    /\ values \in [Indices -> 0 .. MaxLogit]
    /\ pc = [t \in Threads |-> "scan"]
    /\ next = [t \in Threads |-> t]
    /\ best = [t \in Threads |-> Found(Lowest, 0)]
    /\ stride = [t \in Threads |-> BlockDim \div 2]
    /\ arrived = [t \in Threads |-> 0]
    /\ shared = [t \in Threads |-> Found(Lowest, -1)]
    /\ out = -1

(* One round of the scan: index += blockDim.x, strictly below count. *)
Scan(t) ==
    /\ pc[t] = "scan" /\ next[t] < count
    /\ LET seen == Found(values[next[t]], next[t]) IN
       best' = [best EXCEPT ![t] = IF Better(seen, @) THEN seen ELSE @]
    /\ next' = [next EXCEPT ![t] = @ + BlockDim]
    /\ UNCHANGED <<count, values, pc, stride, arrived, shared, out>>

(* The thread's candidate goes to its slot, then the first barrier. *)
Publish(t) ==
    /\ pc[t] = "scan" /\ next[t] >= count
    /\ shared' = [shared EXCEPT ![t] = best[t]]
    /\ Arrive(t)
    /\ pc' = [pc EXCEPT ![t] = "reduce"]
    /\ UNCHANGED <<count, values, next, best, stride, out>>

(* Mutant of ReduceBest: the threads do not wait for each other. *)
ReduceBestUnsynchronised(t) ==
    /\ pc[t] = "reduce" /\ stride[t] > 0
    /\ shared' = IF t < stride[t] /\ Better(shared[t + stride[t]], shared[t])
                   THEN [shared EXCEPT ![t] = shared[t + stride[t]]]
                   ELSE shared
    /\ stride' = [stride EXCEPT ![t] = @ \div 2]
    /\ Arrive(t)
    /\ UNCHANGED <<count, values, pc, next, best, out>>

(* Mutant of ReduceBest: the barrier is inside the test on the thread. *)
ReduceBestDivergent(t) ==
    /\ pc[t] = "reduce" /\ stride[t] > 0 /\ Open(t)
    /\ stride' = [stride EXCEPT ![t] = @ \div 2]
    /\ IF t < stride[t]
         THEN /\ Arrive(t)
              /\ shared' = IF Better(shared[t + stride[t]], shared[t])
                              THEN [shared EXCEPT ![t] = shared[t + stride[t]]]
                              ELSE shared
         ELSE UNCHANGED <<shared, arrived>>
    /\ UNCHANGED <<count, values, pc, next, best, out>>

(* One round of the tree reduction, then the barrier all threads reach. *)
ReduceBest(t) ==
    /\ pc[t] = "reduce" /\ stride[t] > 0 /\ Open(t)
    /\ shared' = IF t < stride[t] /\ Better(shared[t + stride[t]], shared[t])
                   THEN [shared EXCEPT ![t] = shared[t + stride[t]]]
                   ELSE shared
    /\ stride' = [stride EXCEPT ![t] = @ \div 2]
    /\ Arrive(t)
    /\ UNCHANGED <<count, values, pc, next, best, out>>

(* Thread 0 stores the result; the others just return. *)
Return(t) ==
    /\ pc[t] = "reduce" /\ stride[t] = 0 /\ Open(t)
    /\ out' = IF t = 0 THEN shared[0].index ELSE out
    /\ pc' = [pc EXCEPT ![t] = "done"]
    /\ UNCHANGED <<count, values, next, best, stride, arrived, shared>>

ArgmaxThread(t) == Scan(t) \/ Publish(t) \/ ReduceBest(t) \/ Return(t)

ArgmaxFinished == Done /\ UNCHANGED argmaxVars

ArgmaxNext == (\E t \in Threads : ArgmaxThread(t)) \/ ArgmaxFinished

(* Every thread of a resident block is scheduled again and again. *)
ArgmaxSpec ==
    /\ ArgmaxInit /\ [][ArgmaxNext]_argmaxVars
    /\ \A t \in Threads : WF_argmaxVars(ArgmaxThread(t))
-----------------------------------------------------------------------------
(***************************************************************************)
(* Sampler::Greedy: std::ranges::max_element(logits) - logits.begin().     *)
(***************************************************************************)
Greedy ==
    CHOOSE n \in Indices :
        /\ \A m \in Indices : values[m] <= values[n]
        /\ \A m \in Indices : values[m] = values[n] => n <= m

(***************************************************************************)
(* The device answers the index the host would, however the threads are    *)
(* interleaved and whichever of them have nothing to scan.                 *)
(***************************************************************************)
MatchesGreedy == out # -1 => out = Greedy

(* The kernel stores an index. *)
Answers == <>(out # -1)
=============================================================================
