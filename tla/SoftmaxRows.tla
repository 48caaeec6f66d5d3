----------------------------- MODULE SoftmaxRows -----------------------------
(***************************************************************************)
(* softmax_rows_kernel: the threads of one CUDA block normalise one row of *)
(* attention scores.  The shared array scratch is used for two tree        *)
(* reductions, first of the maximum and then of the sum, and slot 0 of it  *)
(* is how the result of each reaches all threads.                          *)
(*                                                                         *)
(* Arithmetic is abstracted to provenance: a maximum is the set of scores  *)
(* it has looked at, a sum is how often it has counted each exponential.   *)
(***************************************************************************)
EXTENDS ThreadBlock

CONSTANT KvLen  \* kv_len: scores in the row
ASSUME KvLenAssumption == KvLen \in Nat \ {0}

Scores == 0 .. KvLen - 1

VARIABLES
    scratch,  \* the shared array
    maximum,  \* maximum[t]: what t read as the maximum of the row
    row       \* row[j]: the score, its exponential, or its probability

softmaxVars == <<pc, stride, arrived, scratch, maximum, row>>

(* The scores thread t handles: a loop from threadIdx.x by blockDim.x. *)
Own(t) == {j \in Scores : j % BlockDim = t}

(* The values a slot of scratch can hold. *)
MaxOf(S) == [kind |-> "max", over |-> [j \in Scores |-> IF j \in S THEN 1 ELSE 0]]
SumOf(S) == [kind |-> "sum", over |-> [j \in Scores |-> IF j \in S THEN 1 ELSE 0]]
Unset == [kind |-> "unset", over |-> [j \in Scores |-> 0]]

(* fmaxf of two slots, and + of two slots. *)
MaxBoth(a, b) ==
    [kind |-> IF a.kind = "max" /\ b.kind = "max" THEN "max" ELSE "mixed",
     over |-> [j \in Scores |-> IF a.over[j] + b.over[j] > 0 THEN 1 ELSE 0]]
SumBoth(a, b) ==
    [kind |-> IF a.kind = "sum" /\ b.kind = "sum" THEN "sum" ELSE "mixed",
     over |-> [j \in Scores |-> a.over[j] + b.over[j]]]

SoftmaxInit ==
    /\ pc = [t \in Threads |-> "localMax"]
    /\ stride = [t \in Threads |-> BlockDim \div 2]
    /\ arrived = [t \in Threads |-> 0]
    /\ scratch = [t \in Threads |-> Unset]
    /\ maximum = [t \in Threads |-> Unset]
    /\ row = [j \in Scores |-> [state |-> "score", maximum |-> Unset, total |-> Unset]]

(* Thread t reaches a barrier, after which it goes on to the given step. *)
ArriveBefore(t, step) == Arrive(t) /\ pc' = [pc EXCEPT ![t] = step]

LocalMax(t) ==
    /\ pc[t] = "localMax"
    /\ scratch' = [scratch EXCEPT ![t] = MaxOf(Own(t))]
    /\ ArriveBefore(t, "reduceMax")
    /\ UNCHANGED <<stride, maximum, row>>

(***************************************************************************)
(* One round of a tree reduction: the lower half of the active threads     *)
(* takes in the upper half, and all threads meet at the barrier.  The loop *)
(* condition is stride > 0, the next stride half of it.                    *)
(***************************************************************************)
ReduceScratch(t, here, Both(_, _)) ==
    /\ pc[t] = here /\ stride[t] > 0 /\ Open(t)
    /\ scratch' = IF t < stride[t]
                    THEN [scratch EXCEPT ![t] = Both(@, scratch[t + stride[t]])]
                    ELSE scratch
    /\ stride' = [stride EXCEPT ![t] = @ \div 2]
    /\ ArriveBefore(t, here)
    /\ UNCHANGED <<maximum, row>>

(* Mutant of ReduceSum: the barrier is inside the test on the thread. *)
ReduceSumDivergent(t) ==
    /\ pc[t] = "reduceSum" /\ stride[t] > 0 /\ Open(t)
    /\ stride' = [stride EXCEPT ![t] = @ \div 2]
    /\ IF t < stride[t]
         THEN /\ scratch' = [scratch EXCEPT ![t] = SumBoth(@, scratch[t + stride[t]])]
              /\ ArriveBefore(t, "reduceSum")
         ELSE UNCHANGED <<scratch, arrived, pc>>
    /\ UNCHANGED <<maximum, row>>

ReduceMax(t) == ReduceScratch(t, "reduceMax", MaxBoth)
ReduceSum(t) == ReduceScratch(t, "reduceSum", SumBoth)

(* const float maximum = scratch[0]; no barrier follows. *)
ReadMaximum(t) ==
    /\ pc[t] = "reduceMax" /\ stride[t] = 0 /\ Open(t)
    /\ maximum' = [maximum EXCEPT ![t] = scratch[0]]
    /\ pc' = [pc EXCEPT ![t] = "localSum"]
    /\ UNCHANGED <<stride, arrived, scratch, row>>

(* The thread's exponentials, and their sum into its slot. *)
LocalSum(t) ==
    /\ pc[t] = "localSum"
    /\ row' = [j \in Scores |->
                 IF j \in Own(t)
                 THEN [row[j] EXCEPT !.state = "exponential", !.maximum = maximum[t]]
                 ELSE row[j]]
    /\ scratch' = [scratch EXCEPT ![t] = SumOf(Own(t))]
    /\ stride' = [stride EXCEPT ![t] = BlockDim \div 2]
    /\ ArriveBefore(t, "reduceSum")
    /\ UNCHANGED maximum

(* Mutant of Scale: the thread does not wait for the last round. *)
ScaleEarly(t) ==
    /\ pc[t] = "reduceSum" /\ stride[t] = 0
    /\ row' = [j \in Scores |->
                 IF j \in Own(t)
                 THEN [row[j] EXCEPT !.state = "probability", !.total = scratch[0]]
                 ELSE row[j]]
    /\ pc' = [pc EXCEPT ![t] = "done"]
    /\ UNCHANGED <<stride, arrived, scratch, maximum>>

(* inverse_sum = 1 / scratch[0], applied to the thread's exponentials. *)
Scale(t) ==
    /\ pc[t] = "reduceSum" /\ stride[t] = 0 /\ Open(t)
    /\ row' = [j \in Scores |->
                 IF j \in Own(t)
                 THEN [row[j] EXCEPT !.state = "probability", !.total = scratch[0]]
                 ELSE row[j]]
    /\ pc' = [pc EXCEPT ![t] = "done"]
    /\ UNCHANGED <<stride, arrived, scratch, maximum>>

SoftmaxThread(t) ==
    \/ LocalMax(t) \/ ReduceMax(t) \/ ReadMaximum(t)
    \/ LocalSum(t) \/ ReduceSum(t) \/ Scale(t)

SoftmaxFinished == Done /\ UNCHANGED softmaxVars

SoftmaxNext == (\E t \in Threads : SoftmaxThread(t)) \/ SoftmaxFinished

(* Every thread of a resident block is scheduled again and again. *)
SoftmaxSpec ==
    /\ SoftmaxInit /\ [][SoftmaxNext]_softmaxVars
    /\ \A t \in Threads : WF_softmaxVars(SoftmaxThread(t))
-----------------------------------------------------------------------------
(***************************************************************************)
(* Every thread subtracts the maximum of the whole row, as softmax_cpu     *)
(* does.  (scratch[0] is read after the last barrier of the first          *)
(* reduction and written before the first barrier of the second.)          *)
(***************************************************************************)
RowMaximum ==
    \A t \in Threads : maximum[t] # Unset => maximum[t] = MaxOf(Scores)

(***************************************************************************)
(* Every probability has been divided by a sum that counts each            *)
(* exponential of the row exactly once.                                    *)
(***************************************************************************)
RowSum ==
    \A j \in Scores : row[j].state = "probability" => row[j].total = SumOf(Scores)

(* The kernel ends with every score of the row turned into a probability. *)
AllNormalised == <>[](Done /\ \A j \in Scores : row[j].state = "probability")
=============================================================================
