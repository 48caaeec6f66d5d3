---------------------------- MODULE ThreadBlock ----------------------------
(***************************************************************************)
(* The threads of one CUDA block and __syncthreads(), for the kernels of   *)
(* infer.cu that are modelled thread by thread: softmax_rows_kernel        *)
(* (SoftmaxRows), argmax_kernel (ArgmaxKernel), and the products, heads    *)
(* and sinks (KernelThreads).                                              *)
(*                                                                         *)
(* Threads of different warps run at their own pace between barriers, so   *)
(* every thread is a process.                                              *)
(***************************************************************************)
EXTENDS Integers

CONSTANT BlockDim  \* blockDim.x: threads in the block, 256 in both launches

(* A power of two: the reductions halve the block until one slot is left. *)
ASSUME BlockDimAssumption ==
    /\ BlockDim \in Nat \ {0}
    /\ \A d \in 1 .. BlockDim : BlockDim % d = 0 /\ d % 2 = 1 => d = 1

Threads == 0 .. BlockDim - 1

VARIABLES
    pc,      \* pc[t]: the next step of thread t
    stride,  \* stride[t]: the loop variable of t's current reduction
    arrived  \* arrived[t]: how many barriers t has reached

(* Thread t reaches a __syncthreads(). *)
Arrive(t) == arrived' = [arrived EXCEPT ![t] = @ + 1]

(* The barrier opens for t once every thread has reached it. *)
Open(t) == \A u \in Threads : arrived[u] >= arrived[t]

(* All threads have returned from the kernel. *)
Done == \A t \in Threads : pc[t] = "done"
=============================================================================
